---------------------------- MODULE StartOptions ----------------------------
(***************************************************************************)
(* What `cf dev start` makes of its options when there is no VM yet: how    *)
(* much memory the VM gets, whether the options are accepted, and which     *)
(* services are installed.  Services are sets of the words of `-s`; memory   *)
(* is in MB, in a word that overflows.                                      *)
(***************************************************************************)
EXTENDS Integers

Word == 16777216   \* values of a word: 2^64 in the program, 2^24 for TLC

\* uint64(i) and int(u).
Unsigned(i) == i % Word
Signed(u)   == IF u >= Word \div 2 THEN u - Word ELSE u

MinMemory            == 3072
MaxMemory            == 4096
SpringCloudMinMemory == 6144
SpringCloudMaxMemory == 8192

Least(a, b) == IF a < b THEN a ELSE b

GetDefaultMemory(total, min, max) == IF total \div 2 <= min THEN min ELSE Least(total \div 2, max)

Words == {"all", "none", "default", "redis", "rabbitmq", "mysql", "spring-cloud-services", "scs"}

\* Variant: "all" is not looked for.
NamesSCS(words) == words \cap {"scs", "spring-cloud-services"} # {}

HasSCS(words) == words \cap {"scs", "spring-cloud-services", "all"} # {}

\* Stopped.Start: the words that put a service into the provision options.
AskedBy == [redis        |-> {"all", "default", "redis"},
            rabbitmq     |-> {"all", "default", "rabbitmq", "spring-cloud-services", "scs"},
            spring_cloud |-> {"all", "spring-cloud-services", "scs"}]

Services(words) == LET asked == IF words = {} THEN {"default"} ELSE words
                   IN  {s \in DOMAIN AskedBy : asked \cap AskedBy[s] # {}}

DefaultMemory(total, words) ==
  IF HasSCS(words) THEN GetDefaultMemory(total, SpringCloudMinMemory, SpringCloudMaxMemory)
                   ELSE GetDefaultMemory(total, MinMemory, MaxMemory)

MinMemoryFor(words) == IF HasSCS(words) THEN SpringCloudMinMemory ELSE MinMemory

\* Start: the memory of the VM; 0 stands for no -m.
MemoryFor(total, memory, words) == IF memory # 0 THEN memory ELSE DefaultMemory(total, words)

\* verifyMemory, which a custom OVA is not subject to.
MemoryRefused(memory, words) == memory # 0 /\ memory < MinMemoryFor(words)
=============================================================================
