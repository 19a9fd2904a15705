------------------------- MODULE HostNetwork_proofs -------------------------
(***************************************************************************)
(* Proofs about HostNetwork for every list of allowed networks, any         *)
(* interfaces, other VMs, requests and sizes of the host's memory.          *)
(***************************************************************************)
EXTENDS HostNetwork, WellFoundedInduction, FiniteSetTheorems, TLAPS

LEMMA LeastIsIn ==
  ASSUME NEW S \in SUBSET Nat, S # {}
  PROVE  Min(S) \in S
<1> DEFINE R == {ss \in Nat \X Nat : ss[1] < ss[2]}
<1>1. IsWellFoundedOn(R, Nat)
  BY NatLessThanWellFounded, SMT DEF OpToRel
<1>2. \E x \in S : \A y \in S : ~ (<<y, x>> \in R)
  <2>1. S \subseteq Nat OBVIOUS
  <2> HIDE DEF R
  <2>2. QED BY <1>1, <2>1, WFMin, Zenon
<1>3. PICK x \in S : \A y \in S : ~ (<<y, x>> \in R)
  BY <1>2
<1>4. ASSUME NEW y \in S PROVE x <= y
  <2>1. x \in Nat /\ y \in Nat BY <1>3
  <2>2. <<y, x>> \notin R BY <1>3
  <2>3. QED BY <2>1, <2>2, SMT
<1>5. QED
  <2>1. \E z \in S : \A y \in S : z <= y BY <1>4
  <2>2. QED BY <2>1 DEF Min

LEMMA NoInterfaceIsZero == 0 \notin Ifaces /\ Ifaces \subseteq Nat
BY IfacesAssumption

LEMMA FirstOfType ==
  ASSUME NEW S \in SUBSET Ifaces
  PROVE  FirstOf(S) \in Ifaces \cup {0} /\ (S # {} => FirstOf(S) \in S)
BY LeastIsIn, IfacesAssumption DEF FirstOf

LEMMA FreeType == Free \subseteq Ifaces /\ (Free # {} => Min(Free) \in Free)
BY LeastIsIn, IfacesAssumption DEF Free

LEMMA HeadNetType ==
  ASSUME nets \in SUBSET DOMAIN AllowedNets, nets # {}
  PROVE  Min(nets) \in nets /\ HeadNet \in Allowed
<1>1. DOMAIN AllowedNets \subseteq Nat BY NetsAssumption
<1>2. Min(nets) \in nets BY <1>1, LeastIsIn
<1>3. QED BY <1>2 DEF HeadNet, Allowed

\* An address in a network of the host.
LEMMA AddressType ==
  ASSUME NEW net \in Nets
  PROVE  IPForSubnet(net) \in Addresses
BY DEF IPForSubnet, Addresses

LEMMA DomainType ==
  ASSUME NEW ip \in Addresses
  PROVE  DomainForIP(ip) \in Domains
BY DEF DomainForIP, Domains

(* Memory. *)

LEMMA WordIsLarge == Word \in Nat /\ Word > SpringCloudMaxMemory
BY SMT DEF Word, SpringCloudMaxMemory

LEMMA WordType == ASSUME NEW i \in Int PROVE Unsigned(i) \in 0 .. Word - 1
BY WordIsLarge DEF Unsigned, SpringCloudMaxMemory

LEMMA DefaultFits ==
  ASSUME NEW t \in Nat, NEW words
  PROVE  DefaultMemory(t, words) \in MinMemoryFor(words) .. SpringCloudMaxMemory
BY DEF DefaultMemory, GetDefaultMemory, Least, MinMemoryFor, MinMemory, MaxMemory,
       SpringCloudMinMemory, SpringCloudMaxMemory

LEMMA MemoryFits ==
  ASSUME NEW t \in Nat, NEW o \in Options
  PROVE  /\ MemoryFor(t, Unsigned(o.memory), o.words) \in 0 .. Word - 1
         /\ ~Refused(o) /\ ~o.ova =>
              MemoryFor(t, Unsigned(o.memory), o.words) >= MinMemoryFor(o.words)
<1>1. o.memory \in Int /\ o.ova \in BOOLEAN BY DEF Options
<1>2. Unsigned(o.memory) \in 0 .. Word - 1 BY <1>1, WordType
<1>3. DefaultMemory(t, o.words) \in MinMemoryFor(o.words) .. SpringCloudMaxMemory
  BY DefaultFits
<1>4. MinMemoryFor(o.words) \in Nat /\ SpringCloudMaxMemory \in Nat
  BY DEF MinMemoryFor, MinMemory, SpringCloudMinMemory, SpringCloudMaxMemory
<1>5. ~Refused(o) /\ ~o.ova => Unsigned(o.memory) = 0 \/ ~(Unsigned(o.memory) < MinMemoryFor(o.words))
  BY DEF Refused, MemoryRefused
<1>6. QED BY <1>2, <1>3, <1>4, <1>5, WordIsLarge DEF MemoryFor

(* hasSCS finds what Stopped.Start will install. *)
LEMMA SCSNeedsMore ==
  ASSUME NEW words
  PROVE  "spring_cloud" \in Services(words) <=> HasSCS(words)
BY DEF Services, AskedBy, HasSCS

LEMMA ServicesType == ASSUME NEW words PROVE Services(words) \in SUBSET DOMAIN AskedBy
BY DEF Services

-----------------------------------------------------------------------------
(* Types.                                                                   *)

LEMMA NothingType == /\ Plain \in Options /\ NoPick \in NetworkConfigs /\ NoVM \in VMs
                     /\ 0 \in 0 .. Word - 1 /\ NotListed \in [Ifaces -> Nets \cup {Absent, Raw}]
<1>1. Plain \in Options BY DEF Plain, Options
<1>2. NoPick \in NetworkConfigs BY DEF NoPick, NetworkConfigs
<1>3. NoVM \in VMs BY DEF NoVM, VMs
<1>4. 0 \in 0 .. Word - 1 BY WordIsLarge DEF SpringCloudMaxMemory
<1>5. NotListed \in [Ifaces -> Nets \cup {Absent, Raw}] BY DEF NotListed
<1>6. QED BY <1>1, <1>2, <1>3, <1>4, <1>5

LEMMA TypeInit == Init => TypeOK
BY NothingType DEF Init, TypeOK, Nets, PCs

LEMMA ExitType ==
  ASSUME TypeOK, Exit
  PROVE  /\ pc' \in PCs /\ opts' \in Options /\ memory' \in 0 .. Word - 1
         /\ listed' \in [Ifaces -> Nets \cup {Absent, Raw}]
         /\ nets' \in SUBSET DOMAIN AllowedNets /\ pick' \in NetworkConfigs /\ tries' \in 0 .. 3
BY NothingType DEF Exit, PCs

LEMMA SetIsPartOfInterfaces == ASSUME NEW net PROVE AddrsInSet(net) \in SUBSET Ifaces
BY DEF AddrsInSet, ReusableInterfaces

\* What the options ask for is an address of a network.
LEMMA AskedType ==
  ASSUME NEW o \in Options, ~Refused(o), o.ip # NoAddress \/ o.domain # None
  PROVE  AskedIP(o) \in Addresses
<1>1. o.ip \in Addresses \cup {NoAddress} /\ o.domain \in Allowed \cup {XIP, None}
  BY DEF Options, Domains
<1>2. CASE o.ip # NoAddress BY <1>1, <1>2 DEF AskedIP
<1>3. CASE o.ip = NoAddress
  <2>1. o.domain \in Allowed BY <1>1, <1>3 DEF Refused
  <2>2. QED BY <1>3, <2>1, AddressType DEF AskedIP, Nets
<1>4. QED BY <1>2, <1>3

\* The options have been accepted.
Accepted == pc # "idle" => ~Refused(opts)

LEMMA AcceptedInit == Init => Accepted
BY DEF Init, Accepted

LEMMA AcceptedNext == Accepted /\ [Next]_vars => Accepted'
<1> SUFFICES ASSUME Accepted, [Next]_vars PROVE Accepted'
  OBVIOUS
<1> USE DEF Accepted
<1>1. CASE Start
  <2>1. PICK o \in Requests : ~Refused(o) /\ opts' = o BY <1>1 DEF Start
  <2>2. QED BY <2>1 DEF Refused
<1>2. ASSUME UNCHANGED opts, pc # "idle" PROVE Accepted'
  BY <1>2 DEF Refused
<1>3. ASSUME Exit PROVE Accepted' BY <1>3 DEF Exit
<1>4. CASE Step
  BY <1>2, <1>3, <1>4 DEF Step, CreateVM, GetHostOnlyInterfaces, Select, PickNew, Probe, PassTwins, AllTaken,
     Picked, Pass, Configure, CreateInterface, CreateAttemptFails, IPConfig, Attach, WriteConfig,
     SetMemory, SetMemoryFails, CallFails, Destroy, procVars
<1>5. CASE \/ \E r \in Rivals : RivalMoves(r)
           \/ \E i \in Ifaces : SomebodyConfigures(i)
           \/ \E n \in Allowed : NetworkChanges(n)
  BY <1>5 DEF RivalMoves, SomebodyConfigures, NetworkChanges, Others, procVars, Refused
<1>6. CASE UNCHANGED vars BY <1>6 DEF vars, procVars, Refused
<1>7. QED BY <1>1, <1>4, <1>5, <1>6 DEF Next

LEMMA PickedType ==
  ASSUME TypeOK, NEW net \in Allowed, NEW iface \in Ifaces \cup {0}, Picked(net, iface)
  PROVE  pick' \in NetworkConfigs
<1>1. IPForSubnet(net) \in Addresses BY AddressType DEF Nets
<1>2. DomainForIP(IPForSubnet(net)) \in Domains BY <1>1, DomainType
<1>3. QED BY <1>1, <1>2 DEF Picked, NetworkConfigs, Nets

\* What the picker has chosen by the time it is used.
Chosen ==
  /\ pc \in {"configure", "createIf", "ipconfig", "attach", "config"} =>
       pick.net \in Nets /\ pick.ip \in Addresses /\ pick.ip.net = pick.net
  /\ pc \in {"configure", "ipconfig", "attach", "config"} => pick.iface \in Ifaces
  /\ pc = "createIf" => tries \in 1 .. 3

LEMMA ChosenInit == Init => Chosen
BY DEF Init, Chosen

LEMMA ChosenNext == TypeOK /\ Accepted /\ Chosen /\ [Next]_vars => Chosen'
<1> SUFFICES ASSUME TypeOK, Accepted, Chosen, [Next]_vars PROVE Chosen'
  OBVIOUS
<1> USE DEF Chosen
<1>1. CASE Start BY <1>1 DEF Start
<1>2. CASE Select
  <2>1. CASE opts.ip # NoAddress \/ opts.domain # None
    <3>1. opts \in Options /\ ~Refused(opts)
      BY <1>2 DEF TypeOK, Select, Accepted
    <3>2. AskedIP(opts) \in Addresses BY <2>1, <3>1, AskedType
    <3>3. AskedIP(opts).net \in Nets BY <3>2 DEF Addresses
    <3>4. pick'.net = AskedIP(opts).net /\ pick'.ip = AskedIP(opts)
      BY <1>2, <2>1 DEF Select, AskedIP
    <3>5. pc' \in {"createIf", "configure"} /\ tries' = 3 BY <1>2, <2>1 DEF Select
    <3>6. pc' = "configure" => pick'.iface \in Ifaces
      BY <1>2, <2>1, FirstOfType, SetIsPartOfInterfaces DEF Select
    <3>7. QED BY <3>2, <3>3, <3>4, <3>5, <3>6
  <2>2. CASE ~(opts.ip # NoAddress \/ opts.domain # None) BY <1>2, <2>2 DEF Select
  <2>3. QED BY <2>1, <2>2
<1>3. ASSUME NEW net \in Allowed, NEW iface \in Ifaces \cup {0}, Picked(net, iface) PROVE Chosen'
  <2>1. IPForSubnet(net) \in Addresses /\ IPForSubnet(net).net = net /\ net \in Nets
    BY AddressType DEF Nets, IPForSubnet
  <2>2. pick'.net = net /\ pick'.ip = IPForSubnet(net) /\ pick'.iface = iface
    BY <1>3 DEF Picked
  <2>3. pc' = (IF iface = 0 THEN "createIf" ELSE "configure") /\ tries' = 3
    BY <1>3 DEF Picked
  <2>4. QED BY <2>1, <2>2, <2>3
<1>4. CASE PickNew \/ Probe \/ PassTwins
  <2>1. HeadNet \in Allowed
    BY <1>4, HeadNetType DEF TypeOK, PickNew, Probe, PassTwins
  <2>2. CASE Pass BY <1>4, <2>2 DEF Pass, PickNew, Probe, PassTwins
  <2>3. QED BY <1>3, <1>4, <2>1, <2>2 DEF PickNew, Probe, PassTwins
<1>5. ASSUME Exit PROVE Chosen' BY <1>5 DEF Exit
<1>6. CASE AllTaken \/ SetMemory \/ SetMemoryFails \/ CallFails
  BY <1>5, <1>6 DEF AllTaken, SetMemory, SetMemoryFails, CallFails
<1>7. CASE CreateVM \/ GetHostOnlyInterfaces \/ Configure \/ IPConfig \/ Attach \/ WriteConfig
  BY <1>7 DEF CreateVM, GetHostOnlyInterfaces, Configure, IPConfig, Attach, WriteConfig
<1>8. CASE CreateInterface
  <2>1. Min(Free) \in Ifaces BY <1>8, FreeType DEF CreateInterface
  <2>2. /\ pick'.net = pick.net /\ pick'.ip = pick.ip /\ pick'.iface = Min(Free)
        /\ pc = "createIf" /\ pc' = "ipconfig"
    BY <1>8 DEF CreateInterface, TypeOK, NetworkConfigs
  <2>3. QED BY <2>1, <2>2
<1>9. CASE CreateAttemptFails BY <1>5, <1>9 DEF CreateAttemptFails, LastAttempt, TypeOK
<1>10. CASE Destroy \/ (\E r \in Rivals : RivalMoves(r)) \/ (\E i \in Ifaces : SomebodyConfigures(i))
            \/ (\E n \in Allowed : NetworkChanges(n)) \/ UNCHANGED vars
  BY <1>10 DEF Destroy, RivalMoves, SomebodyConfigures, NetworkChanges, Others, procVars, vars
<1>11. QED BY <1>1, <1>2, <1>4, <1>6, <1>7, <1>8, <1>9, <1>10 DEF Next, Step

LEMMA TypeNext == TypeOK /\ Accepted /\ Chosen /\ [Next]_vars => TypeOK'
<1> SUFFICES ASSUME TypeOK, Accepted, Chosen, [Next]_vars PROVE TypeOK'
  OBVIOUS
<1> USE DEF TypeOK, hostVars, procVars
<1>1. CASE Start
  <2>1. PICK o \in Requests : /\ opts' = o
                              /\ memory' = MemoryFor(total, Unsigned(o.memory), o.words)
    BY <1>1 DEF Start
  <2>2. o \in Options /\ total \in Nat BY <2>1, RequestsAssumption
  <2>3. memory' \in 0 .. Word - 1 BY <2>1, <2>2, MemoryFits
  <2>4. QED BY <1>1, <2>1, <2>2, <2>3 DEF Start, PCs
<1>2. CASE Step
  <2> USE <1>2
  <2>1. CASE CreateVM
    <3> DEFINE made  == [NoVM EXCEPT !.state = "created"]
               named == [made EXCEPT !.services = Services(opts.words)]
    <3>1. made \in VMs BY NothingType DEF VMs
    <3>2. named \in VMs
      <4> HIDE DEF made
      <4>1. QED BY <3>1, ServicesType DEF VMs
    <3>3. opts.ova \in BOOLEAN BY DEF Options
    <3>4. [named EXCEPT !.custom = opts.ova] \in VMs
      <4> HIDE DEF named
      <4>1. QED BY <3>2, <3>3 DEF VMs
    <3>5. vm' \in VMs BY <2>1, <3>4 DEF CreateVM
    <3>6. QED BY <2>1, <3>5 DEF CreateVM, Step, PCs
  <2>2. CASE Select
    <3>1. CASE opts.ip # NoAddress \/ opts.domain # None
      <4>1. AskedIP(opts) \in Addresses BY <2>2, <3>1, AskedType DEF Select, Accepted
      <4>2. DomainForIP(AskedIP(opts)) \in Domains BY <4>1, DomainType
      <4>3. opts.ip \in Addresses \cup {NoAddress} /\ opts.domain \in Domains \cup {None}
        BY DEF Options
      <4>4. AskedIP(opts).net \in Nets BY <4>1 DEF Addresses
      <4>5. FirstOf(AddrsInSet(AskedIP(opts).net)) \in Ifaces \cup {0}
        BY FirstOfType, SetIsPartOfInterfaces
      <4>6. pick' \in NetworkConfigs
        BY <2>2, <3>1, <4>1, <4>2, <4>3, <4>4, <4>5 DEF Select, NetworkConfigs
      <4>7. pc' \in PCs /\ tries' \in 0 .. 3 /\ UNCHANGED nets BY <2>2, <3>1 DEF Select, PCs
      <4>8. listed' \in [Ifaces -> Nets \cup {Absent, Raw}]
        BY <2>2, <3>1, NothingType DEF Select
      <4>9. QED BY <2>2, <4>6, <4>7, <4>8 DEF Select, Step
    <3>2. CASE ~(opts.ip # NoAddress \/ opts.domain # None)
      BY <2>2, <3>2 DEF Select, Step, PCs
    <3>3. QED BY <3>1, <3>2
  <2>3. ASSUME NEW iface \in Ifaces \cup {0}, nets # {}, Picked(HeadNet, iface) PROVE TypeOK'
    <3>1. pick' \in NetworkConfigs BY <2>3, HeadNetType, PickedType
    <3>2. listed' \in [Ifaces -> Nets \cup {Absent, Raw}] BY <2>3, NothingType DEF Picked
    <3>3. QED BY <2>3, <3>1, <3>2 DEF Picked, Step, PCs
  <2>4. ASSUME Pass PROVE TypeOK' BY <2>4 DEF Pass, Step
  <2>5. CASE PickNew \/ Probe \/ PassTwins BY <2>3, <2>4, <2>5 DEF PickNew, Probe, PassTwins
  <2>6. ASSUME Exit, UNCHANGED <<hostVars, vm>> PROVE TypeOK' BY <2>6, ExitType DEF Step
  <2>7. CASE AllTaken \/ SetMemoryFails \/ CallFails
    BY <2>6, <2>7 DEF AllTaken, SetMemoryFails, CallFails
  <2>8. CASE Configure \/ IPConfig
    <3>1. pick.net \in Nets /\ hostonly' = [hostonly EXCEPT ![pick.iface] = pick.net]
      BY <2>8 DEF Configure, IPConfig, Chosen
    <3>2. hostonly' \in [Ifaces -> Nets \cup {Absent, Raw}]
      BY <3>1
    <3>3. QED BY <2>8, <3>2 DEF Configure, IPConfig, Step, PCs
  <2>9. CASE CreateInterface
    <3>1. Min(Free) \in Ifaces BY <2>9, FreeType DEF CreateInterface
    <3>2. pick' \in NetworkConfigs BY <2>9, <3>1 DEF CreateInterface, NetworkConfigs
    <3>3. QED BY <2>9, <3>1, <3>2 DEF CreateInterface, Step, PCs
  <2>10. CASE CreateAttemptFails
    <3>1. Free # {} => Min(Free) \in Ifaces BY FreeType
    <3>2. hostonly' \in [Ifaces -> Nets \cup {Absent, Raw}]
      BY <2>10, <3>1 DEF CreateAttemptFails
    <3>3. CASE Exit BY <2>10, <3>2, <3>3, ExitType DEF CreateAttemptFails, Step
    <3>4. CASE ~Exit
      <4>1. tries' = tries - 1 /\ tries # 1 /\ UNCHANGED <<pc, opts, memory, listed, nets, pick>>
        BY <2>10, <3>4 DEF CreateAttemptFails, LastAttempt
      <4>2. tries' \in 0 .. 3 BY <2>10, <4>1 DEF CreateAttemptFails, Chosen
      <4>3. QED BY <2>10, <3>2, <4>1, <4>2 DEF CreateAttemptFails, Step
    <3>5. QED BY <3>3, <3>4
  <2>11. CASE Attach
    <3>1. vm' \in VMs BY <2>11 DEF Attach, VMs, NetworkConfigs
    <3>2. QED BY <2>11, <3>1 DEF Attach, Step, PCs
  <2>12. CASE WriteConfig
    <3>1. vm' \in VMs BY <2>12 DEF WriteConfig, VMs, NetworkConfigs
    <3>2. QED BY <2>12, <3>1 DEF WriteConfig, Step, PCs
  <2>13. CASE SetMemory
    <3>1. Signed(memory) \in Int BY WordIsLarge DEF Signed, SpringCloudMaxMemory
    <3>2. vm' \in VMs BY <2>13, <3>1 DEF SetMemory, VMs
    <3>3. QED BY <2>13, <3>2, ExitType DEF SetMemory, Step
  <2>14. CASE Destroy BY <2>14, NothingType DEF Destroy, Step
  <2>15. CASE GetHostOnlyInterfaces BY <2>15 DEF GetHostOnlyInterfaces, Step, PCs
  <2>16. QED BY <2>1, <2>2, <2>5, <2>7, <2>8, <2>9, <2>10, <2>11, <2>12, <2>13, <2>14, <2>15 DEF Step
<1>3. CASE \E r \in Rivals : RivalMoves(r) BY <1>3 DEF RivalMoves, Others
<1>4. CASE \E i \in Ifaces : SomebodyConfigures(i) BY <1>4 DEF SomebodyConfigures, Others
<1>5. CASE \E n \in Allowed : NetworkChanges(n) BY <1>5 DEF NetworkChanges, Others, Nets
<1>6. CASE UNCHANGED vars BY <1>6 DEF vars
<1>7. QED BY <1>1, <1>2, <1>3, <1>4, <1>5, <1>6 DEF Next

TypeInv == TypeOK /\ Accepted /\ Chosen

LEMMA TypeInvHolds == Spec => []TypeInv
<1>1. Init => TypeInv BY TypeInit, AcceptedInit, ChosenInit DEF TypeInv
<1>2. TypeInv /\ [Next]_vars => TypeInv' BY TypeNext, AcceptedNext, ChosenNext DEF TypeInv
<1>3. QED BY <1>1, <1>2, PTL DEF Spec

\* Every variable keeps its type, and memory the width of a word, whatever is
\* asked for with -m and whoever else changes the host.
THEOREM TypeCorrect == Spec => []TypeOK
<1>1. TypeInv => TypeOK BY DEF TypeInv
<1>2. QED BY <1>1, TypeInvHolds, PTL

-----------------------------------------------------------------------------
(* Memory.                                                                  *)

MemoryInv ==
  /\ pc # "idle" /\ ~opts.ova => memory >= MinMemoryFor(opts.words)
  /\ pc \notin {"idle", "create"} => vm.services = Services(opts.words) /\ vm.custom = opts.ova
  /\ MemorySuits

LEMMA MemoryInit == Init => MemoryInv
BY DEF Init, MemoryInv, MemorySuits, NoVM

\* Nothing of this is touched.
LEMMA QuietMemory ==
  ASSUME MemoryInv, pc \notin {"idle", "create"}, pc' \notin {"idle", "create"},
         UNCHANGED <<opts, memory>>,
         vm'.services = vm.services, vm'.custom = vm.custom, vm'.memory = vm.memory
  PROVE  MemoryInv'
BY DEF MemoryInv, MemorySuits

LEMMA MemoryNext == TypeInv /\ MemoryInv /\ [Next]_vars => MemoryInv'
<1> SUFFICES ASSUME TypeInv, MemoryInv, [Next]_vars PROVE MemoryInv'
  OBVIOUS
<1>0. TypeOK BY DEF TypeInv
<1>1. CASE Start
  <2>1. PICK o \in Requests : /\ ~Refused(o) /\ opts' = o
                              /\ memory' = MemoryFor(total, Unsigned(o.memory), o.words)
    BY <1>1 DEF Start
  <2>2. o \in Options /\ total \in Nat BY <1>0, <2>1, RequestsAssumption DEF TypeOK
  <2>3. ~o.ova => memory' >= MinMemoryFor(o.words) BY <2>1, <2>2, MemoryFits
  <2>4. pc' = "create" /\ vm' = vm BY <1>1 DEF Start
  <2>5. QED BY <2>1, <2>3, <2>4 DEF MemoryInv, MemorySuits
<1>2. CASE CreateVM
  <2>1. vm' = [NoVM EXCEPT !.state = "created", !.services = Services(opts.words), !.custom = opts.ova]
    BY <1>2 DEF CreateVM
  <2> DEFINE made  == [NoVM EXCEPT !.state = "created"]
             named == [made EXCEPT !.services = Services(opts.words)]
  <2>2. made \in VMs /\ made.memory = 0 BY NothingType DEF VMs, NoVM
  <2>3. named \in VMs /\ named.memory = 0 /\ named.services = Services(opts.words)
    <3> HIDE DEF made
    <3>1. QED BY <2>2, ServicesType DEF VMs
  <2>4. /\ [named EXCEPT !.custom = opts.ova].memory = 0
        /\ [named EXCEPT !.custom = opts.ova].services = Services(opts.words)
        /\ [named EXCEPT !.custom = opts.ova].custom = opts.ova
    <3> HIDE DEF named
    <3>1. QED BY <2>3 DEF VMs
  <2>5. vm'.memory = 0 /\ vm'.services = Services(opts.words) /\ vm'.custom = opts.ova
    BY <2>1, <2>4
  <2>6. pc = "create" /\ UNCHANGED <<opts, memory>> BY <1>2 DEF CreateVM
  <2>7. QED BY <2>5, <2>6 DEF MemoryInv, MemorySuits
<1>3. ASSUME Exit, vm' = vm PROVE MemoryInv' BY <1>3 DEF Exit, MemoryInv, MemorySuits
<1>4. CASE AllTaken \/ SetMemoryFails \/ CallFails
  BY <1>3, <1>4 DEF AllTaken, SetMemoryFails, CallFails
<1>5. CASE \/ GetHostOnlyInterfaces \/ Select \/ PickNew \/ Probe \/ PassTwins \/ Configure
           \/ CreateInterface \/ IPConfig
  BY <1>5, QuietMemory DEF GetHostOnlyInterfaces, Select, PickNew, Probe, PassTwins, Picked, Pass,
     Configure, CreateInterface, IPConfig
<1>6. CASE CreateAttemptFails BY <1>3, <1>6, QuietMemory DEF CreateAttemptFails
<1>7. CASE Attach
  <2>1. vm' = [vm EXCEPT !.nic = pick.iface, !.auto = opts.ip = NoAddress /\ opts.domain = None]
    BY <1>7 DEF Attach
  <2>2. vm'.services = vm.services /\ vm'.custom = vm.custom /\ vm'.memory = vm.memory
    BY <1>0, <2>1 DEF TypeOK, VMs
  <2>3. QED BY <1>7, <2>2, QuietMemory DEF Attach
<1>8. CASE WriteConfig
  <2>1. vm'.services = vm.services /\ vm'.custom = vm.custom /\ vm'.memory = vm.memory
    BY <1>0, <1>8 DEF WriteConfig, TypeOK, VMs
  <2>2. QED BY <1>8, <2>1, QuietMemory DEF WriteConfig
<1>9. CASE SetMemory
  <2>1. Signed(memory) = memory
    BY <1>0, <1>9, WordIsLarge DEF SetMemory, Signed, TypeOK, SpringCloudMaxMemory
  <2>2. vm'.memory = memory /\ vm'.services = vm.services /\ vm'.custom = vm.custom
    BY <1>0, <1>9, <2>1 DEF SetMemory, TypeOK, VMs
  <2>3. pc = "memory" /\ pc' = "idle" BY <1>9 DEF SetMemory, Exit
  <2>4. ~vm.custom => memory >= MinMemoryFor(opts.words) /\ vm.services = Services(opts.words)
    BY <2>3 DEF MemoryInv
  <2>5. MemorySuits' BY <2>2, <2>4, SCSNeedsMore DEF MemorySuits, MinMemoryFor
  <2>6. QED BY <2>3, <2>5 DEF MemoryInv
<1>10. CASE Destroy
  BY <1>10 DEF Destroy, NoVM, MemoryInv, MemorySuits, procVars
<1>11. CASE (\E r \in Rivals : RivalMoves(r)) \/ (\E i \in Ifaces : SomebodyConfigures(i))
            \/ (\E n \in Allowed : NetworkChanges(n)) \/ UNCHANGED vars
  BY <1>11 DEF RivalMoves, SomebodyConfigures, NetworkChanges, Others, procVars, vars, MemoryInv, MemorySuits
<1>12. QED BY <1>1, <1>2, <1>4, <1>5, <1>6, <1>7, <1>8, <1>9, <1>10, <1>11 DEF Next, Step

\* The VM has the memory its services need, for every -m, -s and host: the two
\* readings of -s agree, and the minimum holds through uint64 and back.
THEOREM MemoryCorrect == Spec => []MemorySuits
<1>1. MemoryInv => MemorySuits BY DEF MemoryInv
<1>2. QED BY <1>1, MemoryInit, MemoryNext, TypeInvHolds, PTL DEF Spec

-----------------------------------------------------------------------------
(* The network, as long as nobody else changes the host.                    *)

Unasked == opts.ip = NoAddress /\ opts.domain = None

Taken(net) == \/ net \in outside
              \/ \E r \in Rivals : rivalNic[r] # 0 /\ hostonly[rivalNic[r]] = net
              \/ \E p \in Twins(hostonly) : hostonly[p[1]] = net

\* Whoever hangs on an interface, it is one that is there.
RivalInv == \A r \in Rivals : rivalNic[r] # 0 => hostonly[rivalNic[r]] # Absent

\* What VBoxManage has listed is what is there.
ListInv == calm /\ pc \in {"select", "probe"} => listed = hostonly

\* The networks still to look at are not the host's own, the others are taken.
ProbeInv ==
  pc = "probe" => /\ Unasked
                  /\ calm => /\ \A k \in nets : AllowedNets[k] \notin outside
                             /\ \A k \in DOMAIN AllowedNets \ nets : Taken(AllowedNets[k])

\* The interface chosen has the address, or nobody has.
PlaceInv ==
  calm => /\ pc \in {"configure", "attach", "config"} => hostonly[pick.iface] = pick.net
          /\ pc \in {"createIf", "ipconfig"} => \A i \in Ifaces : hostonly[i] # pick.net
          /\ pc = "config" => vm.nic = pick.iface

\* The VM that asked for nothing gets a network of its own.
OwnInv ==
  calm /\ Unasked =>
    /\ pc \in {"configure", "createIf", "ipconfig", "attach"} => pick.net \in Allowed \ outside
    /\ pc \in {"configure", "ipconfig", "attach"} => \A r \in Rivals : rivalNic[r] # pick.iface

NetInv == RivalInv /\ ListInv /\ ProbeInv /\ PlaceInv /\ OwnInv

LEMMA NetInit == Init => NetInv
BY DEF Init, NetInv, RivalInv, ListInv, ProbeInv, PlaceInv, OwnInv

LEMMA NetNames == Absent \notin Nets /\ Raw \notin Nets /\ Absent # Raw /\ Allowed \subseteq Nets
BY NetsAssumption DEF Nets, Absent, Raw

LEMMA AddrsWithNet ==
  ASSUME NEW net \in Nets, listed = hostonly
  PROVE  AddrsInSet(net) = {i \in Ifaces : hostonly[i] = net}
BY NetNames DEF AddrsInSet, ReusableInterfaces

\* The host's own networks are those VirtualBox does not make.
LEMMA NonReusableIsOutside ==
  ASSUME NEW net \in Nets, listed = hostonly
  PROVE  NonReusableInterfaceExists(net) <=> net \in outside
<1>1. 0 \notin ReusableInterfaces BY NoInterfaceIsZero DEF ReusableInterfaces
<1>2. \A i \in Ifaces : hostonly[i] \in Nets => i \in ReusableInterfaces
  BY NetNames DEF ReusableInterfaces
<1>3. ASSUME NonReusableInterfaceExists(net) PROVE net \in outside
  <2>1. PICK iface \in Interfaces : iface[1] = net /\ iface[2] \notin ReusableInterfaces
    BY <1>3 DEF NonReusableInterfaceExists
  <2>2. CASE \E n \in outside : iface = <<n, 0>> BY <2>1, <2>2
  <2>3. CASE \E i \in {j \in Ifaces : hostonly[j] \in Nets} : iface = <<hostonly[i], i>>
    BY <1>2, <2>1, <2>3
  <2>4. QED BY <2>1, <2>2, <2>3 DEF Interfaces
<1>4. ASSUME net \in outside PROVE NonReusableInterfaceExists(net)
  <2>1. <<net, 0>> \in Interfaces BY <1>4 DEF Interfaces
  <2>2. QED BY <1>1, <2>1 DEF NonReusableInterfaceExists
<1>5. QED BY <1>3, <1>4

\* More than one interface with an address are twins.
LEMMA SeveralAreTwins ==
  ASSUME NEW net \in Nets, listed = hostonly, Cardinality(AddrsInSet(net)) > 1
  PROVE  \E p \in Twins(hostonly) : hostonly[p[1]] = net
<1>1. AddrsInSet(net) = {i \in Ifaces : hostonly[i] = net} BY AddrsWithNet
<1>2. IsFiniteSet(AddrsInSet(net)) /\ Cardinality(AddrsInSet(net)) \in Nat
  BY <1>1, IfacesAssumption, FS_Subset, FS_CardinalityType
<1>3. AddrsInSet(net) # {} BY <1>2, FS_EmptySet
<1>4. ASSUME NEW x, AddrsInSet(net) = {x} PROVE FALSE
  <2>1. Cardinality({x}) = 1 BY FS_Singleton
  <2>2. ~ (Cardinality({x}) > 1) BY <2>1
  <2>3. QED BY <1>4, <2>2
<1>5. PICK i : i \in AddrsInSet(net) BY <1>3
<1>6. AddrsInSet(net) # {i} BY <1>4
<1>7. PICK j \in AddrsInSet(net) : i # j BY <1>5, <1>6
<1>8. <<i, j>> \in Twins(hostonly) BY <1>1, <1>5, <1>7 DEF Twins
<1>9. QED BY <1>1, <1>5, <1>8

LEMMA RivalNext == TypeInv /\ RivalInv /\ [Next]_vars => RivalInv'
<1> SUFFICES ASSUME TypeInv, RivalInv, [Next]_vars PROVE RivalInv'
  OBVIOUS
<1>1. /\ hostonly \in [Ifaces -> Nets \cup {Absent, Raw}]
      /\ rivalNic \in [Rivals -> Ifaces \cup {0}]
  BY DEF TypeInv, TypeOK
<1>2. ASSUME UNCHANGED <<hostonly, rivalNic>> PROVE RivalInv' BY <1>2 DEF RivalInv
<1>3. ASSUME NEW i \in Ifaces, NEW a \in Nets \cup {Raw},
             hostonly' = [hostonly EXCEPT ![i] = a], UNCHANGED rivalNic
      PROVE  RivalInv'
  BY <1>1, <1>3, NetNames DEF RivalInv
<1>4. CASE Configure \/ IPConfig
  BY <1>3, <1>4 DEF Configure, IPConfig, TypeInv, Chosen
<1>5. CASE CreateInterface \/ CreateAttemptFails
  BY <1>2, <1>3, <1>5, FreeType DEF CreateInterface, CreateAttemptFails
<1>6. CASE \E i \in Ifaces : SomebodyConfigures(i)
  BY <1>3, <1>6 DEF SomebodyConfigures
<1>7. ASSUME NEW r \in Rivals, RivalMoves(r) PROVE RivalInv'
  <2>1. PICK i \in {0} \cup {j \in Ifaces : hostonly[j] # Absent} : rivalNic' = [rivalNic EXCEPT ![r] = i]
    BY <1>7 DEF RivalMoves
  <2>2. UNCHANGED hostonly BY <1>7 DEF RivalMoves
  <2>3. QED BY <1>1, <2>1, <2>2 DEF RivalInv
<1>8. CASE \/ Start \/ CreateVM \/ GetHostOnlyInterfaces \/ Select \/ PickNew \/ Probe \/ PassTwins
           \/ AllTaken \/ Attach \/ WriteConfig \/ SetMemory \/ SetMemoryFails \/ CallFails \/ Destroy
           \/ (\E n \in Allowed : NetworkChanges(n)) \/ UNCHANGED vars
  BY <1>2, <1>8 DEF Start, CreateVM, GetHostOnlyInterfaces, Select, PickNew, Probe, PassTwins, Picked,
     Pass, AllTaken, Attach, WriteConfig, SetMemory, SetMemoryFails, CallFails, Destroy, NetworkChanges,
     hostVars, vars
<1>9. QED BY <1>4, <1>5, <1>6, <1>7, <1>8 DEF Next, Step

\* What others do while a command runs ends the calm.
LEMMA OthersEndCalm ==
  ASSUME Others
  PROVE  UNCHANGED <<vm, procVars>> /\ (pc # "idle" => ~calm')
BY DEF Others

LEMMA NetNext == TypeInv /\ NetInv /\ [Next]_vars => NetInv'
<1> SUFFICES ASSUME TypeInv, NetInv, [Next]_vars PROVE NetInv'
  OBVIOUS
<1>1. RivalInv' BY RivalNext DEF NetInv
<1>2. TypeOK /\ Chosen BY DEF TypeInv
<1>3. ASSUME Others PROVE NetInv'
  <2>1. UNCHANGED <<vm, procVars>> /\ (pc # "idle" => ~calm') BY <1>3, OthersEndCalm
  <2>2. ProbeInv' BY <2>1 DEF NetInv, ProbeInv, Unasked, procVars
  <2>3. PlaceInv' BY <2>1 DEF PlaceInv, procVars
  <2>4. OwnInv' BY <2>1 DEF OwnInv, procVars
  <2>5. ListInv' BY <2>1 DEF ListInv, procVars
  <2>6. QED BY <1>1, <2>2, <2>3, <2>4, <2>5 DEF NetInv
<1>4. CASE \/ \E r \in Rivals : RivalMoves(r)
           \/ \E i \in Ifaces : SomebodyConfigures(i)
           \/ \E n \in Allowed : NetworkChanges(n)
  BY <1>3, <1>4 DEF RivalMoves, SomebodyConfigures, NetworkChanges
<1>5. ASSUME pc' \in {"idle", "create", "interfaces", "memory"} PROVE NetInv'
  BY <1>1, <1>5 DEF NetInv, ListInv, ProbeInv, PlaceInv, OwnInv
<1>6. CASE \/ Start \/ CreateVM \/ AllTaken \/ WriteConfig \/ SetMemory \/ SetMemoryFails
           \/ CallFails \/ Destroy
  BY <1>5, <1>6 DEF Start, CreateVM, AllTaken, WriteConfig, SetMemory, SetMemoryFails, CallFails, Destroy,
     Exit, procVars
<1>7. CASE UNCHANGED vars
  BY <1>1, <1>7 DEF vars, hostVars, procVars, NetInv, ListInv, ProbeInv, PlaceInv, OwnInv,
     Unasked, Taken, Twins
<1>8. CASE Step /\ Select
  <2>1. UNCHANGED <<hostVars, opts, calm>> /\ pc = "select" BY <1>8 DEF Step, Select
  <2>2. calm => listed = hostonly BY <2>1 DEF NetInv, ListInv
  <2>3. CASE ~Unasked
    <3>1. AskedIP(opts).net \in Nets
      BY <1>2, <2>1, <2>3, AskedType DEF TypeInv, TypeOK, Accepted, Unasked, Addresses
    <3>2. /\ pick'.net = AskedIP(opts).net
          /\ pick'.iface = FirstOf(AddrsInSet(AskedIP(opts).net))
          /\ pc' = IF AddrsInSet(AskedIP(opts).net) = {} THEN "createIf" ELSE "configure"
      BY <1>8, <2>3 DEF Select, Unasked
    <3>3. calm => AddrsInSet(AskedIP(opts).net) = {i \in Ifaces : hostonly[i] = AskedIP(opts).net}
      BY <2>2, <3>1, AddrsWithNet
    <3>4. PlaceInv'
      BY <2>1, <3>2, <3>3, FirstOfType, SetIsPartOfInterfaces DEF PlaceInv, hostVars
    <3>5. ~Unasked' BY <2>1, <2>3 DEF Unasked
    <3>6. QED BY <1>1, <3>2, <3>4, <3>5 DEF NetInv, ListInv, ProbeInv, OwnInv
  <2>4. CASE Unasked
    <3>1. /\ pc' = "probe" /\ UNCHANGED listed
          /\ nets' = {k \in DOMAIN AllowedNets : ~NonReusableInterfaceExists(AllowedNets[k])}
      BY <1>8, <2>4 DEF Select, Unasked
    <3>2. \A k \in DOMAIN AllowedNets : AllowedNets[k] \in Nets
      BY NetNames DEF Allowed
    <3>3. calm => \A k \in DOMAIN AllowedNets : k \in nets' <=> AllowedNets[k] \notin outside
      BY <2>2, <3>1, <3>2, NonReusableIsOutside
    <3>4. ProbeInv' BY <2>1, <2>4, <3>1, <3>3 DEF ProbeInv, Unasked, Taken, hostVars
    <3>5. ListInv' BY <2>1, <2>2, <3>1 DEF ListInv, hostVars
    <3>6. QED BY <1>1, <3>1, <3>4, <3>5 DEF NetInv, PlaceInv, OwnInv
  <2>5. QED BY <2>3, <2>4
<1>9. ASSUME NEW net \in Allowed \ outside, NEW iface \in Ifaces \cup {0}, Step, Picked(net, iface),
             listed = hostonly,
             iface = 0 => AddrsInSet(net) = {},
             iface # 0 => AddrsInSet(net) = {iface} /\ ~IsInterfaceInUse(iface)
      PROVE  NetInv'
  <2>1. UNCHANGED <<hostVars, opts, calm>> BY <1>9 DEF Step, Picked
  <2>2. pick'.net = net /\ pick'.iface = iface /\ pc' = IF iface = 0 THEN "createIf" ELSE "configure"
    BY <1>9 DEF Picked
  <2>3. AddrsInSet(net) = {i \in Ifaces : hostonly[i] = net} BY <1>9, AddrsWithNet, NetNames
  <2>4. PlaceInv' BY <1>9, <2>1, <2>2, <2>3 DEF PlaceInv, hostVars
  <2>5. OwnInv' BY <1>9, <2>1, <2>2 DEF OwnInv, IsInterfaceInUse, hostVars
  <2>6. QED BY <1>1, <2>2, <2>4, <2>5 DEF NetInv, ListInv, ProbeInv
<1>10. ASSUME Step, pc = "probe", nets # {}, Pass, Taken(HeadNet) PROVE NetInv'
  <2>1. UNCHANGED <<hostVars, opts, pc, listed, calm>> /\ nets' = nets \ {Min(nets)}
    BY <1>10 DEF Pass, Step
  <2>2. \A k \in nets' : AllowedNets[k] \notin outside \/ ~calm
    BY <1>10, <2>1 DEF NetInv, ProbeInv
  <2>3. \A k \in DOMAIN AllowedNets \ nets' : Taken(AllowedNets[k]) \/ ~calm
    BY <1>10, <2>1 DEF NetInv, ProbeInv, HeadNet
  <2>4. \A net : Taken(net) => Taken(net)' BY <2>1 DEF Taken, Twins, hostVars
  <2>5. ProbeInv' BY <1>10, <2>1, <2>2, <2>3, <2>4 DEF NetInv, ProbeInv, Unasked, hostVars
  <2>6. ListInv' BY <1>10, <2>1 DEF NetInv, ListInv, hostVars
  <2>7. QED BY <1>1, <1>10, <2>1, <2>5, <2>6 DEF NetInv, PlaceInv, OwnInv
<1>11. CASE Step /\ (PickNew \/ Probe \/ PassTwins)
  <2>1. pc = "probe" /\ nets # {} BY <1>11 DEF PickNew, Probe, PassTwins
  <2>2. Min(nets) \in nets /\ HeadNet \in Allowed BY <1>2, <2>1, HeadNetType DEF TypeOK
  <2>3. CASE ~calm
    <3>1. ~calm' /\ UNCHANGED opts
      BY <1>11, <2>3 DEF Step, PickNew, Probe, PassTwins, Picked, Pass
    <3>2. ProbeInv' BY <2>1, <3>1 DEF NetInv, ProbeInv, Unasked
    <3>3. QED BY <1>1, <3>1, <3>2 DEF NetInv, ListInv, PlaceInv, OwnInv
  <2>4. CASE calm
    <3>1. HeadNet \in Allowed \ outside BY <2>1, <2>2, <2>4 DEF NetInv, ProbeInv, HeadNet
    <3>2. HeadNet \in Nets /\ listed = hostonly BY <2>1, <2>2, <2>4, NetNames DEF NetInv, ListInv
    <3>3. CASE PickNew BY <1>9, <1>11, <3>1, <3>2, <3>3 DEF PickNew
    <3>4. CASE Probe
      <4>1. PICK i \in Ifaces : /\ AddrsInSet(HeadNet) = {i}
                                /\ IF IsInterfaceInUse(i) THEN Pass ELSE Picked(HeadNet, i)
        BY <3>4 DEF Probe
      <4>2. i # 0 BY NoInterfaceIsZero
      <4>3. CASE IsInterfaceInUse(i)
        <5>1. hostonly[i] = HeadNet BY <3>2, <4>1 DEF AddrsInSet
        <5>2. Taken(HeadNet) BY <4>2, <4>3, <5>1 DEF IsInterfaceInUse, Taken
        <5>3. QED BY <1>10, <1>11, <2>1, <4>1, <4>3, <5>2
      <4>4. CASE ~IsInterfaceInUse(i) BY <1>9, <1>11, <3>1, <3>2, <4>1, <4>2, <4>4
      <4>5. QED BY <4>3, <4>4
    <3>5. CASE PassTwins
      <4>1. Taken(HeadNet) BY <3>2, <3>5, SeveralAreTwins DEF PassTwins, Taken
      <4>2. QED BY <1>10, <1>11, <2>1, <3>5, <4>1 DEF PassTwins
    <3>6. QED BY <1>11, <3>3, <3>4, <3>5
  <2>5. QED BY <2>3, <2>4, <1>2 DEF TypeOK
<1>12. CASE Step /\ (Configure \/ IPConfig)
  <2>1. /\ UNCHANGED <<outside, rivalNic, opts, pick, calm>> /\ pc' = "attach"
        /\ hostonly' = [hostonly EXCEPT ![pick.iface] = pick.net]
        /\ pc \in {"configure", "ipconfig"}
    BY <1>12 DEF Step, Configure, IPConfig
  <2>2. pick.iface \in Ifaces BY <1>2, <2>1 DEF Chosen
  <2>3. hostonly'[pick.iface] = pick.net BY <1>2, <2>1, <2>2 DEF TypeOK
  <2>4. QED BY <1>1, <2>1, <2>3 DEF NetInv, ListInv, ProbeInv, PlaceInv, OwnInv, Unasked
<1>13. CASE Step /\ CreateInterface
  <2>1. Min(Free) \in Ifaces /\ hostonly[Min(Free)] = Absent
    BY <1>13, FreeType DEF CreateInterface, Free
  <2>2. /\ UNCHANGED <<outside, rivalNic, opts, calm>> /\ pc = "createIf" /\ pc' = "ipconfig"
        /\ hostonly' = [hostonly EXCEPT ![Min(Free)] = Raw]
        /\ pick'.iface = Min(Free) /\ pick'.net = pick.net
    BY <1>2, <1>13 DEF Step, CreateInterface, TypeOK, NetworkConfigs
  <2>3. pick.net \in Nets BY <1>2, <2>2 DEF Chosen
  <2>4. PlaceInv' BY <1>2, <2>1, <2>2, <2>3, NetNames DEF NetInv, PlaceInv, TypeOK
  <2>5. \A r \in Rivals : rivalNic[r] # Min(Free)
    BY <2>1, NoInterfaceIsZero DEF NetInv, RivalInv
  <2>6. OwnInv' BY <2>2, <2>5 DEF NetInv, OwnInv, Unasked
  <2>7. QED BY <1>1, <2>2, <2>4, <2>6 DEF NetInv, ListInv, ProbeInv
<1>14. CASE Step /\ CreateAttemptFails
  <2>1. CASE Exit BY <1>5, <2>1 DEF Exit
  <2>2. CASE ~Exit
    <3>1. UNCHANGED <<outside, rivalNic, opts, pick, pc, calm>> /\ pc = "createIf"
      BY <1>14, <2>2 DEF Step, CreateAttemptFails
    <3>2. UNCHANGED hostonly \/ (Min(Free) \in Ifaces /\ hostonly' = [hostonly EXCEPT ![Min(Free)] = Raw])
      BY <1>14, FreeType DEF CreateAttemptFails
    <3>3. pick.net \in Nets BY <1>2, <3>1 DEF Chosen
    <3>4. PlaceInv' BY <1>2, <3>1, <3>2, <3>3, NetNames DEF NetInv, PlaceInv, TypeOK
    <3>5. QED BY <1>1, <3>1, <3>4 DEF NetInv, ListInv, ProbeInv, OwnInv, Unasked
  <2>3. QED BY <2>1, <2>2
<1>15. CASE Step /\ Attach
  <2>1. UNCHANGED <<hostVars, opts, pick, calm>> /\ pc = "attach" /\ pc' = "config"
    BY <1>15 DEF Step, Attach
  <2>2. vm'.nic = pick.iface BY <1>2, <1>15 DEF Attach, TypeOK, VMs
  <2>3. QED BY <1>1, <2>1, <2>2 DEF NetInv, ListInv, ProbeInv, PlaceInv, OwnInv, hostVars
<1>16. CASE Step /\ GetHostOnlyInterfaces
  <2>1. UNCHANGED hostVars /\ listed' = hostonly /\ pc' = "select"
    BY <1>16 DEF Step, GetHostOnlyInterfaces
  <2>2. QED BY <1>1, <2>1 DEF NetInv, ListInv, ProbeInv, PlaceInv, OwnInv, hostVars
<1>17. QED BY <1>4, <1>6, <1>7, <1>8, <1>11, <1>12, <1>13, <1>14, <1>15, <1>16 DEF Next, Step

NetInvs == TypeInv /\ NetInv

LEMMA NetInvsHold == Spec => []NetInvs
<1>1. TypeInv /\ NetInv /\ [Next]_vars => NetInv' BY NetNext
<1>2. Init => NetInv BY NetInit
<1>3. QED BY <1>1, <1>2, TypeInvHolds, PTL DEF Spec, NetInvs

NoNewTwinsStep == calm' /\ pc # "idle" => Twins(hostonly') \subseteq Twins(hostonly)

LEMMA NoNewTwinsSteps == NetInvs /\ [Next]_vars => [NoNewTwinsStep]_vars
<1> SUFFICES ASSUME NetInvs, Next, calm', pc # "idle" PROVE Twins(hostonly') \subseteq Twins(hostonly)
  BY DEF NoNewTwinsStep
<1>1. /\ hostonly \in [Ifaces -> Nets \cup {Absent, Raw}] /\ Chosen /\ PlaceInv
  BY DEF NetInvs, TypeInv, TypeOK, NetInv
<1>2. ASSUME hostonly' = hostonly PROVE Twins(hostonly') \subseteq Twins(hostonly)
  BY <1>2
<1>3. ASSUME NEW i \in Ifaces, hostonly' = [hostonly EXCEPT ![i] = Raw]
      PROVE  Twins(hostonly') \subseteq Twins(hostonly)
  BY <1>1, <1>3, NetNames DEF Twins
<1>4. CASE Step /\ Configure
  <2>1. calm /\ pc = "configure" /\ hostonly' = [hostonly EXCEPT ![pick.iface] = pick.net]
    BY <1>4 DEF Step, Configure
  <2>2. hostonly[pick.iface] = pick.net BY <1>1, <2>1 DEF PlaceInv
  <2>3. hostonly' = hostonly BY <1>1, <2>1, <2>2
  <2>4. QED BY <1>2, <2>3
<1>5. CASE Step /\ IPConfig
  <2>1. calm /\ pc = "ipconfig" /\ hostonly' = [hostonly EXCEPT ![pick.iface] = pick.net]
    BY <1>5 DEF Step, IPConfig
  <2>2. \A i \in Ifaces : hostonly[i] # pick.net BY <1>1, <2>1 DEF PlaceInv
  <2>3. pick.iface \in Ifaces BY <1>1, <2>1 DEF Chosen
  <2>4. QED BY <1>1, <2>1, <2>2, <2>3 DEF Twins
<1>6. CASE Step /\ (CreateInterface \/ CreateAttemptFails)
  BY <1>2, <1>3, <1>6, FreeType DEF CreateInterface, CreateAttemptFails
<1>7. CASE Step /\ ~Configure /\ ~IPConfig /\ ~CreateInterface /\ ~CreateAttemptFails
  BY <1>2, <1>7 DEF Step, CreateVM, GetHostOnlyInterfaces, Select, PickNew, Probe, PassTwins, Picked,
     Pass, AllTaken, Attach, WriteConfig, SetMemory, SetMemoryFails, CallFails, Destroy, hostVars
<1>8. CASE \/ Start
           \/ \E r \in Rivals : RivalMoves(r)
           \/ \E i \in Ifaces : SomebodyConfigures(i)
           \/ \E n \in Allowed : NetworkChanges(n)
  BY <1>8, OthersEndCalm DEF Start, RivalMoves, SomebodyConfigures, NetworkChanges
<1>9. QED BY <1>4, <1>5, <1>6, <1>7, <1>8 DEF Next

\* An import never makes a second interface with the address of another one,
\* whatever interfaces earlier imports, failed or not, have left behind.
THEOREM TwinsCorrect == Spec => NoNewTwins
<1>1. [NoNewTwinsStep]_vars
        <=> [calm' /\ pc # "idle" => Twins(hostonly') \subseteq Twins(hostonly)]_vars
  BY DEF NoNewTwinsStep
<1>2. QED BY <1>1, NoNewTwinsSteps, NetInvsHold, PTL DEF Spec, NoNewTwins

OwnNetworkStep ==
  pc = "attach" /\ vm'.nic # vm.nic /\ vm'.auto /\ calm
    => /\ \A r \in Rivals : rivalNic[r] # vm'.nic
       /\ hostonly[vm'.nic] \in Allowed \ outside

LEMMA OwnNetworkSteps == NetInvs /\ [Next]_vars => [OwnNetworkStep]_vars
<1> SUFFICES ASSUME NetInvs, Next, pc = "attach", vm'.nic # vm.nic, vm'.auto, calm
             PROVE  /\ \A r \in Rivals : rivalNic[r] # vm'.nic
                    /\ hostonly[vm'.nic] \in Allowed \ outside
  BY DEF OwnNetworkStep
<1>1. Attach
  BY DEF Next, Step, Start, CreateVM, GetHostOnlyInterfaces, Select, PickNew, Probe, PassTwins, AllTaken, Configure,
     CreateInterface, CreateAttemptFails, IPConfig, WriteConfig, SetMemory, SetMemoryFails, CallFails,
     Destroy, RivalMoves, SomebodyConfigures, NetworkChanges, Others
<1>2. vm'.nic = pick.iface /\ vm'.auto = Unasked
  BY <1>1 DEF Attach, NetInvs, TypeInv, TypeOK, VMs, Unasked
<1>3. PlaceInv /\ OwnInv BY DEF NetInvs, NetInv
<1>4. QED BY <1>2, <1>3 DEF PlaceInv, OwnInv

\* A VM that asked for no network is attached to none that another VM is on
\* or that is the host's own.
THEOREM OwnNetworkCorrect == Spec => OwnNetwork
<1>1. [OwnNetworkStep]_vars
        <=> [pc = "attach" /\ vm'.nic # vm.nic /\ vm'.auto /\ calm
               => /\ \A r \in Rivals : rivalNic[r] # vm'.nic
                  /\ hostonly[vm'.nic] \in Allowed \ outside]_vars
  BY DEF OwnNetworkStep
<1>2. QED BY <1>1, OwnNetworkSteps, NetInvsHold, PTL DEF Spec, OwnNetwork

ConfigStep == vm'.state = "imported" /\ vm.state = "created" /\ calm => hostonly[vm.nic] = vm'.ip.net

LEMMA ConfigSteps == NetInvs /\ [Next]_vars => [ConfigStep]_vars
<1> SUFFICES ASSUME NetInvs, Next, vm'.state = "imported", vm.state = "created", calm
             PROVE  hostonly[vm.nic] = vm'.ip.net
  BY DEF ConfigStep
<1>1. vm \in VMs BY DEF NetInvs, TypeInv, TypeOK
<1>2. CASE WriteConfig
  <2>1. pc = "config" /\ vm'.ip = pick.ip BY <1>1, <1>2 DEF WriteConfig, VMs
  <2>2. pick.ip.net = pick.net BY <2>1 DEF NetInvs, TypeInv, Chosen
  <2>3. hostonly[vm.nic] = pick.net BY <2>1 DEF NetInvs, NetInv, PlaceInv
  <2>4. QED BY <2>1, <2>2, <2>3
<1>3. CASE ~WriteConfig
  <2>1. CASE Attach BY <1>1, <2>1 DEF Attach, VMs
  <2>2. CASE SetMemory BY <1>1, <2>2 DEF SetMemory, VMs
  <2>3. CASE CreateVM
    <3> DEFINE made  == [NoVM EXCEPT !.state = "created"]
               named == [made EXCEPT !.services = Services(opts.words)]
    <3>1. made \in VMs /\ made.state = "created" BY NothingType DEF VMs
    <3>2. named \in VMs /\ named.state = "created"
      <4> HIDE DEF made
      <4>1. QED BY <3>1, ServicesType DEF VMs
    <3>3. [named EXCEPT !.custom = opts.ova].state = "created"
      <4> HIDE DEF named
      <4>1. QED BY <3>2 DEF VMs
    <3>4. QED BY <2>3, <3>3 DEF CreateVM
  <2>4. CASE Destroy BY <2>4 DEF Destroy, NoVM
  <2>5. CASE ~Attach /\ ~SetMemory /\ ~CreateVM /\ ~Destroy
    <3>1. vm' = vm
      BY <1>3, <2>5 DEF Next, Step, Start, GetHostOnlyInterfaces, Select, PickNew, Probe, PassTwins, Picked,
         Pass, AllTaken, Configure, CreateInterface, CreateAttemptFails, IPConfig, SetMemoryFails, CallFails,
         RivalMoves, SomebodyConfigures, NetworkChanges, Others
    <3>2. QED BY <3>1
  <2>6. QED BY <2>1, <2>2, <2>3, <2>4, <2>5
<1>4. QED BY <1>2, <1>3

\* The address that vm_config hands to every later command is one of the
\* network the VM hangs on.
THEOREM ConfigCorrect == Spec => ConfigInNetwork
<1>1. [ConfigStep]_vars
        <=> [vm'.state = "imported" /\ vm.state = "created" /\ calm => hostonly[vm.nic] = vm'.ip.net]_vars
  BY DEF ConfigStep
<1>2. QED BY <1>1, ConfigSteps, NetInvsHold, PTL DEF Spec, ConfigInNetwork

RefusedStep ==
  pc = "probe" /\ nets = {} /\ calm
    => \A n \in Allowed : \/ n \in outside
                          \/ \E r \in Rivals : rivalNic[r] # 0 /\ hostonly[rivalNic[r]] = n
                          \/ \E p \in Twins(hostonly) : hostonly[p[1]] = n

LEMMA RefusedSteps == NetInvs => RefusedStep
<1> SUFFICES ASSUME NetInvs, pc = "probe", nets = {}, calm, NEW n \in Allowed PROVE Taken(n)
  BY DEF RefusedStep, Taken
<1>1. PICK k \in DOMAIN AllowedNets : n = AllowedNets[k] BY DEF Allowed
<1>2. QED BY <1>1 DEF NetInvs, NetInv, ProbeInv

\* The picker gives up only when every allowed network is somebody else's:
\* what imports and destroyed VMs have left behind takes none.
THEOREM RefusalCorrect == Spec => RefusedWhenTaken
<1>1. [RefusedStep]_vars
        <=> [pc = "probe" /\ nets = {} /\ calm
               => \A n \in Allowed : \/ n \in outside
                                     \/ \E r \in Rivals : rivalNic[r] # 0 /\ hostonly[rivalNic[r]] = n
                                     \/ \E p \in Twins(hostonly) : hostonly[p[1]] = n]_vars
  BY DEF RefusedStep
<1>2. RefusedStep => [RefusedStep]_vars OBVIOUS
<1>3. QED BY <1>1, <1>2, RefusedSteps, NetInvsHold, PTL DEF RefusedWhenTaken
=============================================================================
