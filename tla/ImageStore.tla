----------------------------- MODULE ImageStore -----------------------------
(***************************************************************************)
(* What a user may rely on about the image in OVADir, without servers,      *)
(* attempts, ranges and partial files: it changes hands in one step, an     *)
(* image that is the expected one stays, and success means that it is there. *)
(* Only an import shows an unfinished image, and only where none was good.   *)
(***************************************************************************)
CONSTANT Procs  \* processes

VARIABLES image,    \* in OVADir: "none", "broken" or "expected"
          command,  \* what each process has been started for, or "none"
          result    \* how its last command ended

storeVars == <<image, command, result>>

Init == /\ image = "none"
        /\ command = [p \in Procs |-> "none"]
        /\ result = [p \in Procs |-> "none"]

Starts(p) == /\ command[p] = "none"
             /\ \E c \in {"download", "import"} : command' = [command EXCEPT ![p] = c]
             /\ result' = [result EXCEPT ![p] = "none"]
             /\ UNCHANGED image

Ends(p, r) == /\ command[p] # "none"
              /\ command' = [command EXCEPT ![p] = "none"]
              /\ result' = [result EXCEPT ![p] = r]

\* It was there before, or a copy is complete.
IsThere(p) == image = "expected" /\ Ends(p, "ok") /\ UNCHANGED image

\* A download replaces the image as a whole.
Replaces(p) == /\ command[p] = "download"
               /\ image' = "expected"
               /\ Ends(p, "ok")

\* A copy goes over what was there, piece by piece.
Copies(p) == /\ command[p] = "import"
             /\ image # "expected"
             /\ image' \in {"broken", "expected"}
             /\ UNCHANGED <<command, result>>

\* Whatever fails, the image is as it was.
Fails(p) == /\ \E r \in {"err", "refused", "killed"} : Ends(p, r)
            /\ UNCHANGED image

Next == \E p \in Procs : Starts(p) \/ IsThere(p) \/ Replaces(p) \/ Copies(p) \/ Fails(p)

Spec == Init /\ [][Next]_storeVars
=============================================================================
