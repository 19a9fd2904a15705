--------------------------- MODULE PCFDevRecovery ---------------------------
(***************************************************************************)
(* A user who wants PCF Dev up and does what the plugin says.  `start`, and *)
(* `status` after a start that reports success, again and again, because a  *)
(* VM can still be lost, paused or go down late.  `destroy` only on the     *)
(* message of an Invalid VM (invalid.go:53) or of a VM of an earlier release *)
(* (errors.go:22); on the message of an Unprovisioned VM one of the two  *)
(* commands it offers (unprovisioned.go:134).  Every other error says what  *)
(* failed and no more, and the user starts again.  Faults happen, but only  *)
(* MaxFaults of them.                                                       *)
(***************************************************************************)
EXTENDS PCFDevProps

CONSTANTS MaxFaults,  \* bound on the faults of a behaviour
          Remedy      \* "destroy" or "stop": the choice for an Unprovisioned VM

ASSUME RecoveryAssumption == MaxFaults \in Nat /\ Remedy \in {"destroy", "stop"}

VARIABLES todo,    \* the command the user enters next
          faults   \* faults so far

userVars == <<todo, faults>>

RecoveryInit == Init /\ todo = "start" /\ faults = 0

Ended(p) == pc[p] # "idle" /\ pc'[p] = "idle"

\* The methods of an object say what is wrong with it.
Says(p, o) == pc[p] \in {"dispatch", "launch", "provision"} /\ obj[p] = o

SaysOldVM(p) == /\ pc[p] = "getName"
                /\ \A m, n \in Found : m = n
                /\ Found \cap OldNames # {}

\* What the user enters after the command of p has ended by itself.
Advice(p) ==
  CASE todo = "destroy" -> IF result'[p] = "ok" THEN "start" ELSE "destroy"
    [] todo # "destroy" /\ (Says(p, "Invalid") \/ SaysOldVM(p)) -> "destroy"
    [] todo \in {"start", "status"} /\ Says(p, "Unprovisioned") -> Remedy
    [] todo = "start" /\ result'[p] = "ok" -> "status"
    [] todo = "status" /\ Says(p, "Running") -> "status"
    [] OTHER -> "start"

\* A command that was killed, or whose call failed, tells nothing of the VM.
Retry == IF todo = "destroy" THEN "destroy" ELSE "start"

Listen(next) == todo' = IF \E p \in Procs : Ended(p) THEN next ELSE todo

Enter(p) == /\ Invoke(p)
            /\ req'[p].op = todo
            /\ UNCHANGED userVars

\* A poll that runs out although the VM is on its way is a fault of the guest.
OnItsWay(n) == (n \in acpi /\ power[n] = "running") \/ power[n] = "saving"

Proper(p) == /\ Step(p)
             /\ ~(TimesOut(p) /\ OnItsWay(name[p]))
             /\ Listen(Advice(p))
             /\ UNCHANGED faults

Faulty == /\ faults < MaxFaults
          /\ Fault \/ \E p \in Procs : TimesOut(p) /\ OnItsWay(name[p])
          /\ faults' = faults + 1
          /\ Listen(Retry)

HostMoves == /\ \E n \in Names : GuestEvent(n)
             /\ UNCHANGED <<procVars, userVars>>

RecoveryNext == (\E p \in Procs : Enter(p) \/ Proper(p)) \/ HostMoves \/ Faulty

recoveryVars == <<vars, userVars>>

\* The user does not give up, every process runs, and a guest that has been
\* asked to shut down does: within the time limit, unless that is a fault.
RecoverySpec == /\ RecoveryInit
                /\ [][RecoveryNext]_recoveryVars
                /\ \A p \in Procs : WF_recoveryVars(Enter(p) \/ Proper(p))
                /\ WF_recoveryVars(HostMoves)

(* However the first attempts failed, and wherever a process was killed, a   *)
(* VM lost or paused or a shutdown late, following the plugin's advice ends  *)
(* with PCF Dev running, provisioned, and found so by `status` from then on. *)
AdviceRecovers ==
  <>[](todo = "status" /\ power[Default] = "running" /\ Default \in healthy)
=============================================================================
