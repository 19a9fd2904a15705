---------------------------- MODULE VMLifeCycle ----------------------------
(***************************************************************************)
(* What the user of `cf dev` may rely on, without the calls it is made of:  *)
(* the life of a PCF Dev VM from its import to its destruction.  Each step   *)
(* here is one call, or none, of the commands in PCFDevCLI, which implements *)
(* this specification as long as one command runs at a time.                *)
(***************************************************************************)
CONSTANTS Names,        \* names a PCF Dev VM can have
          ServiceSets,  \* service lists
          None          \* no services chosen yet

VARIABLES state,       \* of each VM
          services,    \* what each VM has been told to run
          provisioned  \* VMs that run it

lifeVars == <<state, services, provisioned>>

States == {"none", "importing", "stopped", "running", "paused", "suspended"}
Up     == {"running", "paused", "suspended"}

TypeOK == /\ state \in [Names -> States]
          /\ services \in [Names -> ServiceSets \cup {None}]
          /\ provisioned \in SUBSET Names

\* There may be a stopped VM of an earlier release.
Init == /\ state \in [Names -> {"none", "stopped"}]
        /\ \A m, n \in Names : state[m] # "none" /\ state[n] # "none" => m = n
        /\ services = [n \in Names |-> None]
        /\ provisioned = {}

Moves(n, from, to) == /\ state[n] \in from
                      /\ state' = [state EXCEPT ![n] = to]

\* Only where there is no VM, of any name.
Create(n) == /\ \A m \in Names : state[m] = "none"
             /\ Moves(n, {"none"}, "importing")
             /\ UNCHANGED <<services, provisioned>>

Complete(n) == Moves(n, {"importing"}, "stopped") /\ UNCHANGED <<services, provisioned>>

\* A VM that boots has to be provisioned, whatever it was before.
Boot(n) == /\ Moves(n, {"stopped"}, "running")
           /\ provisioned' = provisioned \ {n}
           /\ UNCHANGED services

GoDown(n) == /\ Moves(n, Up, "stopped")
             /\ provisioned' = provisioned \ {n}
             /\ UNCHANGED services

\* A VM that is lost while its services are written down may not have them later.
Lose(n) == /\ Moves(n, {"running"}, "stopped")
           /\ provisioned' = provisioned \ {n}
           /\ services' = [services EXCEPT ![n] = None]

Pause(n)   == Moves(n, {"running"}, "paused") /\ UNCHANGED <<services, provisioned>>
Unpause(n) == Moves(n, {"paused"}, "running") /\ UNCHANGED <<services, provisioned>>

\* Only what works is suspended, and comes back as it was.
Suspend(n) == /\ n \in provisioned
              /\ Moves(n, {"running"}, "suspended")
              /\ UNCHANGED <<services, provisioned>>
Restore(n) == Moves(n, {"suspended"}, "running") /\ UNCHANGED <<services, provisioned>>

\* Once in the life of a VM that is not lost meanwhile.
ChooseServices(n) == /\ state[n] = "running"
                     /\ services[n] = None
                     /\ \E s \in ServiceSets : services' = [services EXCEPT ![n] = s]
                     /\ UNCHANGED <<state, provisioned>>

Provision(n) == /\ state[n] = "running"
                /\ services[n] # None
                /\ provisioned' = provisioned \cup {n}
                /\ UNCHANGED <<state, services>>

Unprovision(n) == /\ state[n] = "running"
                  /\ provisioned' = provisioned \ {n}
                  /\ UNCHANGED <<state, services>>

Destroy(n) == /\ Moves(n, States \ {"none"}, "none")
              /\ services' = [services EXCEPT ![n] = None]
              /\ provisioned' = provisioned \ {n}

Next == \E n \in Names : \/ Create(n) \/ Complete(n) \/ Boot(n) \/ GoDown(n) \/ Lose(n)
                         \/ Pause(n) \/ Unpause(n) \/ Suspend(n) \/ Restore(n) \/ ChooseServices(n)
                         \/ Provision(n) \/ Unprovision(n) \/ Destroy(n)

Spec == Init /\ [][Next]_lifeVars
=============================================================================
