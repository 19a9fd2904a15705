----------------------------- MODULE MCRecovery -----------------------------
(* Values of the constants for the model checker. *)
EXTENDS PCFDevRecovery

Cmd(o) == [op |-> o, ova |-> FALSE, services |-> None, mode |-> "full"]
UserCmds == {Cmd("start"), Cmd("status"), Cmd("stop"), Cmd("destroy")}
=============================================================================
