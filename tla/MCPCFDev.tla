------------------------------ MODULE MCPCFDev ------------------------------
(* Values of the constants for the model checker. *)
EXTENDS PCFDevProps, TLC

Cmd(o) == [op |-> o, ova |-> FALSE, services |-> None, mode |-> "full"]
Start(o, s, m) == [op |-> "start", ova |-> o, services |-> s, mode |-> m]

\* Every command; start with each of its options once.
EachCmd == {Cmd("stop"), Cmd("suspend"), Cmd("resume"), Cmd("destroy"), Cmd("status"),
            Start(FALSE, None, "full"), Start(FALSE, "scs", "full"), Start(TRUE, None, "full"),
            Start(FALSE, None, "noProvision"), Start(FALSE, None, "provisionOnly")}

EachAction == EachCmd \ {Start(FALSE, "scs", "full"), Start(TRUE, None, "full")}

OneStart == {Start(FALSE, None, "full")}

\* Two terminals, no destroy and no custom OVA.
TwoTerminals == {Cmd("stop"), Cmd("suspend"), Cmd("resume"), Start(FALSE, None, "full"),
                 Start(FALSE, None, "provisionOnly")}

\* Keys and addresses are only compared with one another.
Symmetry == Permutations(Keys) \cup Permutations(Addrs)
=============================================================================
