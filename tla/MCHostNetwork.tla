--------------------------- MODULE MCHostNetwork ---------------------------
(* Values of the constants for the model checker. *)
EXTENDS HostNetwork

TwoNets == <<"net11", "net22">>

\* Each way to choose the network, the memory and the services.
EachOption ==
  {Plain,
   [Plain EXCEPT !.ip = [net |-> "other", last |-> 12]],
   [Plain EXCEPT !.domain = "net22"],
   [Plain EXCEPT !.ip = [net |-> "net11", last |-> 12], !.domain = "net22", !.memory = 3072],
   [Plain EXCEPT !.memory = -1, !.words = {"scs"}],
   [Plain EXCEPT !.memory = 3071, !.ova = TRUE],
   [Plain EXCEPT !.words = {"none", "all"}]}
=============================================================================
