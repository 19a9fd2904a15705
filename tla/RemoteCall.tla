----------------------------- MODULE RemoteCall -----------------------------
(***************************************************************************)
(* What a command may rely on when it asks the guest something, without the *)
(* connections and goroutines it takes: the guest acts on a request once and *)
(* before the call is over, the result is its answer, and an error of the    *)
(* connection says that it has not been asked, so that asking again is safe. *)
(***************************************************************************)
CONSTANT Ops  \* requests: "status", "replace"

VARIABLES op,        \* the request
          healthy,   \* what a status is about
          replaced,  \* the guest has its new secrets
          answer,    \* what the guest did with the request
          result     \* of the call

callVars == <<op, healthy, replaced, answer, result>>

Init == /\ op \in Ops
        /\ healthy \in BOOLEAN
        /\ replaced = FALSE
        /\ answer = "none"
        /\ result = "none"

\* The guest lives on while it is asked.
Changes == /\ result = "none"
           /\ healthy' = ~healthy
           /\ UNCHANGED <<op, replaced, answer, result>>

Reports == /\ op = "status"
           /\ answer' = (IF healthy THEN "Running" ELSE "Unprovisioned")
           /\ UNCHANGED replaced

Replaces == /\ op = "replace"
            /\ answer' = "done"
            /\ replaced' = TRUE

\* An answer to a status that nobody can read.
Garbles == /\ op = "status"
           /\ answer' = "garbled"
           /\ UNCHANGED replaced

Declines == answer' = "failed" /\ UNCHANGED replaced

Serves == /\ result = "none"
          /\ answer = "none"
          /\ Reports \/ Garbles \/ Replaces \/ Declines
          /\ UNCHANGED <<op, healthy, result>>

\* What the caller makes of each answer.
Meaning(a) == CASE a = "done"   -> {"ok"}
                [] a \in {"failed", "garbled"} -> {"err"}
                [] a = "none"   -> {"tunnel", "unreachable"}
                [] OTHER        -> {a}

Returns == /\ result = "none"
           /\ result' \in Meaning(answer)
           /\ UNCHANGED <<op, healthy, replaced, answer>>

Next == Changes \/ Serves \/ Returns

Spec == Init /\ [][Next]_callVars
=============================================================================
