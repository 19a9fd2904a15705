----------------------------- MODULE MCScroller -----------------------------
(* Values of the constants for the model checker. *)
EXTENDS Scroller

\* A long line, an empty one and a short one.
ShortText == <<5, 0, 3>>
=============================================================================
