---------------------------- MODULE MCModelPool ----------------------------
(* An instance of ModelPool for TLC: callers that outnumber the slots. *)
EXTENDS ModelPool

CONSTANTS a, b, c, d

MCCallers == {a, b, c, d}

=============================================================================
