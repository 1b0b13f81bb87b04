--------------------------- MODULE MCAgentService ---------------------------
(* An instance of AgentService for TLC. *)
EXTENDS AgentService, TLC

CONSTANTS call_1, call_2, consume_loop

MCToolCalls == {call_1, call_2}
Symmetric   == Permutations(MCToolCalls)

=============================================================================
