----------------------------- MODULE MCAgentLoop ----------------------------
(* An instance of AgentLoop for TLC: the ladder of one department. *)
EXTENDS AgentLoop

CONSTANTS executive, head, manager, worker

MCAgents == {executive, head, manager, worker}

MCRoleOf == [a \in MCAgents |-> CASE a = executive -> "executive"
                                  [] a = head      -> "head"
                                  [] a = manager   -> "manager"
                                  [] a = worker    -> "worker"]

MCBoss == [a \in MCAgents |-> CASE a = executive -> Principal
                                [] a = head      -> executive
                                [] a = manager   -> head
                                [] a = worker    -> manager]

=============================================================================
