--------------------------- MODULE MCTaskService ---------------------------
(* An instance of TaskService for TLC: one manager, one worker. *)
EXTENDS TaskService

CONSTANTS manager, worker, tool_call, consume_loop

MCWorkers   == {worker}
MCManagers  == {manager}
MCManagerOf == [w \in MCWorkers |-> manager]
MCToolCalls == {tool_call}

SomeStatuses == {"in_progress", "completed", "failed"}

=============================================================================
