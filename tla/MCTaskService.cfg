CONSTANTS
  manager = manager
  worker = worker
  tool_call = tool_call
  consume_loop = consume_loop
  Workers <- MCWorkers
  Managers <- MCManagers
  ManagerOf <- MCManagerOf
  ToolCalls <- MCToolCalls
  Consumer = consume_loop
  Requested <- SomeStatuses
  MaxTasks = 2
  MaxCalls = 3
  MaxTurns = 1
  MaxPatches = 1
  MaxCrashes = 1
SPECIFICATION FairSpec
INVARIANTS
  OnlyManagerCompletes
  UncontestedTasksAreArchivedOnce
  TurnsAreKeptUnlessExposed
PROPERTIES
  UncontestedTasksFollowTheTable
  ClosedIsArchived
CHECK_DEADLOCK FALSE
