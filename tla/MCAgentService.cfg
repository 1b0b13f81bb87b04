CONSTANTS
  call_1 = call_1
  call_2 = call_2
  consume_loop = consume_loop
  ToolCalls <- MCToolCalls
  Handler = consume_loop
  LastRole = 2
  MaxDepth = 2
  MaxDirectReports = 1
  MaxTotalAgents = 3
  MaxSerial = 2
  MaxCrashes = 1
SYMMETRY Symmetric
SPECIFICATION Spec
INVARIANTS
  SizeCapHolds
  IdsAreNeverReused
  OneLoopPerAgent
  ActiveAgentsRun
  ListsAreBounded
CHECK_DEADLOCK FALSE
