CONSTANTS
  call_1 = call_1
  call_2 = call_2
  consume_loop = consume_loop
  ToolCalls <- MCToolCalls
  Handler = consume_loop
  LastRole = 2
  MaxDepth = 2
  MaxDirectReports = 2
  MaxTotalAgents = 4
  MaxSerial = 3
  MaxCrashes = 0
SYMMETRY Symmetric
SPECIFICATION Spec
INVARIANT ReportsAreListed
CHECK_DEADLOCK FALSE
