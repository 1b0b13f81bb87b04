CONSTANTS
  engineer = engineer
  researcher = researcher
  Workers <- MCWorkers
  Coding <- MCCoding
  Attempts = 2
  MaxTurns = 2
  MaxRequests = 2
  MaxCloses = 0
  MaxCrashes = 0
SPECIFICATION Spec
INVARIANT LogsAreFresh
CHECK_DEADLOCK FALSE
