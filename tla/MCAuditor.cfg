CONSTANTS
  engineer = engineer
  researcher = researcher
  Workers <- MCWorkers
  Coding <- MCCoding
  Attempts = 2
  MaxTurns = 2
  MaxRequests = 2
  MaxCloses = 1
  MaxCrashes = 1
SPECIFICATION FairSpec
INVARIANTS
  WorkersHaveTheirSandbox
  ReviewedBeforeAcknowledged
PROPERTY ReviewsEnd
CHECK_DEADLOCK FALSE
