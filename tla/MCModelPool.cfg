CONSTANTS
  a = a
  b = b
  c = c
  d = d
  Callers <- MCCallers
  KeyCount = 2
  Slots = 2
  MinInterval = 2
  MaxTime = 4
SPECIFICATION FairSpec
INVARIANTS
  SlotsAreConserved
  WindowsAreSpaced
PROPERTY ReservedCallsRun
CHECK_DEADLOCK FALSE
