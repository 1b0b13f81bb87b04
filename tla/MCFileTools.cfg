CONSTANTS
  a = a
  b = b
  Match = Match
  Ahead = Ahead
  Behind = Behind
  Escape = Escape
  Dollar = Dollar
  Nul = Nul
  NoAnchor = NoAnchor
  c1 = c1
  c2 = c2
  Tokens <- MCTokens
  Meet <- MCMeet
  Calls <- MCCalls
  Ops <- MCOps
  Files <- MCFiles
  MaxStarts = 2
  MaxStops = 1
SPECIFICATION FairSpec
INVARIANTS
  LastWriterIsWhole
PROPERTIES
  
  CallsEnd
CHECK_DEADLOCK FALSE
