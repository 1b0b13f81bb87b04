CONSTANTS
  MaxTasks = 2
  MaxVersion = 2
  MaxEvents = 1
  MaxReplies = 0
  MaxClock = 2
  MaxAcks = 0
  PageSize = 1
  MaxFeed = 1
  MaxTyped = 0
  MaxDrops = 1
  MaxFailures = 0
SPECIFICATION FairSpec
INVARIANTS
  TypeOK
  NoTaskTwice
  PagesSkipNothing
  OnlyTiesAreMissed
CHECK_DEADLOCK FALSE
