CONSTANTS
  MaxTasks = 0
  MaxVersion = 1
  MaxEvents = 2
  MaxReplies = 2
  MaxClock = 1
  MaxAcks = 1
  PageSize = 1
  MaxFeed = 2
  MaxTyped = 2
  MaxDrops = 1
  MaxFailures = 1
SPECIFICATION FairSpec
INVARIANTS
  NoMessageTwice
  FeedIsUnbroken
  SentOnceInOrder
  OrgIsTold
PROPERTY OrgCatchesUp
CHECK_DEADLOCK FALSE
