CONSTANTS
  MaxTasks = 0
  MaxVersion = 1
  MaxEvents = 2
  MaxReplies = 2
  MaxClock = 1
  MaxAcks = 1
  PageSize = 1
  MaxFeed = 2
  MaxTyped = 1
  MaxDrops = 1
  MaxFailures = 0
SPECIFICATION Spec
INVARIANT ConversationIsComplete
CHECK_DEADLOCK FALSE
