CONSTANTS
  executive = executive
  head = head
  manager = manager
  worker = worker
  Principal = principal
  Auditor = auditor
  Agents <- MCAgents
  RoleOf <- MCRoleOf
  Boss <- MCBoss
  MaxCalls = 2
  MaxEvents = 2
  MaxFailures = 1
  MaxStops = 1
  MaxCrashes = 1
SPECIFICATION FairSpec
INVARIANTS
  NoTurnVanishes
  NothingAfterStop
  MemoryFollowsMailbox
PROPERTIES
  ImplementsPromise
  MailboxesDrain
CHECK_DEADLOCK FALSE
