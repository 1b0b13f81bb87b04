CONSTANTS
  agents_service = agents_service
  ceo = ceo
  worker = worker
  Services <- MCServices
  Agents <- MCAgents
  AgentService = agents_service
  Executive = ceo
  MaxEvents = 3
  MaxCrashes = 2
SPECIFICATION FairSpec
INVARIANTS
  EventIdsIncrease
  MailboxHoldsPendingRowsInOrder
  NoStrandedRow
  HandledAfterEarlierConsumed
  RepeatedOnlyByCrashes
PROPERTIES ImplementsPromise AcceptedIsConsumed
CHECK_DEADLOCK FALSE
