SPECIFICATION FairSpec
CONSTANTS
  a = a
  b = b
  c = c
  Message <- MCTwoMessages
  Target <- MCTarget
  Setting <- MCSettings
  QueueId <- MCQueueId
  MaxHandlers = 1
  MaxFailures = 1
  MaxClears = 1
INVARIANTS
  FollowupInv
  HandledOnce
  HandledInOrder
  Accounted
PROPERTIES
  ClearedNotRun
  QueuedLeaves
CHECK_DEADLOCK FALSE
