SPECIFICATION DeliverySpec
CONSTANTS
  Message <- MCMessage
  Payloads <- MCPayloads
  BestEffort = {2}
  OnError = {2}
  LeftOver = {1}
  LeftRetries = 1
  MaxRetries = 2
  MaxStarts = 2
INVARIANTS
  DeliveryInv
  NotLost
  NotReplayed
PROPERTIES
  RetriesCounted
CHECK_DEADLOCK FALSE
