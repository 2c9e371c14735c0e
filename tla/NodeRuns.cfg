SPECIFICATION RunsSpec
CONSTANTS
  Run = {r}
  MaxCalls = 2
  MaxConns = 2
INVARIANTS
  RunsInv
  RunAsApproved
PROPERTIES
  RequestAnswered
CHECK_DEADLOCK FALSE
