SPECIFICATION RunsSpec
CONSTANTS
  Run = {r}
  MaxCalls = 1
  MaxConns = 1
INVARIANTS
  FallbackDecides
CHECK_DEADLOCK FALSE
