SPECIFICATION CronSpec
CONSTANTS
  Jobs = {1, 2}
  Kind <- MCKind
  Period = 2
  AtTime = 2
  Backoff <- MCBackoff
  MaxAttempts = 1
  Stuck = 1
  MaxNow = 3
  MaxConcurrentRuns = 1
  MaxMissedJobsPerRestart = 1
  StaggerUnits = 1
  MaxReloads = 1
  MaxOps = 1
INVARIANTS
  CronInv
PROPERTIES
  DueNotSkipped
CHECK_DEADLOCK FALSE
