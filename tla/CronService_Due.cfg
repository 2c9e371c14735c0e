SPECIFICATION CronSpec
CONSTANTS
  Jobs = {1}
  Kind <- MCKindOne
  Period = 2
  AtTime = 2
  Backoff <- MCBackoffLong
  MaxAttempts = 1
  Stuck = 1
  MaxNow = 3
  MaxConcurrentRuns = 1
  MaxMissedJobsPerRestart = 1
  StaggerUnits = 1
  MaxReloads = 0
  MaxOps = 2
PROPERTIES
  BackoffKept
  DueDealtWith
CHECK_DEADLOCK FALSE
