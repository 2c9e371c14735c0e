SPECIFICATION LanesFairSpec
CONSTANTS
  main = main
  cron = cron
  nested = nested
  NoRun = NoRun
  s1 = s1
  s2 = s2
  a1 = a1
  job = job
  sent = sent
  Session <- MCSession
  Run <- MCRun
  SessionOf <- MCSessionOf
  CronRun <- MCCronRun
  Callee <- MCCallee
  Lane <- MCLane
  Command <- MCCommand
  Limit <- MCLimit
  MaxGeneration = 1
INVARIANTS
  LanesInv
PROPERTIES
  ImplementsAgentRuns
  RunsSettle
CHECK_DEADLOCK FALSE
