SPECIFICATION LoopFairSpec
CONSTANTS
  main = main
  c1 = c1
  c2 = c2
  Lane <- MCLane
  Command <- MCCommand
  Limit <- MCSerial
  MaxGeneration <- MCTwo
  MaxRestarts <- MCTwo
  MaxPollers <- MCOne
INVARIANTS
  LoopInv
  StartsAlone
  TakesWorkWhenUp
  ActiveTasksDrained
PROPERTIES
  ShutdownEnds
  RestartNotForgotten
  QueuedRunsOrExits
CHECK_DEADLOCK FALSE
