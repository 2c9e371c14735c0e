SPECIFICATION FairSpec
CONSTANTS
  main = main
  cron = cron
  c1 = c1
  c2 = c2
  c3 = c3
  c4 = c4
  Lane <- MCLane
  Command <- MCCommand
  Limit <- MCLimit
  MaxGeneration <- MCMaxGeneration
INVARIANTS
  TypeOK
  ActiveIsCurrent
  WorkConserving
  PendingHasOnePlace
PROPERTIES
  StartsWithinLimit
  StartsInOrder
  QueuedLeaves
