SPECIFICATION LockSpec
CONSTANTS
  Task = {a, b}
  Process = {1, 2}
  LockKinds = {"session", "file", "gateway"}
  Faults = {"crash", "overstay", "signal", "sweep", "io"}
  MaxFaults = 1
  MaxStarts = 1
INVARIANTS
  LocksInv
  HolderHasFile
PROPERTIES
  DeadLockGoes
CHECK_DEADLOCK FALSE
