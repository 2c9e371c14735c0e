SPECIFICATION LockSpec
CONSTANTS
  Task = {a, b}
  Process = {1, 2}
  LockKinds = {"file"}
  Faults = {}
  MaxFaults = 0
  MaxStarts = 0
INVARIANTS
  Exclusive
CHECK_DEADLOCK FALSE
