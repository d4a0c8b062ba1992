SPECIFICATION Spec
CONSTANTS
  Clusters = {k1}
  Managers = {i1, i2}
  Recreate = {}
  MaxFaults = 0
  None = None
  Free = Free
  Worker = Worker
INVARIANTS
  RunningManagerCanBeStopped
CHECK_DEADLOCK FALSE
