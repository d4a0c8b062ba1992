SPECIFICATION FairSpec
CONSTANTS
  Clusters = {k1, k2}
  Managers = {i1, i2, i3}
  Recreate = {k2}
  MaxFaults = 1
  None = None
  Free = Free
  Worker = Worker
INVARIANTS
  RegisteredChannelOpen
  OneManagerPerCluster
PROPERTIES
  LiveClusterManaged
CHECK_DEADLOCK FALSE
