SPECIFICATION FairAllSpec
CONSTANTS
  Clusters = {k1}
  Managers = {i1, i2, i3}
  Addresses = {a1, a2}
  Nodes = {k1}
  Recreate = {}
  MaxFaults = 2
  None = None
  Free = Free
  Worker = Worker
PROPERTIES
  DecisionStands
  CertificateComes
CHECK_DEADLOCK FALSE
