SPECIFICATION FairSpec
CONSTANTS
  Networks = {n1}
  LoadBalancers = {l1}
  Machines = {m1}
  Versions = {v1}
  WantsNetwork = TRUE
  ExtraServices = FALSE
  DefaultLocations = TRUE
  LateAddress = FALSE
  EarlyDelete = FALSE
  MaxFaults = 0
  None = None
PROPERTIES
  EveryClusterBecomesReady
