SPECIFICATION Spec
CONSTANTS
  Networks = {n1}
  LoadBalancers = {l1}
  Machines = {m1}
  Versions = {v1}
  WantsNetwork = TRUE
  ExtraServices = TRUE
  DefaultLocations = FALSE
  LateAddress = FALSE
  EarlyDelete = FALSE
  MaxFaults = 1
  None = None
INVARIANTS
  ReadyMeansAllServices
