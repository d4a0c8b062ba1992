SPECIFICATION Spec
CONSTANTS
  Networks = {n1}
  LoadBalancers = {l1}
  Machines = {m1}
  Versions = {v1}
  WantsNetwork = TRUE
  ExtraServices = FALSE
  DefaultLocations = FALSE
  LateAddress = TRUE
  EarlyDelete = FALSE
  MaxFaults = 0
  None = None
INVARIANTS
  NoPanic
