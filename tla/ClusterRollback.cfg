SPECIFICATION Spec
CONSTANTS
  Networks = {n1}
  LoadBalancers = {l1}
  Machines = {m1}
  Versions = {v1, v2}
  WantsNetwork = TRUE
  ExtraServices = FALSE
  DefaultLocations = FALSE
  LateAddress = FALSE
  EarlyDelete = FALSE
  MaxFaults = 3
  None = None
INVARIANTS
  AppliedHashIsTrue
