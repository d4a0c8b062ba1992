SPECIFICATION Spec
CONSTANTS
  Networks = {n1}
  LoadBalancers = {l1}
  Machines = {m1}
  Versions = {v1}
  WantsNetwork = TRUE
  ExtraServices = FALSE
  DefaultLocations = FALSE
  LateAddress = FALSE
  EarlyDelete = FALSE
  MaxFaults = 0
  None = None
PROPERTIES
  MachinesGoFirst
