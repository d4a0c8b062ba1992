SPECIFICATION FairSpec
CONSTANTS
  Networks = {n1, n2}
  LoadBalancers = {l1, l2}
  Machines = {m1}
  Versions = {v1, v2}
  WantsNetwork = TRUE
  ExtraServices = TRUE
  DefaultLocations = TRUE
  LateAddress = TRUE
  EarlyDelete = FALSE
  MaxFaults = 1
  None = None
INVARIANTS
  ResourcesHaveCluster
  OneOfEach
  InitializedMeansApplied
PROPERTIES
  EndpointKept
  ClusterBecomesReady
  DeletedClusterGoes
  ManifestsApplied
