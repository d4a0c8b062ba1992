SPECIFICATION Spec
CONSTANTS
  Machines = {cp1, w1}
  ControlPlanes = {cp1}
  WithVolumes = {}
  Servers = {s1, s2}
  HasNetwork = FALSE
  LateCreates = FALSE
  MaxFaults = 0
  NoMachine = NoMachine
  NoServer = NoServer
INVARIANTS
  ProviderIDsDistinct
