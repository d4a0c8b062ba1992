SPECIFICATION Spec
CONSTANTS
  Machines = {cp1}
  ControlPlanes = {cp1}
  WithVolumes = {cp1}
  Servers = {s1}
  HasNetwork = FALSE
  LateCreates = FALSE
  MaxFaults = 0
  NoMachine = NoMachine
  NoServer = NoServer
INVARIANTS
  NoPanic
