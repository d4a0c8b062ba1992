SPECIFICATION Spec
CONSTANTS
  Machines = {cp1}
  ControlPlanes = {cp1}
  WithVolumes = {cp1}
  Servers = {s1, s2}
  HasNetwork = TRUE
  LateCreates = FALSE
  MaxFaults = 3
  NoMachine = NoMachine
  NoServer = NoServer
INVARIANTS
  NoOrphanServer
  OneServerPerMachine
PROPERTIES
  DrainBeforeStop
  ReadyMeansAttached
  KeepsPromise
