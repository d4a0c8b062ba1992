SPECIFICATION FairSpec
CONSTANTS
  Machines = {cp1}
  ControlPlanes = {cp1}
  WithVolumes = {cp1}
  Servers = {s1, s2}
  HasNetwork = TRUE
  LateCreates = TRUE
  MaxFaults = 1
  NoMachine = NoMachine
  NoServer = NoServer
PROPERTIES
  ProviderIDKept
  DeletedMachineGoes
  MachineBecomesReady
  ControlPlaneJoinsLoadBalancer
