SPECIFICATION FairSpec
CONSTANTS
  Machines = {m1}
  Servers = {s1, s2}
  Drives = {d1, d2, d3}
  DataDrives = {d2}
  PlainDrives = {d3}
  UsedServers = {s1}
  SystemDrive = d1
  MaxFaults = 2
  None = None
  Free = Free
  Blank = Blank
  Rescue = Rescue
  Former = Former
INVARIANTS
  NamedMeansInstalled
  OneServerPerMachine
PROPERTIES
  PartitionsKept
  KeepsPromise
  MachineBecomesReady
  DeletedMachineGoes
