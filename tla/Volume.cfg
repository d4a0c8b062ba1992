SPECIFICATION FairSpec
CONSTANTS
  v1 = v1
  Volumes = {v1}
  Ids = {i1, i2}
  Asked <- MCAsked
  EarlyDelete = FALSE
  MaxFaults = 3
  NoVolume = NoVolume
  NoId = NoId
INVARIANTS
  OneVolumePerObject
PROPERTIES
  DataKept
  DeleteLeavesNothing
  VolumeComes
  DeletedVolumeGoes
