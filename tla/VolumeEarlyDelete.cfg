SPECIFICATION Spec
CONSTANTS
  v1 = v1
  Volumes = {v1}
  Ids = {i1, i2}
  Asked <- MCAsked
  EarlyDelete = TRUE
  MaxFaults = 0
  NoVolume = NoVolume
  NoId = NoId
PROPERTY
  DeleteLeavesNothing
