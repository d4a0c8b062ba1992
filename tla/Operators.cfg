SPECIFICATION Spec
INVARIANTS
  DrivesAreRight
  DrivesAreKept
  LocationsAreStable
  UserDataArrives
