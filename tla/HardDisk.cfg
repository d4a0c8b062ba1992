SPECIFICATION Spec
INVARIANTS
  HardDisksAreTaken
