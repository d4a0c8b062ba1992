SPECIFICATION FairSpec
CONSTANTS
  u1 = u1
  f1 = f1
  Images = {o1, u1}
  Remote = {u1}
  Folders = {f1}
  FolderOf <- MCFolderOf
  Builds = {b1, b2}
  MaxFaults = 2
  None = None
  Partial = Partial
INVARIANTS
  OneBuildPerImage
  OwnImagesAreOwn
PROPERTIES
  ImageComes
