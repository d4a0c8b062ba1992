SPECIFICATION Spec
CONSTANTS
  u1 = u1
  f1 = f1
  Images = {o1, u1}
  Remote = {u1}
  Folders = {f1}
  FolderOf <- MCFolderOf
  Builds = {b1, b2}
  MaxFaults = 0
  None = None
  Partial = Partial
INVARIANTS
  LabelIsTrue
