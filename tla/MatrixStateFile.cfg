CONSTANTS
  Cells = {c1, c2}
  Procs = {p1, p2}
  Inodes = {i1, i2, i3}
  None = None
  Torn = Torn
  OneAtATime = TRUE
  MaxChanges = 3
SPECIFICATION Spec
INVARIANTS FileIsWhole
PROPERTIES StoreSpec
