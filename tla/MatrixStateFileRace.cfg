CONSTANTS
  Cells = {c1, c2}
  Procs = {p1, p2}
  Inodes = {i1, i2, i3, i4}
  None = None
  Torn = Torn
  OneAtATime = FALSE
  MaxChanges = 3
SPECIFICATION Spec
PROPERTIES NeverGoesBack
