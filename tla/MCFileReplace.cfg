SPECIFICATION Spec
CONSTANTS
  p1 = p1
  p2 = p2
  v1 = v1
  v2 = v2
  i1 = i1
  i2 = i2
  i3 = i3
  i4 = i4
  Procs = {p1, p2}
  Bodies = {v1, v2}
  Inodes = {i1, i2, i3, i4}
  Kinds = {"package", "token", "key"}
  Absent = Absent
  NoFile = NoFile
  Partial = Partial
  MaxCalls = 3
  MaxCrashes = 1
SYMMETRY MCSymmetry
INVARIANT FileInv
PROPERTY ImplementsFile
CHECK_DEADLOCK FALSE
