SPECIFICATION ReadSpec
CONSTANTS
  p1 = p1
  v1 = v1
  v2 = v2
  i1 = i1
  i2 = i2
  i3 = i3
  g1 = g1
  g2 = g2
  Procs = {p1}
  Bodies = {v1, v2}
  Inodes = {i1, i2, i3}
  Kinds = {"package"}
  Goroutines = {g1, g2}
  Layout <- MCLayout
  Entries <- MCEntries
  MaxAsks = 2
  MaxDamages = 1
  Absent = Absent
  NoFile = NoFile
  Partial = Partial
  MaxCalls = 2
  MaxCrashes = 1
SYMMETRY MCSymmetry
INVARIANT ReadInv
PROPERTY ReadOnce
CHECK_DEADLOCK FALSE
