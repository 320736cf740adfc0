SPECIFICATION Spec
CONSTANTS
    Procs = {p1, p2}
    Digests = {d1, d2}
    Contents = {c1, c2}
    Inodes = {i1, i2, i3, i4}
    p1 = p1
    p2 = p2
    d1 = d1
    d2 = d2
    c1 = c1
    c2 = c2
    i1 = i1
    i2 = i2
    i3 = i3
    i4 = i4
    Hash <- MCHash
    Layouts <- MCLayouts
    Partial = Partial
    Damaged = Damaged
    Absent = Absent
    Directory = Directory
    NoFile = NoFile
    AnyDigest = AnyDigest
    MaxCalls = 2
    MaxCrashes = 1
    MaxTampers = 1
SYMMETRY MCSymmetry
INVARIANTS
    CacheIntegrity
    NoTempLeft
    AckedStays
    ReadsWhole
PROPERTIES NoBlindAck ImplementsStore
CHECK_DEADLOCK FALSE
