SPECIFICATION CopySpec
CONSTANTS
    c1 = c1  c2 = c2  i1 = i1  i2 = i2  amd64 = amd64  arm64 = arm64  l1 = l1
    Callers = {c1, c2}
    Platforms = {amd64, arm64}
    Images = {i1}
    Layers = {l1}
    MaxFaults = 0
INVARIANT TimeoutIsNotCancellation
CHECK_DEADLOCK FALSE
