SPECIFICATION Spec
CONSTANTS
    app = app  web = web  l1 = l1  l2 = l2  v1 = v1  v2 = v2  mine = mine
    Entries = {app, web}
    Layers = {l1, l2}
    Bases = {v1, v2, mine}
    NoBase = NoBase
    Published = {v1, v2}
    BaseLayers <- MCBaseLayers
    Own <- MCOwn
    MaxFaults = 1
    MaxStuck = 1
    MaxMoves = 2
INVARIANTS
    BuildInv
    LayersObtainable
CHECK_DEADLOCK FALSE
