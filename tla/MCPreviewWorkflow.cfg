SPECIFICATION FairPreviewSpec
CONSTANTS
    r1 = r1  r2 = r2  nobody = nobody
    Clients = {r1, r2}
    Runners = {r1}
    Nobody = nobody
    Versions <- MCVersions
    MaxCalls = 3
    MaxFaults = 1
    MaxRuns = 3
    MaxPreviews = 1
    MaxDirect = 1
INVARIANTS
    DeployComplete
    StopEffective
    PreviewServes
    PreviewInv
PROPERTIES RestartIsFresh RunsEnd
CHECK_DEADLOCK FALSE
