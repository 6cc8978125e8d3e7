SPECIFICATION Spec
CONSTANTS
    t1 = t1
    NumVersions = 2
    BlocksPerVersion = 3
    NearEnd = 3
    WarmupBatches = 1
    Modes = {"append"}
    Tasks <- OneTask
    MaxEmpty = 1
    MayCrash = FALSE
INVARIANTS
    OkDataReachesStopHeight
