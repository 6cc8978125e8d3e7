SPECIFICATION Spec
CONSTANTS
    t1 = t1
    NumVersions = 2
    BlocksPerVersion = 3
    NearEnd = 0
    WarmupBatches = 1
    Modes = {"genesis"}
    Tasks <- OneTask
    MaxEmpty = 1
    MayCrash = FALSE
INVARIANTS
    SoakCrossesHandovers
