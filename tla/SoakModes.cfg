SPECIFICATION FairSpec
CONSTANTS
    t1 = t1
    NumVersions = 2
    BlocksPerVersion = 3
    NearEnd = 3
    WarmupBatches = 1
    Modes = {"genesis", "append", "test"}
    Tasks <- OneTask
    MaxEmpty = 1
    MayCrash = TRUE
INVARIANTS
    TypeOK
    AppendIsContiguous
    EarlyFailureIsReported
    OkMeansCleanStop
PROPERTIES
    Terminates
