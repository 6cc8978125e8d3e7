SPECIFICATION FairSpec
CONSTANT MaxStarts = 2
INVARIANTS
    TypeOK
    NoSurvivors
    PostgresOutlivesNode
    ContainerRemoved
    DeathReachesManager
    SuccessIsClean
PROPERTIES
    SignalEndsRun
