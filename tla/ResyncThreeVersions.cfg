SPECIFICATION Spec
CONSTANTS
    NumVersions = 3
    BlocksPerVersion = 1
    IgnoreMissingBelow = 2
    NewSlots = 1
    MaxBadBodies = 0
    Recordings <- ThreeVersions
INVARIANTS
    NoProgressMeansNothingCompared
