SPECIFICATION Spec
CONSTANTS
    NumVersions = 2
    BlocksPerVersion = 2
    IgnoreMissingBelow = 2
    NewSlots = 1
    MaxBadBodies = 0
    Recordings <- OneVersion
INVARIANTS
    OkMeansFaithfulReplay
