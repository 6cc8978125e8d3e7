SPECIFICATION FairSpec
CONSTANTS
    NumVersions = 2
    BlocksPerVersion = 2
    IgnoreMissingBelow = 2
    NewSlots = 1
    MaxBadBodies = 1
    Recordings <- TwoVersions
INVARIANTS
    TypeOK
    NoSnapshotSkipped
    OkCoversEveryBatch
    FirstNewSlotEndsData
    OkMeansFaithfulReplay
    MismatchMeansDivergence
    FollowedHandoverIsBridged
PROPERTIES
    ImplementsContract
    Terminates
