SPECIFICATION Spec
CONSTANTS
    RollupStopHeight = 3
    MaxEmpty = 1
    MayFail = TRUE
    MayDiverge = TRUE
    MaxErrors = 2
    MaxPolls = 2
    MaxWaits = 2
    NumContracts = 1
    MaxUpdates = 1
INVARIANTS
    TypeOK
    NoFalseRejection
    RejectionIsReported
    UpdatesNeverCollide
    WorkersKnowTheirContracts
PROPERTIES
    LossIsNoticed
