SPECIFICATION FairSpec
CONSTANTS
    MaxAhead = 2
    WaitSlots = 3
INVARIANTS
    TypeOK
    SuccessIsSound
    BatchesWereSeen
    SkewIsNoticed
    RejectedForCause
PROPERTIES
    Terminates
