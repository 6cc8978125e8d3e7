SPECIFICATION Spec
CONSTANTS
    NoFile = NoFile
    Torn = Torn
    BlocksPerVersion = 2
    MaxVersions = 2
    MaxRuns = 3
    MaxEmpty = 1
    MaxUnsaved = 1
INVARIANTS
    TypeOK
    TestJudgesRecordedData
    OkSetupGeneratesItsVersions
    OkAppendMatchesSnapshots
    BaselineIsBest
