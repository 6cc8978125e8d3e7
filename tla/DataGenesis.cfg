SPECIFICATION Spec
CONSTANTS
    NoFile = NoFile
    Torn = Torn
    BlocksPerVersion = 2
    MaxVersions = 2
    MaxRuns = 4
    MaxEmpty = 1
    MaxUnsaved = 1
INVARIANTS
    GenesisStartsEmpty
