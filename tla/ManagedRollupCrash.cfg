SPECIFICATION Spec
CONSTANT MaxStarts = 2
INVARIANTS
    NoNodeIsOrphaned
