CONSTANTS
    UserKeys = {1, 2}
    NumLevels = 3
    MaxMemCompactLevel = 1
    MaxSeq = 4
    MaxSnapshots = 1
SPECIFICATION Spec
INVARIANTS
    TypeOK
    LevelsDisjoint
    ReadsAreCurrent
    TearNeedsSnapshot
