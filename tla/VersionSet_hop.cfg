CONSTANTS
    UserKeys = {1}
    NumLevels = 4
    MaxMemCompactLevel = 2
    MaxSeq = 2
    MaxSnapshots = 1
SPECIFICATION Spec
INVARIANTS
    EntriesNeverHop
