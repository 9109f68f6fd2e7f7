SPECIFICATION FairSpec
CONSTANTS
    Ids <- MCIds
    MaxRemovals = 4
INVARIANTS
    UntouchedPrefix
    LossIsBounded
PROPERTIES
    FollowsRoster
CHECK_DEADLOCK FALSE
