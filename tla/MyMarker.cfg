SPECIFICATION FairSpec
CONSTANTS
    Undefined = Undefined
    Nowhere = Nowhere
    None = None
    p1 = p1
    p2 = p2
    zero = zero
    ten = ten
    aaa = aaa
    Places <- MCPlaces
    Counts <- MCOneCount
    NoOne = zero
    Campaigns <- MCCampaigns
    Boxes <- MCLostBox
    Period = 2
INVARIANTS
    SilentIsLost
    StoppedIsRemoved
    LostMeansSilent
    TerminatedIsStopped
    MarkerFollowsPhone
PROPERTIES
    StoppedLeavesMap
