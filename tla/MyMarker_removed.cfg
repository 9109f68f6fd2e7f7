SPECIFICATION Spec
CONSTANTS
    Undefined = Undefined
    Nowhere = Nowhere
    None = None
    p1 = p1
    p2 = p2
    zero = zero
    ten = ten
    aaa = aaa
    Places <- MCPlaces
    Counts <- MCCounts
    NoOne = zero
    Campaigns <- MCCampaigns
    Boxes <- MCLostBox
    Period = 2
SYMMETRY Symmetry
INVARIANTS
    RemovedOnlyWhenStopped
