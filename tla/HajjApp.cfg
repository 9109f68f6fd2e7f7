SPECIFICATION FairSpec
CONSTANTS
    Undefined = Undefined
    Nowhere = Nowhere
    NoPhone = NoPhone
    id1 = id1
    aaa = aaa
    p1 = p1
    zero = zero
    ten = ten
    right = right
    wrong = wrong
    Ids <- MCIds
    Phones <- MCPhones
    Registry <- MCRegistry
    Places <- MCPlaces
    Counts <- MCCounts
    NoOne = zero
    Campaigns <- MCCampaigns
    MaxTens = 1
    Text <- MCText
    MaxLogins = 2
    MaxPending = 2
    MaxEvents = 2
    MaxQueued = 3
INVARIANTS
    EntryHasCampaign
    ScreenShowsEntry
    AlwaysTracked
PROPERTIES
    MakesHajjAppWrites
    StoppedIsWritten
