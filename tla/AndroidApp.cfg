SPECIFICATION FairSpec
CONSTANTS
  id1 = id1
  p1 = p1
  zero = zero
  ten = ten
  aaa = aaa
  home = home
  Undefined = Undefined
  Nowhere = Nowhere
  NoOne = zero
  NoPhone = NoPhone
  Places <- MCPlaces
  Counts <- MCCounts
  Phones <- MCPhones
  Ids <- MCOneId
  Campaigns <- MCOneCampaign
  MaxSignUps = 2
  MaxDepth = 4
INVARIANT NodesAreTafweej
INVARIANT StatusMatchesSeekBar
INVARIANT StoppedStaysStopped
PROPERTY StartedIsActive
