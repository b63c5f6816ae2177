SPECIFICATION FairSpec
CONSTANTS
  c1 = c1
  c2 = c2
  Components <- OneComponent
  StormLimit = 2
  MaxUpdates = 1
  MaxEffectSets = 1
  MaxRenderSets = 1
  MaxErrors = 1
  MaxRejections = 1
  MaxRequests = 3
  MaxWaits = 1
INVARIANTS
  LastRequestWins
PROPERTIES
  EventuallyShown
  NothingHangs
CHECK_DEADLOCK FALSE
