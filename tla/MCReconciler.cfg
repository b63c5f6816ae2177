SPECIFICATION Spec
CONSTANTS
  c1 = c1
  c2 = c2
  Components <- TwoComponents
  StormLimit = 1
  MaxUpdates = 2
  MaxEffectSets = 1
  MaxRenderSets = 0
  MaxErrors = 1
  MaxRejections = 1
  MaxRequests = 3
  MaxWaits = 0
SYMMETRY Symmetry
INVARIANTS
  EachUpdateOnce
  UserOrder
  NothingForgotten
  CommittedTreeStays
PROPERTIES
  HeldWhilePending
CHECK_DEADLOCK FALSE
