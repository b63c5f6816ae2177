SPECIFICATION Spec
CONSTANTS
  k1 = k1
  k2 = k2
  c1 = c1
  c2 = c2
  Keys <- TwoKeys
  Components <- TwoComponents
  Capacity = 1
  MaxIssued = 3
  MaxRenders = 3
  MaxEntries = 3
  MaxGeneration = 1
SYMMETRY Symmetry
INVARIANT OneSharedRequest
INVARIANT LoadingHasRequest
PROPERTY DataNeverGoesBack
PROPERTY CacheBounded
CHECK_DEADLOCK FALSE
