CONSTANTS
  Contents <- MCContents
  Children = {1, 2, 3, 4}
  Size = 7
  MaxChanges = 3
  MaxRefetches = 1
  MaxFailures = 1
  MaxRejections = 1
SPECIFICATION Spec
CHECK_DEADLOCK FALSE
INVARIANTS
  MirrorsTree
  OpsAccepted
  OneStatePerElement
  MovesMinimal
PROPERTIES
  ContentSurvives
  EventuallyRevealed
