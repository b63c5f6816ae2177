SPECIFICATION FairSpec
CONSTANTS
  Streams = {s1}
  Others = {s2}
  Views = {list, pan}
  Gestures = {pan}
  MaxMessages = 3
CHECK_DEADLOCK FALSE
INVARIANTS
  InputInOrder
  ReadingsWhole
  NothingLeftBehind
PROPERTIES
  EverythingArrives
