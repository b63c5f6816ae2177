CONSTANTS
  home = home
  item = item
  Screens = {home, item}
  Initial = home
  Resets <- MCResets
  MaxRoutes = 3
  MaxCalls = 2
  MaxEffectCalls = 1
  MaxListens = 1
  MaxReroutes = 1
  MaxBacks = 2
SPECIFICATION Spec
CHECK_DEADLOCK FALSE
PROPERTIES
  AskedBeforeRemoved
  BackTakesTheSwiped
  NativeFollows
