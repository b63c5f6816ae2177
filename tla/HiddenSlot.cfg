CONSTANTS
  Contents <- MCTyped
  Children = {1, 2}
  Size = 6
  MaxChanges = 3
  MaxRefetches = 0
  MaxFailures = 0
  MaxRejections = 0
SPECIFICATION Spec
CHECK_DEADLOCK FALSE
INVARIANT OpsAccepted
