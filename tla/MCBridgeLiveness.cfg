SPECIFICATION FairSpec
CONSTANTS
  r1 = r1
  r2 = r2
  NoOne = NoOne
  Reconcilers <- TwoReconcilers
  MaxTag = 2
  MaxFlushes = 2
  MaxEvents = 2
  MaxFailures = 1
  MaxRejections = 0
  QueueLimit = 1
  UncaughtEffects = FALSE
PROPERTY ChannelDrains
CHECK_DEADLOCK FALSE
