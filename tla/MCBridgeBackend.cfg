SPECIFICATION Spec
CONSTANTS
  r1 = r1
  r2 = r2
  NoOne = NoOne
  Reconcilers <- TwoReconcilers
  MaxTag = 2
  MaxFlushes = 3
  MaxEvents = 1
  MaxFailures = 1
  MaxRejections = 1
  QueueLimit = 1
  UncaughtEffects = TRUE
SYMMETRY Symmetry
INVARIANT MirrorAgreement
INVARIANT CommitsAgainstCoreRevision
PROPERTY ImplementsMirror
CHECK_DEADLOCK FALSE
