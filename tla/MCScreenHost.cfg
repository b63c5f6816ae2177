CONSTANTS
    h1 = h1
    h2 = h2
    Hosts <- TwoHosts
    Builds <- AnyBuild
    MaxTrees = 3
    MaxFailures = 2
    MaxUpdates = 1
    MaxReloads = 2
    MaxElapses = 1
SPECIFICATION Spec
INVARIANTS
    OneTree
    BoundedRecovery
    NewCodeShown
CHECK_DEADLOCK FALSE
SYMMETRY AnyOrder
