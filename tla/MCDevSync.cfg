CONSTANTS
    Order <- ThreeModules
    First <- Chain
    Bundled = {"a"}
    MaxEvents = 2
    MaxSessions = 2
SPECIFICATION Spec
INVARIANTS
    InSync
    RunsTheSavedCode
PROPERTY SavesArrive
CHECK_DEADLOCK FALSE
