CONSTANTS
    a = a
    b = b
    c = c
    l1 = l1
    Keys <- KeySet
    PatchKeys <- ThreeKeys
    First <- Initial
    Views <- ViewSet
    PatchLimit = 1
    HistoryLimit = 2
    MaxWork = 4
SPECIFICATION Spec
INVARIANTS
    PacketsAccepted
    PatchIsExact
    CaughtUp
    EventsNameTheShownRow
PROPERTIES
    SendsWholeLists
CHECK_DEADLOCK FALSE
