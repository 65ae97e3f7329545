SPECIFICATION Spec
CONSTANTS
    Shapes = {s1, s2}
    MaxStarts = 2
    MaxFaults = 1
    MaxStops = 1
    MaxChanges = 1
    Windows = {}
INVARIANTS
    OneRestart
    EngineIsTheGroups
    LostRowsStayGone
    CursorHasRows
PROPERTIES
    ReadyHoldsGranted
    BecomesReady
CHECK_DEADLOCK FALSE
