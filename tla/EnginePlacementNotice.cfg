\* A notice about a dead engine reaches a coordinator that has spawned its successor.
SPECIFICATION Spec
CONSTANTS
    a = a
    b = b
    c1 = c1
    c2 = c2
    Tabs = {a, b}
    Calls = {}
    Owner <- Owners
    Kind <- AllMutations
    QueueCap = 1
    MaxEngines = 3
    MaxEvents = 1
PROPERTIES
    NoticeEndsItsEngine
CHECK_DEADLOCK FALSE
