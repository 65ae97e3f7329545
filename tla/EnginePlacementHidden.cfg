\* A page goes into the back/forward cache and comes out before its engine is retired.
SPECIFICATION Spec
CONSTANTS
    a = a
    b = b
    c1 = c1
    c2 = c2
    Tabs = {a}
    Calls = {}
    Owner <- Owners
    Kind <- AllMutations
    QueueCap = 1
    MaxEngines = 1
    MaxEvents = 1
INVARIANTS
    NoClaimIsStranded
CHECK_DEADLOCK FALSE
