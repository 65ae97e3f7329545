\* Two pages, one mutation of the second, and one event: a detach, a hidden or lost
\* page, a dead engine, a failed boot or a probe verdict.
SPECIFICATION Spec
CONSTANTS
    a = a
    b = b
    c1 = c1
    c2 = c2
    Tabs = {a, b}
    Calls = {c1}
    Owner <- Owners
    Kind <- AllMutations
    QueueCap = 1
    MaxEngines = 4
    MaxEvents = 1
INVARIANTS
    OneEngine
    OutcomeIsHonest
PROPERTIES
    EveryCallSettles
CHECK_DEADLOCK FALSE
