SPECIFICATION FairClientSpec
CONSTANTS
    MaxWrites = 3
    MaxFlips = 2
    MaxFailures = 2
    Forced = {TRUE, FALSE}
INVARIANTS
    ClosedStoreIsQuiet
PROPERTIES
    DestroyKeepsCheckedWrites
    WriteGetsAPass
CHECK_DEADLOCK FALSE
