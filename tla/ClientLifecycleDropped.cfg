\* A write commits between the check of destroy() and its wipe.
SPECIFICATION FairClientSpec
CONSTANTS
    MaxWrites = 3
    MaxFlips = 2
    MaxFailures = 2
    Forced = {TRUE, FALSE}
PROPERTIES
    DestroyDropsNothing
CHECK_DEADLOCK FALSE
