\* A failed store closed, reopened and synced, and then a crash.
SPECIFICATION Spec
CONSTANTS
    x = x
    ExtentSize = 1
    MaxInodes = 3
    MaxExtents = 1
    Names = {x}
    FDs = {}
    MaxSize = 1
    MaxOps = 3
    MaxGen = 2
    MaxTroubles = 2
INVARIANT SyncedSurvives
