\* A reopened store whose selected slot was never flushed is repacked, and then a crash.
SPECIFICATION Spec
CONSTANTS
    x = x
    ExtentSize = 1
    MaxInodes = 3
    MaxExtents = 1
    Names = {x}
    FDs = {}
    MaxSize = 1
    MaxOps = 0
    MaxGen = 4
    MaxTroubles = 2
INVARIANT OpensAgain
