\* Two interchangeable names, one descriptor, extents of one block, and room for an
\* extent to be freed, aged over two repacks and given to another file.  One trouble: with two,
\* ReplayGivesLiveState alone holds.
SPECIFICATION Spec
CONSTANTS
    x = x
    y = y
    ExtentSize = 1
    MaxInodes = 3
    MaxExtents = 2
    Names = {x, y}
    FDs = {"d"}
    MaxSize = 2
    MaxOps = 3
    MaxGen = 3
    MaxTroubles = 1
SYMMETRY NameSymmetry
INVARIANTS
    OpensAgain
    ReplayGivesLiveState
    OwnBytesOnly
    SyncedSurvives
