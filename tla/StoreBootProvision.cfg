\* A provision over a standing "OPFS deletion pending" marker: the store it mints
\* and commits is deleted by the next boot.
SPECIFICATION Spec
CONSTANTS
    a = a
    b = b
    Contexts = {a, b}
    Homes = {"granted", "denied", "blind"}
    MaxMints = 5
    MaxDestroys = 2
    MaxTroubles = 3
    Windows = {"provision"}
SYMMETRY ContextSymmetry
INVARIANT UsedStoreIsKept
CHECK_DEADLOCK FALSE
