\* Two contexts at one store path, in any of the three homes, five directories
\* or databases, two destroys, and three troubles of any kind.
SPECIFICATION Spec
CONSTANTS
    a = a
    b = b
    Contexts = {a, b}
    Homes = {"granted", "denied", "blind"}
    MaxMints = 5
    MaxDestroys = 2
    MaxTroubles = 3
    Windows = {}
SYMMETRY ContextSymmetry
INVARIANTS UsedStoreIsKept CommittedIsWhole
PROPERTIES DestroyedStaysGone GrantedBootSucceeds
CHECK_DEADLOCK FALSE
