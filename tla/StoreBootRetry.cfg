\* A worker whose boot failed after the open boots again: the engine it left
\* unclosed keeps the candidate from being torn down.
SPECIFICATION Spec
CONSTANTS
    a = a
    b = b
    Contexts = {a, b}
    Homes = {"granted"}
    MaxMints = 3
    MaxDestroys = 0
    MaxTroubles = 1
    Windows = {}
SYMMETRY ContextSymmetry
PROPERTY NextBootRebuilds
CHECK_DEADLOCK FALSE
