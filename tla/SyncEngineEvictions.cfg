\* A revocation is served after the shapes were read and before the barrier is.
SPECIFICATION Spec
CONSTANTS
    s1 = s1
    s2 = s2
    k1 = k1
    k2 = k2
    k3 = k3
    ShapeNames <- Names
    TableOf <- OneTable
    Keys = {k1, k2, k3}
    Home <- Homes
    Method = "copy"
    MaxCommitRetries = 2
    MaxWrites = 2
    MaxTroubles = 1
    Windows = {}
PROPERTIES
    EvictionsBeforeReady
CHECK_DEADLOCK FALSE
