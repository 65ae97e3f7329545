\* initialInsertMethod "copy": one shape, two rows, no trouble.
SPECIFICATION Spec
CONSTANTS
    s1 = s1
    s2 = s2
    k1 = k1
    k2 = k2
    k3 = k3
    ShapeNames <- OneName
    TableOf <- ItsTable
    Keys = {k1, k2}
    Home <- OneHome
    Method = "copy"
    MaxCommitRetries = 2
    MaxWrites = 3
    MaxTroubles = 0
    Windows = {}
INVARIANTS
    BulkLoadsNeverCollide
CHECK_DEADLOCK FALSE
