\* initialInsertMethod "copy", crashes inside desync(), and a second trouble: one shape, two
\* rows.  No error: about a minute and a half.
SPECIFICATION Spec
CONSTANTS
    s1 = s1
    s2 = s2
    k1 = k1
    k2 = k2
    k3 = k3
    ShapeNames <- OneName
    TableOf <- ItsTable
    Keys = {k1, k2}
    Home <- OneHome
    Method = "copy"
    MaxCommitRetries = 2
    MaxWrites = 3
    MaxTroubles = 2
    Windows = {"desync_crash"}
INVARIANTS
    BulkLoadsAreNew
CHECK_DEADLOCK FALSE
