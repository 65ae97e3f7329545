SPECIFICATION FairSpec
CONSTANTS
    a = a
    b = b
    Entities = {a}
    Policy = "reject-if-stale"
    Modes = {"optimistic"}
    WriteKinds = {"create", "update"}
    ForeignKinds = {"update"}
    BatchSize = 2
    MaxAttempts = 2
    MaxWrites = 2
    MaxForeign = 1
    MaxFaults = 1
PROPERTIES
    WritesSettle
    AckedConverges
CHECK_DEADLOCK FALSE
