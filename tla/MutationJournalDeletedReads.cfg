SPECIFICATION Spec
CONSTANTS
    a = a
    b = b
    Entities = {a}
    Policy = "reject-if-stale"
    Modes = {"optimistic"}
    WriteKinds = {"create", "update", "delete"}
    ForeignKinds = {"create", "update", "delete"}
    BatchSize = 2
    MaxAttempts = 2
    MaxWrites = 3
    MaxForeign = 1
    MaxFaults = 0
INVARIANTS
    OwedWritesAreRead
CHECK_DEADLOCK FALSE
