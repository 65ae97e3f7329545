SPECIFICATION Spec
CONSTANTS
    a = a
    b = b
    Entities = {a, b}
    Policy = "reject-if-stale"
    Modes = {"optimistic", "pessimistic", "blind"}
    WriteKinds = {"update", "delete"}
    ForeignKinds = {"update"}
    BatchSize = 2
    MaxAttempts = 2
    MaxWrites = 2
    MaxForeign = 1
    MaxFaults = 1
SYMMETRY Symmetry
INVARIANTS
    OnlyUnitsOvertake
PROPERTIES
    OwedRowsStay
CHECK_DEADLOCK FALSE
