SPECIFICATION Spec
CONSTANTS
    a = a
    b = b
    Entities = {a}
    Policy = "last-write-wins"
    Modes = {"optimistic", "pessimistic"}
    WriteKinds = {"update"}
    ForeignKinds = {"update"}
    BatchSize = 2
    MaxAttempts = 2
    MaxWrites = 2
    MaxForeign = 0
    MaxFaults = 0
PROPERTIES
    WritesReachInOrder
CHECK_DEADLOCK FALSE
