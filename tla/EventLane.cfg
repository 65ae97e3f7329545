\* Two events of one stream the server registers late; the server rejects one.
SPECIFICATION Spec
CONSTANTS
    e1 = e1
    e2 = e2
    a = a
    p1 = p1
    p2 = p2
    Events = {e1, e2}
    StreamOf <- OneStream
    StreamCap <- Caps
    BatchSize = 2
    RetainsAcked = TRUE
    Processes = {p1, p2}
    Hosts <- LoopAndDrain
    QueueStreams = {a}
    ReadSize = 2
    Concurrency = 1
    MaxAttempts = 2
    Invalid = {e2}
    Refused = {}
    LateStreams = {a}
    MaxTroubles = 1
INVARIANTS
    NothingLost
    DuplicatesNeedTrouble
    OneCallbackPerMessage
