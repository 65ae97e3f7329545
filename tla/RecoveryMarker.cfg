SPECIFICATION FairSpec
CONSTANTS
    f = f
    u = u
    w = w
    Senders = {f, u}
    Units = {u}
    Writers = {w}
    Failing = {w}
    MaxCrashes = 1
INVARIANTS
    MarkerCoversSending
PROPERTIES
    BootLeavesNoSending
    SendingIsResolved
