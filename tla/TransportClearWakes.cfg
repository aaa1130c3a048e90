SPECIFICATION Spec
CONSTANTS
    Clients = {}
    Closers = {k1}
    CanUnplug = TRUE
    Slack = 0
    MaxDevice = 0
    MaxSends = 0
INVARIANTS
    ClearWakesReaders
CHECK_DEADLOCK FALSE
