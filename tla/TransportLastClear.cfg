SPECIFICATION Spec
CONSTANTS
    Clients = {u1}
    Closers = {}
    CanUnplug = TRUE
    Slack = 0
    MaxDevice = 2
    MaxSends = 1
INVARIANTS
    LastClearWakesReaders
CHECK_DEADLOCK FALSE
