SPECIFICATION Spec
CONSTANTS
    Clients = {u1}
    Closers = {u1}
    CanUnplug = FALSE
    Slack = 0
    MaxDevice = 1
    MaxSends = 2
INVARIANTS
    SyncFirst
    MissedBound
CHECK_DEADLOCK FALSE
