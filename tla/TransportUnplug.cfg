SPECIFICATION UnpluggedSpec
CONSTANTS
    Clients = {}
    Closers = {}
    CanUnplug = TRUE
    Slack = 0
    MaxDevice = 1
    MaxSends = 0
INVARIANTS
    TypeOK
    LastClearWakesReaders
    MissedBound
PROPERTIES
    ShutdownCompletes
CHECK_DEADLOCK FALSE
