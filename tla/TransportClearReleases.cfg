SPECIFICATION FairSpec
CONSTANTS
    Clients = {}
    Closers = {k1}
    CanUnplug = TRUE
    Slack = 0
    MaxDevice = 0
    MaxSends = 0
PROPERTIES
    ClearReleases
CHECK_DEADLOCK FALSE
