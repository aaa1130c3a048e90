SPECIFICATION FairSpec
CONSTANTS
    Clients = {}
    Closers = {}
    CanUnplug = TRUE
    Slack = 5
    MaxDevice = 0
    MaxSends = 0
PROPERTIES
    QueuedIsTaken
CHECK_DEADLOCK FALSE
