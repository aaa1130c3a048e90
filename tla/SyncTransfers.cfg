SPECIFICATION FairSpec
CONSTANTS
    Ops = {"push", "push_dir", "sync", "push_buffer", "pull", "pull_buffer"}
    NumFiles = 2
    Contents <- MCContents
INVARIANTS
    TypeOK
    PushSucceedsOnlyIfStored
    SyncLeavesNoDifference
    PulledIsWhole
PROPERTIES
    KeepsPromise
    EveryTransferEnds
CHECK_DEADLOCK FALSE
