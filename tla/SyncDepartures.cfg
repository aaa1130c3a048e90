SPECIFICATION Spec
CONSTANTS
    Ops = {"push", "push_dir", "pull", "pull_buffer"}
    NumFiles = 2
    Contents <- MCContents
INVARIANTS
    SentIsWhole
    LengthIsReturned
    DirectoryIsPulled
    FileIsCreated
CHECK_DEADLOCK FALSE
