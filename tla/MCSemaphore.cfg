SPECIFICATION Spec
CONSTANTS
    Signallers = {s1, s2}
    Waiters = {w1, w2}
    InitialCount = 1
    MaxSignals = 5
    MaxTimeouts = 2
    MaxResets = 2
INVARIANTS
    TypeOK
    NoOrphanedPermit
    OverdraftBound
    TwoPassesPerSignal
SYMMETRY Symmetry
CHECK_DEADLOCK FALSE
