SPECIFICATION Spec
CONSTANTS
    Signallers = {s1}
    Waiters = {w1}
    InitialCount = 0
    MaxSignals = 2
    MaxTimeouts = 0
    MaxResets = 0
INVARIANTS
    NoOverdraft
CHECK_DEADLOCK FALSE
