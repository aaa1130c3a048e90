SPECIFICATION Spec
CONSTANTS
    Users = {}
    Scanners = {s1}
    Ports = {p1}
    Readers = {r1, r2}
    MaxTransports = 1
    MaxPlugs = 1
INVARIANTS
    DestructorNeedsNoPair
CHECK_DEADLOCK FALSE
