SPECIFICATION Spec
CONSTANTS
    Users = {u1, u2}
    Scanners = {s1}
    Ports = {p1}
    Readers = {r1, r2}
    MaxTransports = 1
    MaxPlugs = 1
INVARIANTS
    ConstructionIsSafe
CHECK_DEADLOCK FALSE
