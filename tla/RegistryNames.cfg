SPECIFICATION Spec
CONSTANTS
    Users = {u1}
    Scanners = {s1}
    Ports = {p1}
    Readers = {r1, r2}
    MaxTransports = 1
    MaxPlugs = 1
INVARIANTS
    NameListIsSafe
CHECK_DEADLOCK FALSE
