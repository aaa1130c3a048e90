SPECIFICATION Spec
CONSTANTS
    Users = {u1}
    Scanners = {s1}
    Ports = {p1, p2}
    Readers = {r1, r2}
    MaxTransports = 2
    MaxPlugs = 2
INVARIANTS
    DestructorFindsNoUser
    NoThreadOutlives
SYMMETRY Symmetry
CHECK_DEADLOCK FALSE
