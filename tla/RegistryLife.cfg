SPECIFICATION Spec
CONSTANTS
    Users = {u1, u2}
    Scanners = {s1, s2}
    Ports = {p1}
    Readers = {r1, r2}
    MaxTransports = 2
    MaxPlugs = 1
INVARIANTS
    TypeOK
    OneHandlePerInterface
SYMMETRY Symmetry
CHECK_DEADLOCK FALSE
