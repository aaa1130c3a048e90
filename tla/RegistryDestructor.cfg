SPECIFICATION FairSpec
CONSTANTS
    Users = {u1}
    Scanners = {s1}
    Ports = {p1}
    Readers = {r1, r2}
    MaxTransports = 1
    MaxPlugs = 1
PROPERTIES
    DestructorReturns
CHECK_DEADLOCK FALSE
