SPECIFICATION FairSpec
CONSTANTS
    Users = {u1}
    Scanners = {s1}
    Ports = {p1}
    Readers = {r1, r2}
    MaxTransports = 2
    MaxPlugs = 2
PROPERTIES
    FoundAgain
CHECK_DEADLOCK FALSE
