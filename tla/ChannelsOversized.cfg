SPECIFICATION Spec
CONSTANTS
    Clients = {c1}
    NumSlots = 1
    Kinds = {"toolong"}
    MaxOpens = 1
    MaxData = 0
    MaxWrites = 0
    MaxClears = 0
INVARIANTS
    WaitsForAnOpen
CHECK_DEADLOCK FALSE
