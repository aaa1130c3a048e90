SPECIFICATION Spec
CONSTANTS
    Clients = {c1}
    NumSlots = 1
    Kinds = {"shell"}
    MaxOpens = 2
    MaxData = 0
    MaxWrites = 0
    MaxClears = 0
INVARIANTS
    ConnectWaitsForTheAnswer
CHECK_DEADLOCK FALSE
