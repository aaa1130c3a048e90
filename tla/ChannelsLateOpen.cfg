SPECIFICATION FairSpec
CONSTANTS
    Clients = {c1}
    NumSlots = 1
    Kinds = {"forward"}
    MaxOpens = 1
    MaxData = 0
    MaxWrites = 0
    MaxClears = 1
PROPERTIES
    ConnectReturns
CHECK_DEADLOCK FALSE
