SPECIFICATION FairSpec
CONSTANTS
    Clients = {c1}
    NumSlots = 1
    Kinds = {"forward"}
    MaxOpens = 2
    MaxData = 1
    MaxWrites = 1
    MaxClears = 1
PROPERTIES
    CallsReturn
CHECK_DEADLOCK FALSE
