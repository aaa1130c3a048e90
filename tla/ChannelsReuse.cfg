SPECIFICATION Spec
CONSTANTS
    Clients = {c1, c2}
    NumSlots = 1
    Kinds = {"shell"}
    MaxOpens = 3
    MaxData = 1
    MaxWrites = 0
    MaxClears = 0
INVARIANTS
    TypeOK
    NoCrossTalk
    FreeSlotIsSilent
    OneStreamPerSlot
    SlotsAreExclusive
PROPERTIES
    KeepsPromise
SYMMETRY Symmetry
CHECK_DEADLOCK FALSE
