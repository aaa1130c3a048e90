SPECIFICATION Spec
CONSTANTS
    p1 = p1
    p2 = p2
    p3 = p3
    Packets = {p1, p2, p3}
    MaxPayload = 2
    Kinds = {"forward", "shell_async"}
    Sizes = {2, 3}
    MaxStreams = 2
    MaxSent = 3
    MaxWritten = 3
    MaxLines = 1
SYMMETRY Symmetry
INVARIANTS
    TypeOK
    OneHolder
    PacketsComeBack
PROPERTIES
    DownSpec
    UpSpec
CHECK_DEADLOCK FALSE
