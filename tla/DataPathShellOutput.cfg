SPECIFICATION Spec
CONSTANTS
    p1 = p1
    p2 = p2
    p3 = p3
    Packets = {p1, p2, p3}
    MaxPayload = 2
    Kinds = {"forward", "shell_async"}
    Sizes = {1, 3}
    MaxStreams = 2
    MaxSent = 3
    MaxWritten = 3
    MaxLines = 1
SYMMETRY Symmetry
CHECK_DEADLOCK FALSE
PROPERTIES
    ShellOutputIsWhole
