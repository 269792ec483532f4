SPECIFICATION FramingSpec
CONSTANTS
    Lines = {2, 3}
    HeaderLimit = 3
    Sizes = {0, 1, 2, 3}
    MaxPayload = 2
    TrailerSize = 2
    FirstBuf = 8
    SmallBuf = 4
    Pieces = {1, 3, 8}
    MaxPackets = 3
INVARIANTS
    HandedIsSent
    ReadsAll
CHECK_DEADLOCK FALSE
