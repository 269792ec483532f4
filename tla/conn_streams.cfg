SPECIFICATION SpecTwo
CONSTANTS
    MaxFlow = 2
    MaxPacket = 2
    Writes = {3}
    Consumers = {"flow", "pause", "bounce"}
    Quota <- TwoOne
    MaxBody = 3
INVARIANTS
    NoProtocolError
PROPERTIES
    ImplementsStreams
CHECK_DEADLOCK FALSE
