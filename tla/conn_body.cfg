SPECIFICATION BodySpec
CONSTANTS
    MaxFlow = 3
    MaxPacket = 2
    Writes = {1, 3}
    Consumers = {"flow", "pause"}
    Quota <- OneNone
    MaxBody = 6
    Chunk = 1
    BodySize = 6
INVARIANTS
    AckChain
    PausedIffFull
    SourceObeys
    WakeupComing
PROPERTIES
    EndArrives
    SenderWakes
    BodyArrives
CHECK_DEADLOCK FALSE
