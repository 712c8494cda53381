SPECIFICATION Spec
CONSTANTS
    Channels = 2
    Tick = 2
    Ring = 4
    Chunk = 2
    Chunks = 3
    ReadCap = 1
    BodyCap = 1
    PcmCap = 1
    MaxPending = 3
    MinBuffer = 2
    Clients = {cast}
    RingMax = 11
    Cushion = 5
    Frame = 4
    Sample = 2
    Buffer = 5
    ReadMax = 3
    MpegFrame = 3
    MaxWritten = 30
INVARIANTS StreamsOK StreamsStayAligned
PROPERTIES StreamsMoveForward SessionsEnd
CHECK_DEADLOCK FALSE
