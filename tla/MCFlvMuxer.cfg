SPECIFICATION MuxSpec
CONSTANTS
    Tracks = {"audio", "video"}
    Times <- Instants
    KeyInterval = 2
    MaxEra = 1
    DefaultBuffer = 16
    MinGrowth = 4
    LongString = 11
    MaxSessions = 2
    BodyLen = 2
CHECK_DEADLOCK FALSE
INVARIANTS FileReadsBack Decodable
