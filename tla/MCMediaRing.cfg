SPECIFICATION Spec
CONSTANTS
    s1 = s1
    s2 = s2
    s3 = s3
    s4 = s4
    s5 = s5
    s6 = s6
    s7 = s7
    r1 = r1
    r2 = r2
    None = None
    Slots = {s1, s2, s3, s4, s5, s6, s7}
    Readers = {r1, r2}
    Modes <- AllModes
    MinSize = 3
    MaxSize = 9
    Chunk = 1
    ReduceVol = 50
    BufferTime = 1
    SeqMod = 64
    MaxSeq = 5
    KeySeqs = {0, 2}
CHECK_DEADLOCK FALSE
INVARIANTS KeyFramesKept LastValueReady
PROPERTIES WholeFrames ForwardOnly RefinesLock
