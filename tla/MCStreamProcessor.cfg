SPECIFICATION Spec
CONSTANTS
    Tracks = {"audio", "video"}
    Times <- Instants
    KeyInterval = 2
    MaxEra = 1
CHECK_DEADLOCK FALSE
INVARIANTS MergeInv InOrder NothingLost NoOverdueChunk
