SPECIFICATION FairSpec
CONSTANTS
    a = a
    b = b
    None = None
    Streams = {a, b}
    Refusable = {b}
    MaxCalls = 2
    MaxOps = 5
    MaxHasty = 2
CHECK_DEADLOCK FALSE
INVARIANTS TypeOK Agreement MapIsRight CameraWhilePublishing
PROPERTIES ConnectSettles CallsSettle
