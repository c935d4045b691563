SPECIFICATION Spec
CONSTANTS
    a = a
    b = b
    None = None
    Streams = {a, b}
    Refusable = {b}
    MaxCalls = 2
    MaxOps = 5
    MaxHasty = 2
CHECK_DEADLOCK FALSE
INVARIANT Renegotiated
