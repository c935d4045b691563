SPECIFICATION Spec
CONSTANTS
    a = a
    b = b
    c = c
    p1 = p1
    p2 = p2
    p3 = p3
    s1 = s1
    s2 = s2
    s3 = s3
    NoPub = NoPub
    NoPath = NoPath
    Path = {a, b, c}
    Pub = {p1, p2, p3}
    Sub = {s1, s2, s3}
    pubPath <- P3OnC
    subPath <- S1OnA
    ServerSub = {s1, s2}
    VodSub = {s3}
    KickExist = FALSE
    MaxPub = 1
    MaxSub = 2
    Regex <- NoRegex
    Requests <- Create
    ChangeTo = {a, b}
CHECK_DEADLOCK FALSE
INVARIANTS Routed CountsMatch IdleMeansUnwatched NoMissedStream RightStream
