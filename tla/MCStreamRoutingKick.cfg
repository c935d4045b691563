SPECIFICATION FairSpec
CONSTANTS
    a = a
    b = b
    c = c
    p1 = p1
    p2 = p2
    p3 = p3
    s1 = s1
    s2 = s2
    s3 = s3
    NoPub = NoPub
    NoPath = NoPath
    Path = {b}
    Pub = {p1, p2, p3}
    Sub = {s1, s2}
    pubPath <- AllOnB
    subPath <- SubsOnB
    ServerSub = {s1, s2}
    VodSub = {}
    KickExist = TRUE
    MaxPub = 0
    MaxSub = 0
    Regex <- NoRegex
    Requests = {}
    ChangeTo = {}
CHECK_DEADLOCK FALSE
INVARIANTS StreamsInv
PROPERTIES NobodyHangs KickEnds
