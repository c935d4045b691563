SPECIFICATION Spec
CONSTANTS
    a = a
    b = b
    c = c
    p1 = p1
    p2 = p2
    p3 = p3
    s1 = s1
    s2 = s2
    s3 = s3
    NoPub = NoPub
    NoPath = NoPath
    Path = {a, b, c}
    Pub = {p1, p2, p3}
    Sub = {s1, s2}
    pubPath <- AThenBC
    subPath <- S1OnA
    ServerSub = {s1, s2}
    VodSub = {}
    KickExist = FALSE
    MaxPub = 0
    MaxSub = 0
    Regex <- AToB
    Requests <- Redirect
    ChangeTo = {}
CHECK_DEADLOCK FALSE
INVARIANTS HeldAtMostOnce
