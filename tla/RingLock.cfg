SPECIFICATION Spec
CONSTANTS
    s1 = s1
    s2 = s2
    s3 = s3
    r1 = r1
    r2 = r2
    Slots = {s1, s2, s3}
    Readers = {r1, r2}
CHECK_DEADLOCK FALSE
INVARIANTS NoDoubleUnlock NoOrphanLock WriterHoldsCur LockInv
