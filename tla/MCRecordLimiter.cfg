SPECIFICATION FairSpec
CONSTANTS
    a1 = a1
    b1 = b1
    b2 = b2
    Requests = {a1, b1, b2}
    AutoRecords = {a1}
    Max = 1
    QueueFactor = 2
CHECK_DEADLOCK FALSE
INVARIANTS LimiterInv SlotAccounting NoIdleSlot
PROPERTIES Fifo WaitEnds SlotsComeBack
