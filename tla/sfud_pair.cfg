CONSTANTS
    t1 = t1
    t2 = t2
    Free = Free
    Threads = {t1, t2}
    Requests <- PairRequests
    Erasers <- OneEraser
    SfdpAvailable = FALSE
    WriteModes = {"page"}
    ChipSize = 16
    PageSize = 4
    RetryTimes = 1
    MaxCalls = 3
    Locking = TRUE
    MaxFaults = 0
    Slow = FALSE
    SizeMod = 64
SPECIFICATION Spec
PROPERTIES Atomic
