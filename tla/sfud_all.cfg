CONSTANTS
    t1 = t1
    t2 = t2
    Free = Free
    Threads = {t1}
    Requests <- AllRequests
    Erasers <- TwoErasers
    SfdpAvailable = TRUE
    WriteModes = {"page", "aai"}
    ChipSize = 16
    PageSize = 4
    RetryTimes = 1
    MaxCalls = 1
    Locking = FALSE
    MaxFaults = 2
    Slow = TRUE
    SizeMod = 64
SPECIFICATION FairSpec
INVARIANTS TypeOK SuccessMeansDone ChipLeftIdle
PROPERTIES OutsideUntouched CallReturns
