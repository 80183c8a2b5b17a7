CONSTANTS
    Devices <- All
    ChipTable <- KnownChips
    FourByteLimit = 16
    Width = 8
    RetryTimes = 2
    MaxFaults = 3
    MaxInits = 3
    MaxCrashes = 2
SPECIFICATION FairSpec
INVARIANTS InitTypeOK KnowsTheChip NotFoundIsTrue ReadyForWrites
PROPERTIES InitReturns
