CONSTANTS
    p1 = p1
    pm = pm
    NoThread = NoThread
    Threads = {p1, pm}
    Producers = {p1}
    Pump = pm
    Capacity = 2
    Calls <- SendCalls
    Items <- ItemRange
    MaxItems = 2
    PackageSizes = {2}
    CounterMod = 4
    Starts = {TRUE}
    Settings = {}
SPECIFICATION SendSpec
INVARIANTS SendsAllData
