CONSTANTS
    p1 = p1
    pm = pm
    NoThread = NoThread
    Threads = {p1, pm}
    Producers = {p1}
    Pump = pm
    Capacity = 2
    Calls <- SendCalls
    Items <- ItemRange
    MaxItems = 4
    PackageSizes = {0, 1, 2, 3}
    CounterMod = 4
    Starts = {TRUE, FALSE}
    Settings = {TRUE, FALSE}
SPECIFICATION FairSendSpec
INVARIANTS SendTypeOK SentOnceInOrder StopsSoon QueryTrusted
PROPERTIES AllSent
