CONSTANTS
    p1 = p1
    p2 = p2
    c1 = c1
    NoThread = NoThread
    Threads = {p1, p2, c1}
    Items = {0, 1}
    Capacity = 2
    Calls <- BlockingCalls
SPECIFICATION FairSpec
PROPERTIES BlockedDequeueServed
