CONSTANTS
    rp = rp
    c1 = c1
    NoThread = NoThread
    Threads = {rp, c1}
    Pump = rp
    Consumer = c1
    Capacity = 2
    Calls <- ReceiveCalls
    Items <- ItemRange
    MaxDatagrams = 3
    SocketBuffer = 2
    MaxFailures = 1
    ReplyMod = 256
    Starts = {TRUE, FALSE}
    Settings = {TRUE, FALSE}
SPECIFICATION FairReceiveSpec
INVARIANTS ReceiveTypeOK Conserved QueryTrusted
PROPERTIES ReadIsDelivered
