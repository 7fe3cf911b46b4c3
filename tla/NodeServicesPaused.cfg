\* One service, one address, one REST request at a time.
SPECIFICATION Spec
CONSTANTS
    a = a
    x = x
    rest1 = rest1
    Names <- OneName
    Addrs <- OneAddr
    NoAddr = NoAddr
    Sockets = {}
    Requests <- OneRequest
    Signals = {}
    Torn = Torn
    MaxBatch = 1
    MaxInst = 2
    MaxCommands = 3
    MaxFaults = 0
    MaxCrashes = 0
INVARIANT PausedIsStopped
CHECK_DEADLOCK FALSE
