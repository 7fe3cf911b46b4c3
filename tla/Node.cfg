\* One node: two services, two addresses; one authenticator and one hop.
SPECIFICATION MCSpec
CONSTANTS
    a = a
    b = b
    x = x
    y = y
    socket1 = socket1
    rest1 = rest1
    hup = hup
    o = o
    Names <- TwoNames
    Addrs <- TwoAddrs
    NoAddr = NoAddr
    Torn = Torn
    Sockets <- OneSocket
    Requests <- OneRequest
    Signals <- OneSignal
    MaxBatch = 2
    MaxInst = 4
    MaxCommands = 3
    MaxFaults = 1
    MaxCrashes = 1
CONSTRAINT OverlapBound
INVARIANTS TypesOK Stoppable ConfigMatchesRegistry FileIsConfig PausedIsClosed
    ObjectsAreInUse
CHECK_DEADLOCK FALSE
