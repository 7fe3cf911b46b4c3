\* Two agents of one server, lossy network, crashes, the console retrying.
SPECIFICATION Safe
CONSTANTS
    a1 = a1
    a2 = a2
    s1 = s1
    s2 = s2
    c1 = c1
    c2 = c2
    c3 = c3
    NoServer = NoServer
    NoAgent = NoAgent
    NoConn = NoConn
    Servers <- OneServer
    Agents <- TwoAgents
    Home <- SharedHome
    Conns <- TwoConns
    MaxTasks = 2
    MaxAttempts = 2
    ClaimTries = 2
    MaxFaults = 1
    MaxCrashes = 1
    ConsoleOps = {"retry", "delete", "rotate"}
SYMMETRY Interchangeable
INVARIANTS RunsAtMostOnce QueuedIsUntouched TruthfulVerdict
PROPERTIES DispatchSafe VerdictIsFinal
