\* One lost answer: a claimed task nobody executes.
SPECIFICATION Spec
CONSTANTS
    a1 = a1
    a2 = a2
    s1 = s1
    s2 = s2
    c1 = c1
    c2 = c2
    c3 = c3
    NoServer = NoServer
    NoAgent = NoAgent
    NoConn = NoConn
    Servers <- OneServer
    Agents <- OneAgent
    Home <- SoloHome
    Conns <- TwoConns
    MaxTasks = 1
    MaxAttempts = 1
    ClaimTries = 1
    MaxFaults = 1
    MaxCrashes = 0
    ConsoleOps = {}
PROPERTY ClaimedIsReported
