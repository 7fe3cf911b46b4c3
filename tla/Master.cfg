\* Liveness: the engine under a fault and a crash while the console
\* deletes tasks, the node service when nothing is lost.
SPECIFICATION MCSpec
CONSTANTS
    a1 = a1
    s1 = s1
    c1 = c1
    c2 = c2
    n1 = n1
    p1 = p1
    p2 = p2
    h1 = h1
    h2 = h2
    NoId = NoId
    NoPort = NoPort
    NoServer = NoServer
    NoAgent = NoAgent
    NoConn = NoConn
    RowIds <- OneRow
    Ports <- TwoPorts
    Requests <- TwoRequests
    Conns <- OneConn
    Ops = {"create", "update", "delete"}
    MayFail = TRUE
    MaxTasks = 3
    MaxFaults = 0
    MaxCrashes = 0
INVARIANT NodeIsSettled
PROPERTIES DispatchSpec AgentComesRound UndisturbedIsReported PendingSettles
CHECK_DEADLOCK FALSE
