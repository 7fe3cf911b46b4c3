\* One row, every operation, lossy network, crashes.
SPECIFICATION MCSpec
CONSTANTS
    n1 = n1
    p1 = p1
    h1 = h1
    h2 = h2
    c1 = c1
    c2 = c2
    NoId = NoId
    NoPort = NoPort
    NoConn = NoConn
    RowIds <- OneRow
    Ports <- OnePort
    Requests <- TwoRequests
    Conns <- TwoConns
    Ops = {"create", "update", "delete", "restart"}
    MayFail = TRUE
    MaxTasks = 3
    MaxFaults = 1
    MaxCrashes = 1
CONSTRAINT OneMishap
SYMMETRY Interchangeable
INVARIANTS RowIsFounded SuccessIsShown
PROPERTY DispatchSafe
CHECK_DEADLOCK FALSE
