\* Two services of one user; tables with two sources; two dialers of a chain;
\* one talk, one relay; two nodes with one connector and one visitor.
SPECIFICATION MCSpec
CONSTANTS
    Services = {f1, f2}
    Posts = {p1, p2}
    None = None
    Limit = 2
    MaxBytes = 2
    MaxFailures = 1
    TableKinds <- AllTables
    Sources <- TwoSources
    Closable = {"redis"}
    Static <- Configured
    Contents <- Loadable
    Unreadable = Unreadable
    Rooms = {0, 2}
    Lookups = {l}
    Probes <- SomeHosts
    MaxEdits = 1
    Dialers = {d1, d2}
    Nets <- Overlays
    MaxFails = 1
    Retries = 1
    Turns = 6
    MaxDials = 2
    MaxFlips = 1
    HandlerCases <- AllHandlers
    Header = 2
    Obstacles <- InTheWay
    RelayCases <- AllRelays
    MaxRequests = 3
    MaxFrames = 2
    TunnelNodes = {n1, n2}
    Connectors = {k1}
    Visitors = {v}
    TunnelKinds <- TcpAndUdp
    Retry = 2
    f1 = f1
    f2 = f2
    p1 = p1
    p2 = p2
    d1 = d1
    d2 = d2
    n1 = n1
    n2 = n2
    k1 = k1
    v = v
INVARIANTS TypesOK BilledOnce RoutesAreRight ChangesAreWhole TalkIsKept
PROPERTIES MasterIsObeyed EverybodyGetsThrough
CHECK_DEADLOCK FALSE
