\* One node: two services, three connections from two hosts; one connection
\* with limits; two callers of a dialer; three streams; one UDP client; three
\* connections to the master.
SPECIFICATION MCSpec
CONSTANTS
    Services = {s1, s2}
    Conns = {k2, k3, k4}
    Hosts = {"h1", "h2"}
    Global = "$"
    PerIP = "$$"
    Net = "net"
    InNet = {"h2"}
    Tables <- Limits
    Closers = {}
    Rates = {TRUE, FALSE}
    MaxBelow = 0
    MaxReloads = 1
    None = None
    c1 = c1
    g1 = g1
    g2 = g2
    u1 = u1
    u2 = u2
    u3 = u3
    r1 = r1
    r2 = r2
    r3 = r3
    Streamed = {c1}
    Limiters = {l1, l2, l3, l4, l5, l6}
    Values = {0, 1, 2}
    Setups <- TrafficSetups
    Sources <- TrafficSources
    Buf = 2
    Unlimited = 20
    MaxBytes = 3
    MaxChanges = 1
    Dialled <- DialKinds
    Callers = {g1, g2}
    Wires = {d1, d2, d3}
    MaxBreaks = 1
    Listened <- ListenKinds
    Streams = {x, y, z}
    Backlog = 1
    MaxFailures = 1
    Peers = {peer}
    Sessions = {u1, u2, u3}
    Waiting = 1
    QueueSize = 1
    MaxPackets = 2
    Links = {1, 2, 3}
    Receivers = {r1, r2, r3}
    Commands = {k1}
    MaxLosses = 1
CONSTRAINT ReloadBound
INVARIANTS TypesOK LimitHolds NothingIsLost
PROPERTIES SessionsAreRight EverybodyIsServed EverythingSettles
CHECK_DEADLOCK FALSE
