\* Two servers, two machines, overlapping joins, commands and rotations; and
\* every operation of the task service.
SPECIFICATION MCSpec
CONSTANTS
    NoServer = NoServer
    NoMachine = NoMachine
    NoAgent = NoAgent
    NoConn = NoConn
    Servers = {s1, s2}
    Machines = {m1, m2}
    Conns = {c1, c2}
    e1 = e1
    e2 = e2
    a1 = a1
    a2 = a2
    MaxCommands = 2
    MaxKeys = 3
SYMMETRY Interchangeable
INVARIANTS SingleUse OneOwner JoinedIsLetIn
PROPERTY DispatchSafe
