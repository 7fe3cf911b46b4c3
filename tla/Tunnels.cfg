\* Three nodes with two connectors and a visitor; two connections to the master.
SPECIFICATION MCSpec
CONSTANTS
    n1 = n1
    n2 = n2
    n3 = n3
    c1 = c1
    c2 = c2
    Nodes <- Three
    Connectors <- Both
    Visitors = {v}
    Kinds <- Two
    Retry = 2
    LinkConns = {1, 2}
    Receivers = {r1, r2}
    Commands = {k1}
    NoConn = NoConn
    MaxLost = 1
SYMMETRY Interchangeable
INVARIANTS TypesOK LinkIsRight LiveIsReachable VisitorsGetThrough
CHECK_DEADLOCK FALSE
