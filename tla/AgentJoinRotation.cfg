\* A join that overlaps a rotation.
SPECIFICATION Spec
CONSTANTS
    NoServer = NoServer
    NoMachine = NoMachine
    Servers = {s1}
    Machines = {m1}
    Conns = {c1, c2}
    MaxCommands = 1
    MaxKeys = 2
INVARIANT RotationSticks
