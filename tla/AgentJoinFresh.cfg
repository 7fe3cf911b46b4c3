\* No rotation (one agent token): a second join command for the same server.
SPECIFICATION Spec
CONSTANTS
    NoServer = NoServer
    NoMachine = NoMachine
    Servers = {s1}
    Machines = {m1}
    Conns = {c1}
    MaxCommands = 2
    MaxKeys = 1
PROPERTY FreshCommandWorks
