----------------------------- MODULE TunnelPool -----------------------------
(***************************************************************************)
(* The tunnel handler of the nodes, for one tunnel.  A client binds: its   *)
(* connection becomes a multiplexed session, a connector, which a node     *)
(* keeps in the tunnel of its connector pool and announces in a directory  *)
(* (the sd plugin) all nodes ask.  A visitor is given a stream of a        *)
(* connector of the node it came to or, when that has none, is sent to the *)
(* entry point of a node the directory names.                              *)
(***************************************************************************)
EXTENDS Naturals, FiniteSets

CONSTANTS
    Nodes,
    Connectors,   \* each the session of one bind of a client
    Visitors,
    Kinds,        \* what a connector can be: [net, top], top the greatest weight
    Retry         \* how often a connector of the pool is tried

Networks == {"tcp", "udp"}
ASSUME TunnelAssumption ==
    /\ Kinds \subseteq [net : Networks, top : BOOLEAN]
    /\ Retry \in Nat \ {0}
    /\ "no tunnel" \notin Connectors

VARIABLES
    home,      \* connector -> the node it binds at
    kind,      \* connector -> what it is
    entry,     \* the nodes that announce the address of an entry point
    phase,     \* connector -> how far handleBind has come
    up,        \* the connectors whose session is not closed
    watch,     \* connector -> its waitClose goroutine
    pool,      \* node -> its tunnel, a set of connectors, or NoTunnel
    shut,      \* the nodes whose handler has been closed
    sd,        \* the connectors announced in the directory
    dial,      \* visitor -> its dial
    losses     \* visitor -> a session was lost during its dial

config == <<home, kind, entry>>
binding == <<phase, watch>>
dialing == <<dial, losses>>
vars == <<home, kind, entry, phase, up, watch, pool, shut, sd, dial, losses>>

NoTunnel == {"no tunnel"}
Members(n) == IF pool[n] = NoTunnel THEN {} ELSE pool[n]
NoOne == "none"
NoDial == [pc |-> "idle", node |-> NoOne, net |-> "tcp", second |-> FALSE,
           try |-> 0, failed |-> FALSE, conn |-> NoOne, near |-> FALSE,
           hope |-> FALSE, misled |-> FALSE]
DialRecords ==
    [pc : {"idle", "try", "open", "lookup", "dial", "connected", "served", "failed"},
     node : Nodes \cup {NoOne}, net : Networks, second : BOOLEAN, try : 0..Retry,
     failed : BOOLEAN, conn : Connectors \cup {NoOne}, near : BOOLEAN, hope : BOOLEAN,
     misled : BOOLEAN]

Init ==
    /\ home \in [Connectors -> Nodes]
    /\ kind \in [Connectors -> Kinds]
    /\ entry \in SUBSET Nodes
    /\ phase = [c \in Connectors |-> "new"]
    /\ up = {}
    /\ watch = [c \in Connectors |-> "none"]
    /\ pool = [n \in Nodes |-> NoTunnel]
    /\ shut = {}
    /\ sd = {}
    /\ dial = [v \in Visitors |-> NoDial]
    /\ losses = [v \in Visitors |-> FALSE]

Go(c, from, to) == phase[c] = from /\ phase' = [phase EXCEPT ![c] = to]
Lost(v) == losses[v] \/ dial[v].pc # "idle"

-----------------------------------------------------------------------------
(* A client asks; the node answers and makes the session.                  *)
Bind(c) ==
    /\ home[c] \notin shut
    /\ Go(c, "new", "asked")
    /\ UNCHANGED <<config, up, watch, pool, shut, sd, dialing>>

NewConnector(c) ==
    /\ Go(c, "asked", "made")
    /\ up' = up \cup {c}
    /\ watch' = [watch EXCEPT ![c] = "accept"]
    /\ UNCHANGED <<config, pool, shut, sd, dialing>>

(* Mutant: the tunnel that is not there yet is not made.                   *)
PoolAdd_Into(c) ==
    /\ Go(c, "made", "added")
    /\ pool' = [pool EXCEPT ![home[c]] = @ \cup {c}]
    /\ UNCHANGED <<config, up, watch, shut, sd, dialing>>

PoolAdd(c) ==
    /\ Go(c, "made", "added")
    /\ pool' = [pool EXCEPT ![home[c]] = Members(home[c]) \cup {c}]
    /\ UNCHANGED <<config, up, watch, shut, sd, dialing>>

(* The directory may refuse; the handler only logs it.  "late": the session *)
(* had ended, and was withdrawn, before it was announced.                  *)
Register(c) ==
    /\ \/ Go(c, "added", IF watch[c] \in {"gone", "kept"} THEN "late" ELSE "done") /\ sd' = sd \cup {c}
       \/ Go(c, "added", "done") /\ UNCHANGED sd
    /\ UNCHANGED <<config, up, watch, pool, shut, dialing>>

(* The client, or the network, ends the session.                           *)
SessionEnds(c) ==
    /\ c \in up
    /\ up' = up \ {c}
    /\ losses' = [v \in Visitors |-> Lost(v)]
    /\ UNCHANGED <<config, binding, pool, shut, sd, dial>>

(* waitClose: Accept fails, the session is closed and withdrawn.           *)
WaitClose(c) ==
    /\ watch[c] = "accept"
    /\ c \notin up
    /\ watch' = [watch EXCEPT ![c] = "closed"]
    /\ UNCHANGED <<config, phase, up, pool, shut, sd, dialing>>

(* Mutant: the connector is not withdrawn.                                 *)
Deregister_Not(c) ==
    /\ watch[c] = "closed"
    /\ watch' = [watch EXCEPT ![c] = "gone"]
    /\ UNCHANGED <<config, phase, up, pool, shut, sd, dialing>>

(* The directory may refuse that too, and nobody looks at the answer.      *)
Deregister(c) ==
    /\ watch[c] = "closed"
    /\ \/ watch' = [watch EXCEPT ![c] = "gone"] /\ sd' = sd \ {c}
       \/ watch' = [watch EXCEPT ![c] = "kept"] /\ UNCHANGED sd
    /\ UNCHANGED <<config, phase, up, pool, shut, dialing>>

(* Tunnel.clean; the directory may forget what is not renewed.             *)
Clean(n) ==
    /\ Members(n) \ up # {}
    /\ pool' = [pool EXCEPT ![n] = @ \cap up]
    /\ UNCHANGED <<config, binding, up, shut, sd, dialing>>

Expire(c) ==
    /\ c \in sd
    /\ \A n \in Nodes : c \notin Members(n)
    /\ sd' = sd \ {c}
    /\ UNCHANGED <<config, binding, up, pool, shut, dialing>>

(* Mutant: a tunnel whose connectors were counted before the last came.    *)
CloseIdles_Counted(n) ==
    /\ n \notin shut
    /\ Cardinality(Members(n)) <= 1
    /\ pool' = [pool EXCEPT ![n] = NoTunnel]
    /\ UNCHANGED <<config, binding, up, shut, sd, dialing>>

CloseIdles(n) ==
    /\ n \notin shut
    /\ pool[n] = {}
    /\ pool' = [pool EXCEPT ![n] = NoTunnel]
    /\ UNCHANGED <<config, binding, up, shut, sd, dialing>>

(* Handler.Close closes the entry point and the sessions of the pool.      *)
Close(n) ==
    /\ n \notin shut
    /\ shut' = shut \cup {n}
    /\ up' = up \ Members(n)
    /\ pool' = [pool EXCEPT ![n] = NoTunnel]
    /\ losses' = [v \in Visitors |-> Lost(v)]
    /\ UNCHANGED <<config, binding, sd, dial>>

-----------------------------------------------------------------------------
(* Tunnel.GetConnector: a connector that is alone serves every network; of *)
(* several those of the network, and of these first the ones of greatest   *)
(* weight.                                                                 *)
Fitting(n, net) == {c \in Members(n) \cap up : kind[c].net = net}

(* Mutant: the closed ones are not passed over.                            *)
GetConnector_Any(n, net) ==
    IF Cardinality(Members(n)) = 1 THEN Members(n)
    ELSE {c \in Members(n) : kind[c].net = net}

GetConnector(n, net) ==
    LET top == {c \in Fitting(n, net) : kind[c].top} IN
    IF Cardinality(Members(n)) = 1 THEN Members(n) \cap up
    ELSE IF top # {} THEN top ELSE Fitting(n, net)

(* The connectors that a visitor of n can hope for.                        *)
Hope(n, net) ==
    Fitting(n, net) \cup UNION {Fitting(m, net) \cap sd : m \in entry \ (shut \cup {n})}

Set(v, d) == dial' = [dial EXCEPT ![v] = d]
OnlyDial == UNCHANGED <<config, binding, up, pool, shut, sd, losses>>

(* A visitor whom the ingress rules, or the id it knows, lead to the tunnel.*)
Visit(v) ==
    /\ dial[v].pc = "idle"
    /\ \E n \in Nodes \ shut, net \in Networks :
         Set(v, [NoDial EXCEPT !.pc = "try", !.node = n, !.net = net,
                               !.near = Fitting(n, net) # {}, !.hope = Hope(n, net) # {}])
    /\ OnlyDial

(* Dialer.Dial: when a connector failed, the directory is not asked.       *)
Get(v) ==
    LET d == dial[v]
        found == GetConnector(d.node, d.net) IN
    /\ d.pc = "try"
    /\ \/ \E c \in found : d.try < Retry /\ Set(v, [d EXCEPT !.pc = "open", !.conn = c])
       \/ /\ found = {} \/ d.try = Retry
          /\ Set(v, [d EXCEPT !.pc = IF d.failed \/ d.second THEN "failed" ELSE "lookup"])
    /\ OnlyDial

GetConn(v) ==
    LET d == dial[v] IN
    /\ d.pc = "open"
    /\ Set(v, IF d.conn \in up
              THEN [NoDial EXCEPT !.pc = "connected", !.node = d.node, !.conn = d.conn]
              ELSE [d EXCEPT !.pc = "try", !.try = @ + 1, !.failed = TRUE, !.conn = NoOne])
    /\ OnlyDial

(* What a directory may announce that cannot be reached.                   *)
Stale(c) == c \notin up \/ home[c] \in shut \/ home[c] \notin entry

(* The first service of another node counts, in any order, even if it has  *)
(* no address.  The directory may fail, or there is none.                  *)
Lookup(v) ==
    LET d == dial[v]
        services == {c \in sd : home[c] # d.node /\ kind[c].net = d.net} IN
    /\ d.pc = "lookup"
    /\ \/ services = {} /\ Set(v, [d EXCEPT !.pc = "failed"])
       \/ Set(v, [d EXCEPT !.pc = "failed", !.misled = TRUE])
       \/ \E c \in services :
            Set(v, [d EXCEPT !.pc = IF home[c] \in entry THEN "dial" ELSE "failed",
                             !.node = home[c], !.misled = @ \/ Stale(c)])
    /\ OnlyDial

(* entrypoint.handleConnect: the other node looks into its pool only.  The *)
(* network may fail on the way to it.                                      *)
DialNode(v) ==
    LET d == dial[v] IN
    /\ d.pc = "dial"
    /\ \/ d.node \notin shut /\ Set(v, [d EXCEPT !.pc = "try", !.second = TRUE])
       \/ Set(v, [d EXCEPT !.pc = "failed", !.misled = TRUE])
    /\ OnlyDial

(* The client accepts the stream and reads whom it is from.                *)
PeerAccept(v) ==
    /\ dial[v].pc = "connected"
    /\ dial[v].conn \in up
    /\ Set(v, [dial[v] EXCEPT !.pc = "served"])
    /\ OnlyDial

End(v) ==
    /\ \/ dial[v].pc \in {"served", "failed"}
       \/ dial[v].pc = "connected" /\ dial[v].conn \notin up
    /\ Set(v, NoDial)
    /\ losses' = [losses EXCEPT ![v] = FALSE]
    /\ UNCHANGED <<config, binding, up, pool, shut, sd>>

Binding(c) == NewConnector(c) \/ PoolAdd(c) \/ Register(c)
Watching(c) == WaitClose(c) \/ Deregister(c)
Dialing(v) == Get(v) \/ GetConn(v) \/ Lookup(v) \/ DialNode(v) \/ PeerAccept(v) \/ End(v)
Next ==
    \/ \E c \in Connectors : Bind(c) \/ Binding(c) \/ SessionEnds(c) \/ Watching(c) \/ Expire(c)
    \/ \E n \in Nodes : Clean(n) \/ CloseIdles(n) \/ Close(n)
    \/ \E v \in Visitors : Visit(v) \/ Dialing(v)

(* Goroutines run on, tickers tick.  Nobody makes a directory forget.      *)
Fairness ==
    /\ \A c \in Connectors : WF_vars(Binding(c)) /\ WF_vars(Watching(c))
    /\ \A n \in Nodes : WF_vars(Clean(n)) /\ WF_vars(CloseIdles(n))
    /\ \A v \in Visitors : WF_vars(Dialing(v))
Spec == Init /\ [][Next]_vars /\ Fairness

-----------------------------------------------------------------------------
TypeOK ==
    /\ home \in [Connectors -> Nodes]
    /\ kind \in [Connectors -> Kinds]
    /\ entry \subseteq Nodes
    /\ phase \in [Connectors -> {"new", "asked", "made", "added", "done", "late"}]
    /\ up \subseteq Connectors
    /\ watch \in [Connectors -> {"none", "accept", "closed", "gone", "kept"}]
    /\ pool \in [Nodes -> {NoTunnel} \cup SUBSET Connectors]
    /\ shut \subseteq Nodes
    /\ sd \subseteq Connectors
    /\ dial \in [Visitors -> DialRecords]
    /\ losses \in [Visitors -> BOOLEAN]
    /\ \A v \in Visitors : /\ dial[v].pc # "idle" => dial[v].node \in Nodes
                           /\ dial[v].pc = "open" => dial[v].try < Retry

(* A session that is up can be given to visitors: from the time its bind   *)
(* added it, the tunnel of its node holds it, whatever the clean-up of     *)
(* closed connectors and of idle tunnels does meanwhile.                   *)
LiveIsReachable ==
    \A c \in up : phase[c] \in {"added", "done", "late"} => c \in Members(home[c])

(* A visitor fails only when there is no connector it can hope for, when a *)
(* session was lost during its dial, or when there was none at the node it *)
(* came to and the directory misled it: it did not answer, or named a dead *)
(* connector first, or a node that has no entry point or cannot be reached.*)
(* A closed connector that is still in the tunnel, or a tunnel without one *)
(* that fits, does not hide others.                                        *)
VisitorsGetThrough ==
    \A v \in Visitors :
        dial[v].pc = "failed" /\ ~losses[v] /\ dial[v].hope => dial[v].misled /\ ~dial[v].near

NoneDead ==
    /\ \A c \in Connectors, n \in Nodes : c \in Members(n) => c \in up
    /\ \A c \in sd : c \in up \/ phase[c] = "late" \/ watch[c] = "kept"

(* A dead connector leaves the tunnel, and the directory unless it was     *)
(* announced only after it had been withdrawn, or the directory refused to *)
(* withdraw it; every dial ends.                                           *)
DeadLeaves == <>[]NoneDead /\ \A v \in Visitors : []<>(dial[v].pc = "idle")
=============================================================================
