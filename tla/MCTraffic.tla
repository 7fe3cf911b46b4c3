----------------------------- MODULE MCTraffic -----------------------------
(* The way of a visitor's bytes through a node: the tables that a request is *)
(* judged by, the route it takes, the handler and the relay that carry it,   *)
(* the tunnel that leads to a client, and the count that the user pays for.  *)
(* Each is looked at by itself, in its part of the behaviours.               *)
EXTENDS FlowCount, Sequences, TLC

CONSTANTS
    TableKinds, Sources, Closable, Static, Contents, Unreadable, Rooms, Lookups, Probes,
    MaxEdits,                                                        \* tables
    Dialers, Nets, MaxFails, Retries, Turns, MaxDials, MaxFlips, \* routes
    HandlerCases, Header, Obstacles,                                 \* handler
    RelayCases, MaxRequests, MaxFrames,                              \* relay
    TunnelNodes, Connectors, Visitors, TunnelKinds, Retry,           \* tunnel
    f1, f2, p1, p2, d1, d2, n1, n2, k1, v     \* those that are treated fairly

VARIABLES
    part,                                \* who runs
    \* tables
    tableKind, room, content, table, spare, reload, looping, gone, lookup, edits, made,
    \* route
    net, strategy, reachable, fails, expired, counter, via, session, dial, dials, changes,
    \* handler
    kind, opt, talk, way, pc, proto, dest, client, server, sent, in, br, rest, back, replied,
    open,
    \* relay
    case, relayPc, cur, asked, requests, link, todo, down, buf, frames, got, here, lost,
    \* tunnel
    home, connector, entry, phase, up, watch, pool, shut, sd, visit, losses

tableVars   == <<tableKind, room, content, table, spare, reload, looping, gone, lookup, edits,
                 made>>
routeVars   == <<net, strategy, reachable, fails, expired, counter, via, session, dial,
                 dials, changes>>
handlerVars == <<kind, opt, talk, way, pc, proto, dest, client, server, sent, in, br, rest,
                 back, replied, open>>
relayVars   == <<case, relayPc, cur, asked, requests, link, todo, down, buf, frames, got, here,
                 lost>>
tunnelVars  == <<home, connector, entry, phase, up, watch, pool, shut, sd, visit, losses>>
allVars     == <<part, vars, tableVars, routeVars, handlerVars, relayVars, tunnelVars>>

-----------------------------------------------------------------------------
Rules == INSTANCE NodeRules
Tables == INSTANCE NodeReload WITH
    Kinds <- TableKinds, MaxChanges <- MaxEdits,
    kind <- tableKind, closed <- gone, changes <- edits
Routes == INSTANCE NodeRoute WITH MaxChanges <- MaxFlips, up <- reachable
Handling == INSTANCE ProxyHandler WITH Cases <- HandlerCases
Relaying == INSTANCE HttpRelay WITH Cases <- RelayCases, pc <- relayPc, in <- requests
Tunnels == INSTANCE TunnelPool WITH
    Nodes <- TunnelNodes, Kinds <- TunnelKinds, kind <- connector, dial <- visit

ASSUME TrafficAssumption ==
    /\ Tables!ReloadAssumption
    /\ Routes!RouteAssumption
    /\ Handling!HandlerAssumption
    /\ Relaying!RelayAssumption
    /\ TunnelKinds \subseteq [net : Tunnels!Networks, top : BOOLEAN] /\ Retry \in Nat \ {0}
    /\ "no tunnel" \notin Connectors

-----------------------------------------------------------------------------
(* Tables: two sources, and rules for a domain and for a host below it.      *)
Rule(key, val) == [key |-> key, val |-> val]
TableFor(prefix) == <<Rule(Rules!Plain(<<"a">>), prefix)>>
AllTables  == {"admission", "bypass", "hosts", "ingress", "auther", "router", "hop"}
TwoSources == <<"file", "redis">>
Configured == TableFor("1")
Loadable   == {TableFor("2"), <<Rule(Rules!Dotted(<<"b">>), "1"),
                                Rule(Rules!Dotted(<<"a", "b">>), "3")>>}
SomeHosts  == {<<"a">>, <<"b">>, <<"a", "b">>, <<"c", "a", "b">>}

(* Routes: a chain of two hops with two nodes each, one of them a backup;    *)
(* the same with nodes that multiplex in both hops; two chains that meet in  *)
(* a node that multiplexes; and a group of two chains, with one target that  *)
(* is out of bounds for the only node of the first, and nodes that differ in *)
(* priority in the second.                                                   *)
Simple ==
    [hops |-> [x |-> <<<<"a1", "a2">>, <<"b1", "b2">>>>], groups |-> [s |-> <<"x">>],
     backups |-> {"a2"}, mux |-> {}, priority |-> [a1 |-> 0, a2 |-> 0, b1 |-> 0, b2 |-> 0],
     excluded |-> [t |-> {}], strategies |-> {"round"}]
Twice == [Simple EXCEPT !.mux = {"a1", "b1"}, !.strategies = {"fifo"}]
Joined ==
    [Twice EXCEPT !.hops = [x |-> <<<<"a1">>, <<"b1">>>>, y |-> <<<<"a2">>, <<"b1", "b2">>>>],
                  !.groups = [s |-> <<"x">>, r |-> <<"y">>], !.backups = {}, !.mux = {"b1"}]
Grouped ==
    [hops |-> [x |-> <<<<"a1">>>>, y |-> <<<<"b1", "b2">>>>], groups |-> [s |-> <<"x", "y">>],
     backups |-> {}, mux |-> {}, priority |-> [a1 |-> 0, b1 |-> 1, b2 |-> 0],
     excluded |-> [t |-> {}, u |-> {"a1"}], strategies |-> {"round", "fifo"}]
Overlays == {Simple, Twice, Joined, Grouped}

(* Handler: talks that the client begins and talks that the server begins.   *)
Option(sniffing, timeout, fallback) ==
    [sniffing |-> sniffing, timeout |-> timeout, fallback |-> fallback]
Options ==
    {Option(FALSE, FALSE, FALSE), Option(TRUE, FALSE, FALSE), Option(TRUE, TRUE, FALSE)}
Talks ==
    [script : {<<"c", "c", "s", "c">>}, proto : {"http", "h2c", "tls"}, half : {"none"}]
    \cup [script : {<<"c", "c", "s">>}, proto : {"http", "h2c", "tls"}, half : {"c"}]
    \cup [script : {<<"c", "c", "s">>, <<"s", "c", "s">>, <<"c", "s", "c", "s">>},
          proto : {"raw"}, half : {"none", "c", "s"}]
AllHandlers ==
    [kind : {"http", "http2", "relay", "forward", "ss", "sshd", "redirect", "tcp", "rtcp",
             "sni", "unix"},
     opt : Options, talk : Talks]
    \cup [kind : {"redirect"}, opt : {Option(TRUE, FALSE, TRUE), Option(TRUE, TRUE, TRUE)},
          talk : Talks]
Way == {"rate", "auth", "asked", "named", "noroute", "nohost"}
InTheWay == {{}} \cup {{w} : w \in Way}
    \cup {{"nohost", "asked"}, {"nohost", "noroute"}, {"asked", "named"}}

(* Relay: servers that send interim responses, or a frame at once.           *)
AllRelays ==
    [mode : {"http", "entrypoint", "sniffer", "forwarder"}, interim : BOOLEAN, early : BOOLEAN]
    \cup [mode : {"unix"}, interim : {FALSE}, early : BOOLEAN]

(* Tunnel: one connector, which can reach either of two nodes.               *)
TcpAndUdp == [net : {"tcp", "udp"}, top : {FALSE}]

(* What the kinds of tables answer, against the rules they were made from:   *)
(* any rule admits or bypasses, the last entry of a user counts and the first*)
(* route, and a pattern matches when a rule that covers the host has the port.*)
Names == {Rules!Plain(<<"a">>), Rules!Dotted(<<"b">>)}
RuleLists == UNION {[1..i -> {Rule(k, w) : k \in Names, w \in {"", "1", "2"}}] : i \in 0..2}
ASSUME AnswersFollowRules ==
    \A static, loaded \in RuleLists, k \in Names :
        LET rules == static \o loaded
            at == {i \in DOMAIN rules : rules[i].key = k} IN
        /\ Rules!Admit(Rules!ReloadAdmission(static, loaded), FALSE, k) = (at = {})
        /\ Rules!Bypassed(Rules!ReloadBypass(static, loaded), TRUE, k) = (at = {})
        /\ Rules!Authenticate(Rules!ReloadAuther(static, loaded), k, "1")
             = \E i \in at : rules[i].val \in {"", "1"} /\ \A j \in at : j <= i
        /\ Rules!GetRoute(Rules!ReloadRouter(static, loaded), k)
             = IF at = {} THEN Rules!Nothing
               ELSE rules[CHOOSE i \in at : \A j \in at : i <= j].val
ASSUME PatternsMatch ==
    \A t \in [Names \cup {Rules!Dotted(<<"a", "b">>)} -> SUBSET {80, 443}],
       host \in {<<"a">>, <<"b">>, <<"a", "b">>, <<"c", "a", "b">>} :
        Rules!AddrMatch(t, host, 80) = \E k \in DOMAIN t : Rules!Covers(k, host) /\ 80 \in t[k]
ASSUME GroupsAnswer ==
    \A x, y \in [whitelist : BOOLEAN, applies : BOOLEAN] :
        Rules!GroupBypassed(<<x, y>>) =
            \/ (x.applies /\ ~x.whitelist) \/ (y.applies /\ ~y.whitelist)
            \/ /\ x.whitelist \/ y.whitelist
               /\ (x.whitelist => x.applies) /\ (y.whitelist => y.applies)

-----------------------------------------------------------------------------
(* Of a part that does not run, one initial state is enough.                 *)
SomeCase == CHOOSE c \in HandlerCases : TRUE
MCInit ==
    /\ part \in {"flow", "tables", "routes", "handler", "relay", "tunnel"}
    /\ Init
    /\ Tables!Init
    /\ part # "tables" => /\ tableKind = CHOOSE k \in TableKinds : TRUE
                          /\ \A r \in Rooms : tableKind \in Tables!Lists => room <= r
                          /\ \A s \in DOMAIN content : content[s] = Unreadable
    /\ Routes!Init
    /\ part # "routes" => /\ net = CHOOSE n \in Nets : TRUE
                          /\ strategy = CHOOSE s \in net.strategies : TRUE
                          /\ reachable = Routes!Nodes
    /\ Handling!Init
    /\ part # "handler" => /\ kind = Handling!Handler[SomeCase.kind]
                           /\ opt = SomeCase.opt /\ talk = SomeCase.talk
                           /\ way = CHOOSE w \in Obstacles : TRUE
    /\ Relaying!Init
    /\ part # "relay" => case = CHOOSE c \in RelayCases : TRUE
    /\ Tunnels!Init /\ home[k1] = n1 /\ entry \in {TunnelNodes, {n2}}
    /\ part # "tunnel" => connector[k1].net = "tcp" /\ entry = TunnelNodes

Flow(A)   == part = "flow" /\ A
             /\ UNCHANGED <<part, tableVars, routeVars, handlerVars, relayVars, tunnelVars>>
Table(A)  == part = "tables" /\ A
             /\ UNCHANGED <<part, vars, routeVars, handlerVars, relayVars, tunnelVars>>
Route(A)  == part = "routes" /\ A
             /\ UNCHANGED <<part, vars, tableVars, handlerVars, relayVars, tunnelVars>>
Handle(A) == part = "handler" /\ A
             /\ UNCHANGED <<part, vars, tableVars, routeVars, relayVars, tunnelVars>>
Pass(A)   == part = "relay" /\ A
             /\ UNCHANGED <<part, vars, tableVars, routeVars, handlerVars, tunnelVars>>
Tunnel(A) == part = "tunnel" /\ A
             /\ UNCHANGED <<part, vars, tableVars, routeVars, handlerVars, relayVars>>

MCNext ==
    \/ Flow(Next)
    \/ Table(Tables!Next)
    \/ Route(Routes!Next)
    \/ Handle(Handling!Next)
    \/ Pass(Relaying!Next)
    \/ Tunnel(Tunnels!Next)

\* The fairness of the modules.  As "part" never changes, fairness of a
\* disjunction is fairness of each side in its own behaviours.
MCFairness ==
    /\ WF_allVars(Flow(Reporter(f1)) \/ Table(Tables!Tick)
                   \/ Route(Routes!Step(d1))
                   \/ Handle(Handling!ClientSends) \/ Pass(Relaying!Handle)
                   \/ Tunnel(Tunnels!Binding(k1)))
    /\ WF_allVars(Flow(Reporter(f2)) \/ Table(Tables!Reloading)
                   \/ Route(Routes!Step(d2))
                   \/ Handle(Handling!ServerSends) \/ Pass(Relaying!ServerAnswers)
                   \/ Tunnel(Tunnels!Watching(k1)))
    /\ WF_allVars(Flow(Handler(p1)) \/ Handle(Handling!Handle) \/ Tunnel(Tunnels!Clean(n1)))
    /\ WF_allVars(Flow(Handler(p2)) \/ Tunnel(Tunnels!Clean(n2)))
    /\ WF_allVars(Tunnel(Tunnels!CloseIdles(n1)))
    /\ WF_allVars(Tunnel(Tunnels!CloseIdles(n2)))
    /\ WF_allVars(Tunnel(Tunnels!Dialing(v)))
    /\ SF_allVars(Table(Tables!Stop))

MCSpec == MCInit /\ [][MCNext]_allVars /\ MCFairness

-----------------------------------------------------------------------------
(* Every variable keeps its type; those of the parts that do not run keep    *)
(* their values.                                                             *)
TypesOK ==
    CASE part = "flow"    -> TypeOK
      [] part = "tables"  -> Tables!TypeOK
      [] part = "routes"  -> Routes!TypeOK
      [] part = "handler" -> Handling!TypeOK
      [] part = "relay"   -> Relaying!TypeOK
      [] part = "tunnel"  -> Tunnels!TypeOK

(* A dial with a good chance gets through, and through every hop.            *)
RoutesAreRight == part = "routes" => Routes!RetriesFindTheWay /\ Routes!StaysOnChain

(* No look-up sees a table that nobody made, or misses the most specific rule*)
(* of a table that is not replaced meanwhile.                                *)
ChangesAreWhole == part = "tables" => Tables!OneTable /\ Tables!MostSpecificWins

(* Each side hears what the other said, no bypassed destination is dialled   *)
(* that somebody looked at, and each request gets its answer.                *)
TalkIsKept ==
    /\ part = "handler" => Handling!TalkIsKept /\ Handling!BypassedIsNotDialled
    /\ part = "relay" => Relaying!AnswersMatch

(* What the master and the sources of the tables say comes into force: the   *)
(* limit of the user, new rules, and the end of an object.                   *)
MasterIsObeyed ==
    <>[](/\ part = "flow" => Enforced
         /\ part = "tables" => Tables!Current /\ Tables!Stopped)

(* Talks come to their end, requests are answered, dials end, and no dead    *)
(* connector stays where a visitor may be sent to it.  (As "part" never      *)
(* changes, these are TalksEnd of ProxyHandler, NobodyWaits of HttpRelay,    *)
(* DialsEnd of NodeRoute and DeadLeaves of TunnelPool.)                      *)
EverybodyGetsThrough ==
    /\ <>[](/\ part = "handler" => Handling!TalkOver
            /\ part = "tunnel" => Tunnels!NoneDead)
    /\ []<>(/\ part = "routes" => Routes!Ended(d1)
            /\ part = "relay" => Relaying!Answered
            /\ part = "tunnel" => visit[v].pc = "idle")
    /\ []<>(part = "routes" => Routes!Ended(d2))
=============================================================================
