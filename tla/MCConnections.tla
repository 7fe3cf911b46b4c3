--------------------------- MODULE MCConnections ---------------------------
(* What the connections of a node go through: the limiter that admits them, *)
(* the limiter that slows them, the listener that hands them over, the      *)
(* session of a UDP client, the dialer to the next hop, and the connection  *)
(* to the master.  Each is looked at by itself, in its part of the          *)
(* behaviours.                                                              *)
EXTENDS ConnLimit, TLC

CONSTANTS
    None,
    Limiters, Values, Setups, Sources, Buf, Unlimited, Streamed, MaxBytes, MaxChanges, \* traffic
    Dialled, Callers, Wires, MaxBreaks,                 \* dialers
    Listened, Streams, Backlog, MaxFailures,           \* listeners
    Peers, Sessions, Waiting, QueueSize, MaxPackets,    \* UDP sessions
    Links, Receivers, Commands, MaxLosses,              \* connection to the master
    c1, g1, g2, u1, u2, u3, r1, r2, r3    \* those that are treated fairly

VARIABLES
    part,                                            \* who runs
    \* traffic
    setup, source, changed, toggled, changes, limit, service, connLims, hostLim, generator,
    ranger, reload, looking, cached, sent, rbuf, got,
    \* dialers
    dialer, callers, reachable, wire, session, mutex, caller, breaks, refused,
    \* listeners
    listener, bound, known, looping, muxed, stream, queue, errs, errsEnd, closed, accept,
    serve, state, failures, lost,
    \* UDP sessions
    keepalive, ses, pool, cqueue, loop, check, shut, packets, stray,
    \* connection to the master
    link, connected, main, recv, open, works, down, up, executed, losses

trafficVars  == <<setup, source, changed, toggled, changes, limit, service, connLims, hostLim,
                  generator, ranger, reload, looking, cached, sent, rbuf, got>>
dialVars     == <<dialer, callers, reachable, wire, session, mutex, caller, breaks, refused>>
listenVars   == <<listener, bound, known, looping, muxed, stream, queue, errs, errsEnd, closed,
                  accept, serve, state, failures, lost>>
udpVars      == <<keepalive, ses, pool, cqueue, loop, check, shut, packets, stray>>
linkVars     == <<link, connected, main, recv, open, works, down, up, executed, losses>>
allVars      == <<part, vars, trafficVars, dialVars, listenVars, udpVars, linkVars>>

-----------------------------------------------------------------------------
(* Two of three limits, with the limit of all below or above the other, or *)
(* a limit for one network only.                                           *)
Limits ==
    {"$" :> 2 @@ "$$" :> 1, "$" :> 1 @@ "net" :> 2, "net" :> 1}
Wide == CHOOSE t \in Limits : "$$" \in DOMAIN t

Setup(kind, scope, dir, use, slow) ==
    [kind |-> kind, scope |-> scope, dir |-> dir, use |-> use, slow |-> slow]
TrafficSetups ==
    {Setup("local", "service", "in", "conn", FALSE), Setup("local", "conn", "in", "conn", FALSE),
     Setup("local", "conn", "in", "readwriter", TRUE), Setup("http", "conn", "in", "conn", FALSE),
     Setup("grpc", "conn", "out", "conn", FALSE),
     Setup("local", "conn", "out", "readwriter", FALSE),
     Setup("http", "service", "out", "udp", FALSE), Setup("http", "service", "in", "udp", FALSE),
     Setup("grpc", "service", "in", "packet", FALSE),
     Setup("grpc", "service", "out", "packet", FALSE)}
Limited(s, c, h, n) == "service" :> s @@ "conn" :> c @@ "host" :> h @@ "net" :> n
TrafficSources ==
    {Limited(1, 0, 0, 0), Limited(0, 1, 0, 2), Limited(0, 0, 1, 2), Limited(0, 2, 0, 1)}
DialKinds ==
    {"tcp", "tls", "mtcp", "mtls", "kcp", "quic", "ssh", "sshd", "http2", "h2"}
ListenKinds ==
    {"tcp", "tls", "mtcp", "kcp", "ws", "mws", "dns", "http2", "h2", "http3", "wt", "rtcp", "tun"}

Traffic == INSTANCE TrafficLimit WITH
    Conns <- Streamed

Dialers == INSTANCE DialSession WITH
    Kinds <- Dialled, Conns <- Wires, kind <- dialer, users <- callers, conn <- wire

Listeners == INSTANCE ListenQueue WITH
    Kinds <- Listened, kind <- listener, session <- muxed

Udp == INSTANCE UdpSession WITH
    Backlog <- Waiting, closed <- shut

Reporter == INSTANCE NodeReporter WITH
    Conns <- Links, conn <- link

ASSUME PartsAssumption ==
    /\ Traffic!TrafficAssumption
    /\ Dialers!DialAssumption
    /\ Listeners!ListenAssumption
    /\ Udp!UdpAssumption
    /\ Reporter!ReporterAssumption

-----------------------------------------------------------------------------
(* Of a part that does not run, one initial state is enough.               *)
MCInit ==
    /\ part \in {"limits", "traffic", "dialers", "listeners", "udp", "link"}
    /\ Init
    /\ IF part = "limits" THEN rate => Cardinality(users) = 1 /\ table = Wide
       ELSE ~rate /\ users = Services /\ table = Wide
    /\ Traffic!Init
    /\ part # "traffic" => /\ setup = Setup("local", "service", "in", "conn", FALSE)
                           /\ source = Limited(1, 0, 0, 0)
    /\ Dialers!Init
    /\ part # "dialers" => dialer = "tcp" /\ callers = {g1}
    /\ Listeners!Init
    /\ part # "listeners" => listener = "tcp"
    /\ Udp!Init
    /\ part # "udp" => keepalive
    /\ Reporter!Init

Limit(A) == part = "limits" /\ A
            /\ UNCHANGED <<part, trafficVars, dialVars, listenVars, udpVars, linkVars>>
Slow(A)  == part = "traffic" /\ A
            /\ UNCHANGED <<part, vars, dialVars, listenVars, udpVars, linkVars>>
Dial(A)  == part = "dialers" /\ A
            /\ UNCHANGED <<part, vars, trafficVars, listenVars, udpVars, linkVars>>
Listen(A) == part = "listeners" /\ A
            /\ UNCHANGED <<part, vars, trafficVars, dialVars, udpVars, linkVars>>
Session(A) == part = "udp" /\ A
            /\ UNCHANGED <<part, vars, trafficVars, dialVars, listenVars, linkVars>>
Report(A) == part = "link" /\ A
            /\ UNCHANGED <<part, vars, trafficVars, dialVars, listenVars, udpVars>>

MCNext ==
    \/ Limit(Next)
    \/ Slow(Traffic!Next)
    \/ Dial(Dialers!Next)
    \/ Listen(Listeners!Next)
    \/ Session(Udp!Next)
    \/ Report(Reporter!Next)

(* Bound: limits are reloaded under one service that closes once, with two *)
(* connections at a time.                                                  *)
ReloadBound ==
    gen > 0 => /\ Cardinality(users) = 1 /\ twice = {} /\ ~rate
               /\ Cardinality({c \in Conns : conn[c].pc # "idle"}) <= 2

\* The fairness of the modules.  As "part" never changes, fairness of a
\* disjunction is fairness of each side in its own behaviours.
MCFairness ==
    /\ WF_allVars(Slow(Traffic!Reload) \/ Dial(Dialers!Step(g1)) \/ Listen(Listeners!Serving)
                   \/ Session(Udp!Loop) \/ Report(Reporter!Loop))
    /\ WF_allVars(Slow(Traffic!LookUp(c1)) \/ Dial(Dialers!Step(g2))
                   \/ Listen(closed /\ Listeners!SocketError)
                   \/ Session(Udp!Check) \/ Report(Reporter!Receiver(r1)))
    /\ WF_allVars(Dial(Dialers!Return)
                   \/ Listen((closed \/ Listeners!K.source = "device") /\ Listeners!Listening)
                   \/ Session(loop.pc # "ended" /\ Udp!Accept) \/ Report(Reporter!Receiver(r2)))
    /\ WF_allVars(Dial(dialer \in {"ssh", "sshd", "wt"} /\ Dialers!Notice)
                   \/ Session(Udp!Reading(u1)) \/ Report(Reporter!Receiver(r3)))
    /\ WF_allVars(Session(Udp!Reading(u2)))
    /\ WF_allVars(Session(Udp!Reading(u3)))
    /\ SF_allVars(Listen(Listeners!TakeStream))
    /\ SF_allVars(Listen(Listeners!TakeError))

MCSpec == MCInit /\ [][MCNext]_allVars /\ MCFairness

-----------------------------------------------------------------------------
(* Every variable keeps its type; those of the parts that do not run keep  *)
(* their values.                                                           *)
TypesOK ==
    CASE part = "limits"    -> TypeOK
      [] part = "traffic"   -> Traffic!TypeOK
      [] part = "dialers"   -> Dialers!TypeOK
      [] part = "listeners" -> Listeners!TypeOK
      [] part = "udp"       -> Udp!TypeOK
      [] part = "link"      -> Reporter!TypeOK /\ Reporter!FlagHasConnection

(* No place of a limiter and no byte of a connection is lost on the way.   *)
NothingIsLost ==
    /\ part = "limits" => PlacesComeBack
    /\ part = "traffic" => Traffic!BytesInOrder

(* A working session is kept and no connection left behind; a UDP peer has *)
(* one session; an accept loop never meets a connection that is not there. *)
SessionsAreRight ==
    /\ Dialers!WorkingIsKept
    /\ [](part = "dialers" => Dialers!NothingIsLeft)
    /\ [](part = "udp" => Udp!OneSession)
    /\ [](part = "listeners" => Listeners!NeverCrashes /\ Listeners!EndsOnlyWhenClosed)

(* Who dials gets through again after the peer was away, who waits in the  *)
(* queue of a listener is served, and a lost connection to the master is   *)
(* replaced.  (As "part" never changes, this is GetsThrough of DialSession,*)
(* QueuedIsServed of ListenQueue and ComesBack of NodeReporter.)           *)
EverybodyIsServed ==
    []<>(/\ part = "dialers" => Dialers!Through
         /\ part = "listeners" => Listeners!AllServed
         /\ part = "link" => Reporter!Reporting)

(* A closed listener ends, a silent UDP session is closed, and a new limit *)
(* reaches open connections (CloseEnds, SilentIsClosed and LimitArrives).  *)
EverythingSettles ==
    <>[](/\ part = "listeners" => Listeners!Ended
         /\ part = "udp" => Udp!AllClosed
         /\ part = "traffic" => Traffic!InForce)
=============================================================================
