----------------------------- MODULE DialSession ----------------------------
(***************************************************************************)
(* The dialers of a node that reach a peer.  Some make a connection for    *)
(* every call.  Some keep one session per address and open streams in it;  *)
(* those of mtcp, mtls and mws do it in two calls, Dial and Handshake, with*)
(* the lock released in between.  Some keep an HTTP or gRPC client that    *)
(* connects by itself.  A record per dialer says how it does it.           *)
(***************************************************************************)
EXTENDS Naturals, FiniteSets

CONSTANTS
    Kinds,      \* names of the dialers looked at
    Callers,    \* goroutines that dial the same address
    Conns,      \* identities of connections
    None,       \* no connection, no caller
    MaxBreaks   \* bound: how often the peer goes away

(* style: a connection per call, a session in one or two calls, or a client*)
(* asks: a session that says it is closed is forgotten before it is used   *)
(* drops: a session in which no stream can be opened is closed, forgotten  *)
(* opens: a call opens a stream;  probes: the client is made only when the *)
(* peer can be reached;  forgets: closing a connection forgets the client. *)
Plain == [style |-> "plain", asks |-> FALSE, drops |-> FALSE, opens |-> FALSE,
          shakes |-> FALSE, probes |-> FALSE, forgets |-> FALSE]
Mux == [Plain EXCEPT !.style = "session", !.opens = TRUE]
Client == [Plain EXCEPT !.style = "client", !.opens = TRUE]

Tcp == Plain
Udp == Plain
Unix == Plain
Serial == Plain
Wg == Plain
Ftcp == Plain
Tls == [Plain EXCEPT !.shakes = TRUE]
Dtls == [Plain EXCEPT !.shakes = TRUE]
Ws == [Plain EXCEPT !.shakes = TRUE]
ObfsHttp == Plain
ObfsTls == Plain
Mtcp == [Mux EXCEPT !.style = "two", !.asks = TRUE, !.drops = TRUE]
Mtls == [Mux EXCEPT !.style = "two", !.asks = TRUE, !.drops = TRUE, !.shakes = TRUE]
Mws == [Mux EXCEPT !.style = "two", !.asks = TRUE, !.drops = TRUE, !.shakes = TRUE]
Kcp == [Mux EXCEPT !.asks = TRUE, !.drops = TRUE]
Quic == [Mux EXCEPT !.drops = TRUE, !.shakes = TRUE]
Icmp == [Mux EXCEPT !.drops = TRUE, !.shakes = TRUE]
Ssh == [Mux EXCEPT !.asks = TRUE, !.shakes = TRUE]
Sshd == [Mux EXCEPT !.asks = TRUE, !.opens = FALSE, !.shakes = TRUE]
Wt == [Mux EXCEPT !.asks = TRUE, !.shakes = TRUE]
Http2 == [Client EXCEPT !.opens = FALSE, !.probes = TRUE, !.forgets = TRUE]
H2 == Client
Http3 == Client
Grpc == Client
Pht == Client

Dialer ==
    [tcp |-> Tcp, udp |-> Udp, unix |-> Unix, serial |-> Serial, wg |-> Wg, ftcp |-> Ftcp,
     tls |-> Tls, dtls |-> Dtls, ws |-> Ws, obfshttp |-> ObfsHttp, obfstls |-> ObfsTls,
     mtcp |-> Mtcp, mtls |-> Mtls, mws |-> Mws, kcp |-> Kcp, quic |-> Quic, icmp |-> Icmp,
     ssh |-> Ssh, sshd |-> Sshd, wt |-> Wt, http2 |-> Http2, h2 |-> H2, http3 |-> Http3,
     grpc |-> Grpc, pht |-> Pht]

DialAssumption ==
    /\ Kinds \subseteq DOMAIN Dialer
    /\ None \notin Conns \cup Callers
    /\ MaxBreaks \in Nat

VARIABLES
    kind,      \* the dialer
    users,     \* the callers there are
    reachable, \* the peer answers
    conn,      \* connection -> none, open, broken (the peer is gone) or closed
    session,   \* sessions[addr]: [conn, up, dead], or NoSession
    mutex,     \* the caller in the dialer's lock
    caller,    \* caller -> [pc, conn]
    breaks,
    refused    \* history: a connector has refused a stream of a working session

vars == <<kind, users, reachable, conn, session, mutex, caller, breaks, refused>>

D == Dialer[kind]
NoSession == [conn |-> None, up |-> FALSE, dead |-> FALSE]
Idle == [pc |-> "idle", conn |-> None]
InLock == {"dial", "init", "shake", "open"}

Init ==
    /\ kind \in Kinds
    /\ users \in SUBSET Callers \ {{}}
    /\ reachable = TRUE
    /\ conn = [c \in Conns |-> "none"]
    /\ session = NoSession
    /\ mutex = None
    /\ caller = [p \in Callers |-> Idle]
    /\ breaks = 0
    /\ refused = FALSE

Close(c) == IF c = None THEN conn ELSE [conn EXCEPT ![c] = "closed"]
Works(c) == c # None /\ conn[c] = "open"
Go(p, pc, c) == caller' = [caller EXCEPT ![p] = [pc |-> pc, conn |-> c]]
Fail(p) == Go(p, "idle", None)

(* muxSession.IsClosed: also of a session that is not there yet.           *)
IsClosed(s) == D.asks /\ (~s.up \/ s.dead)
Has == session # NoSession

-----------------------------------------------------------------------------
(* Dial takes the lock, and looks for a session or a client.               *)
Dial(p) ==
    LET s == IF Has /\ IsClosed(session) THEN NoSession ELSE session IN
    /\ D.style # "plain"
    /\ p \in users /\ caller[p].pc = "idle"
    /\ mutex = None
    /\ session' = s
    /\ IF s = NoSession THEN Go(p, "dial", None) /\ mutex' = p
       ELSE IF D.style = "two" THEN Go(p, "handshake", s.conn) /\ UNCHANGED mutex
       ELSE Go(p, "open", s.conn) /\ mutex' = p
    /\ UNCHANGED <<kind, users, reachable, conn, breaks, refused>>

Referenced == {session.conn} \cup {caller[p].conn : p \in Callers}
Connect(p, pc, c) ==
    /\ conn[c] \in {"none", "closed"} /\ c \notin Referenced
    /\ conn' = [conn EXCEPT ![c] = "open"]
    /\ Go(p, pc, c)

(* A session in two calls is put in its place before there is any.         *)
DialConn(p) ==
    /\ caller[p].pc = "dial" /\ D.style # "client"
    /\ IF ~reachable
       THEN Fail(p) /\ mutex' = None /\ UNCHANGED <<conn, session>>
       ELSE \E c \in Conns :
            IF D.style = "two"
            THEN /\ Connect(p, "handshake", c)
                 /\ session' = [NoSession EXCEPT !.conn = c]
                 /\ mutex' = None
            ELSE Connect(p, "init", c) /\ UNCHANGED <<session, mutex>>
    /\ UNCHANGED <<kind, users, reachable, breaks, refused>>

MakeClient(p) ==
    /\ caller[p].pc = "dial" /\ D.style = "client"
    /\ IF D.probes /\ ~reachable
       THEN Fail(p) /\ mutex' = None /\ UNCHANGED session
       ELSE /\ session' = [NoSession EXCEPT !.up = TRUE]
            /\ Go(p, "open", None)
            /\ UNCHANGED mutex
    /\ UNCHANGED <<kind, users, reachable, conn, breaks, refused>>

InitSession(p) ==
    LET c == caller[p].conn IN
    /\ caller[p].pc = "init"
    /\ IF D.shakes /\ ~Works(c)
       THEN /\ conn' = Close(c)
            /\ Fail(p) /\ mutex' = None
            /\ UNCHANGED session
       ELSE /\ session' = [conn |-> c, up |-> TRUE, dead |-> FALSE]
            /\ Go(p, "open", c)
            /\ UNCHANGED <<conn, mutex>>
    /\ UNCHANGED <<kind, users, reachable, breaks, refused>>

(* Mutant: the connection of a call that came too late is left as it is.   *)
Handshake_Leaves(p) ==
    LET c == caller[p].conn IN
    /\ caller[p].pc = "handshake"
    /\ mutex = None
    /\ IF Has /\ session.conn # c
       THEN Fail(p) /\ UNCHANGED mutex
       ELSE /\ Go(p, IF session.up THEN "open" ELSE "shake", c)
            /\ mutex' = p
    /\ UNCHANGED <<kind, users, reachable, conn, session, breaks, refused>>

(* Handshake takes the lock again and looks whether the session is still   *)
(* the one of its connection.                                              *)
Handshake(p) ==
    LET c == caller[p].conn IN
    /\ caller[p].pc = "handshake"
    /\ mutex = None
    /\ IF Has /\ session.conn # c
       THEN conn' = Close(c) /\ Fail(p) /\ UNCHANGED mutex
       ELSE /\ Go(p, IF session.up THEN "open" ELSE "shake", c)
            /\ mutex' = p
            /\ UNCHANGED conn
    /\ UNCHANGED <<kind, users, reachable, session, breaks, refused>>

Shake(p) ==
    LET c == caller[p].conn IN
    /\ caller[p].pc = "shake"
    /\ IF D.shakes /\ ~Works(c)
       THEN /\ conn' = Close(c)
            /\ session' = NoSession
            /\ Fail(p) /\ mutex' = None
       ELSE /\ session' = [conn |-> c, up |-> TRUE, dead |-> FALSE]
            /\ Go(p, "open", c)
            /\ UNCHANGED <<conn, mutex>>
    /\ UNCHANGED <<kind, users, reachable, breaks, refused>>

(* Mutant: a session in which no stream can be opened is kept.             *)
Open_Keeps(p) ==
    LET c == caller[p].conn
        can == ~D.opens \/ (IF D.style = "client" THEN reachable ELSE Works(c)) IN
    /\ caller[p].pc = "open"
    /\ mutex' = None
    /\ IF can THEN Go(p, "use", c) ELSE Fail(p)
    /\ UNCHANGED <<kind, users, reachable, conn, session, breaks, refused>>

(* GetConn, OpenChannel, OpenStream or a request of the client.            *)
Open(p) ==
    LET c == caller[p].conn
        can == ~D.opens \/ (IF D.style = "client" THEN reachable ELSE Works(c)) IN
    /\ caller[p].pc = "open"
    /\ mutex' = None
    /\ IF can THEN Go(p, "use", c) /\ UNCHANGED <<conn, session>>
       ELSE /\ Fail(p)
            /\ session' = IF D.drops THEN NoSession ELSE session
            /\ conn' = IF D.drops THEN Close(c) ELSE conn
    /\ UNCHANGED <<kind, users, reachable, breaks, refused>>

(* The connector shakes hands over the stream; when it refuses, the route  *)
(* closes what Dial returned: the stream, or of a session in two calls the *)
(* connection that all its streams share.                                  *)
Refuse(p) ==
    /\ caller[p].pc = "use" /\ Has
    /\ Fail(p)
    /\ conn' = IF D.style = "two" THEN Close(caller[p].conn) ELSE conn
    /\ refused' = (refused \/ (D.style = "two" /\ Works(caller[p].conn)))
    /\ UNCHANGED <<kind, users, reachable, session, mutex, breaks>>

Done(p) ==
    /\ D.style # "plain"
    /\ caller[p].pc = "use"
    /\ Fail(p)
    /\ session' = IF D.forgets THEN NoSession ELSE session
    /\ UNCHANGED <<kind, users, reachable, conn, mutex, breaks, refused>>

(* Dialers that make a connection for every call; what fails is closed by  *)
(* the handshake or by the route.                                          *)
DialPlain(p) ==
    /\ D.style = "plain"
    /\ p \in users /\ caller[p].pc = "idle" /\ reachable
    /\ \E c \in Conns : Connect(p, IF D.shakes THEN "shakeplain" ELSE "use", c)
    /\ UNCHANGED <<kind, users, reachable, session, mutex, breaks, refused>>

ShakePlain(p) ==
    LET c == caller[p].conn IN
    /\ caller[p].pc = "shakeplain"
    /\ IF Works(c) THEN Go(p, "use", c) /\ UNCHANGED conn
       ELSE Fail(p) /\ conn' = Close(c)
    /\ UNCHANGED <<kind, users, reachable, session, mutex, breaks, refused>>

DonePlain(p) ==
    /\ D.style = "plain"
    /\ caller[p].pc = "use"
    /\ Fail(p)
    /\ conn' = Close(caller[p].conn)
    /\ UNCHANGED <<kind, users, reachable, session, mutex, breaks, refused>>

-----------------------------------------------------------------------------
(* The peer goes away, and is back.                                        *)
Break ==
    /\ reachable /\ breaks < MaxBreaks
    /\ reachable' = FALSE
    /\ breaks' = breaks + 1
    /\ conn' = [c \in Conns |-> IF conn[c] = "open" THEN "broken" ELSE conn[c]]
    /\ UNCHANGED <<kind, users, session, mutex, caller, refused>>
Return ==
    /\ ~reachable
    /\ reachable' = TRUE
    /\ UNCHANGED <<kind, users, conn, session, mutex, caller, breaks, refused>>

(* The session finds out: Wait of an ssh session, the idle time of quic, a *)
(* keep-alive of the multiplexer if there is one.                          *)
Notice ==
    /\ session.up /\ ~session.dead
    /\ session.conn # None /\ conn[session.conn] \in {"broken", "closed"}
    /\ session' = [session EXCEPT !.dead = TRUE]
    /\ conn' = Close(session.conn)
    /\ UNCHANGED <<kind, users, reachable, mutex, caller, breaks, refused>>

Step(p) ==
    \/ Dial(p) \/ DialConn(p) \/ MakeClient(p) \/ InitSession(p) \/ Handshake(p)
    \/ Shake(p) \/ Open(p) \/ Done(p) \/ DialPlain(p) \/ ShakePlain(p) \/ DonePlain(p)
Next ==
    \/ \E p \in Callers : Step(p) \/ Refuse(p)
    \/ Break \/ Return \/ Notice

(* Callers dial again, the peer comes back, and the sessions of ssh, sshd  *)
(* and wt find out that they are dead.                                     *)
Fairness ==
    /\ \A p \in Callers : WF_vars(Step(p))
    /\ WF_vars(Return)
    /\ WF_vars(kind \in {"ssh", "sshd", "wt"} /\ Notice)
Spec == Init /\ [][Next]_vars /\ Fairness

-----------------------------------------------------------------------------
TypeOK ==
    /\ kind \in Kinds
    /\ conn \in [Conns -> {"none", "open", "broken", "closed"}]
    /\ session \in [conn : Conns \cup {None}, up : BOOLEAN, dead : BOOLEAN]
    /\ mutex \in Callers \cup {None}
    /\ \A p \in Callers : (caller[p].pc \in InLock) <=> (mutex = p)

(* When nobody is dialing, no connection is left open but that of the      *)
(* session and those in use: however calls overlap and fail, a connection  *)
(* that was supplanted by another call is closed.                          *)
NothingIsLeft ==
    (\A p \in Callers : caller[p].pc \in {"idle", "use"}) =>
        \A c \in Conns : conn[c] \in {"open", "broken"} => c \in Referenced

(* Dialers close a session that works for no caller, unless a connector    *)
(* refuses a stream of a session that was made in two calls.               *)
WorkingIsKept ==
    [][~refused' /\ session.up /\ Works(session.conn)
         => conn'[session.conn] # "closed" /\ session'.conn = session.conn]_vars

(* A caller has got through, but for two of a session made in two calls,   *)
(* which can keep each other from it.                                      *)
Through ==
    (D.style = "two" => Cardinality(users) = 1)
        => \E p \in users : caller[p].pc = "use" /\ reachable
                            /\ (caller[p].conn = None \/ Works(caller[p].conn))

(* After the peer has gone away and is back, a caller that goes on dialing *)
(* gets through again, whatever is left of the session it had.             *)
GetsThrough == []<>Through
=============================================================================
