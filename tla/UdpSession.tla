----------------------------- MODULE UdpSession -----------------------------
(***************************************************************************)
(* The UDP listener of a node (internal/net/udp): one socket, and for each *)
(* peer a session that looks like a connection.  The listen loop finds or  *)
(* makes the session of a packet; a pool keeps the sessions by peer and    *)
(* closes those that read nothing for a time; handlers read and answer.    *)
(***************************************************************************)
EXTENDS Naturals, Sequences, FiniteSets, SequencesExt

CONSTANTS
    Peers,       \* addresses of clients
    Sessions,    \* identities of sessions
    None,        \* no peer, no session
    Backlog,     \* length of the queue of sessions to accept
    QueueSize,   \* packets a session holds
    MaxPackets   \* bound: packets that arrive

UdpAssumption ==
    /\ None \notin Peers \cup Sessions
    /\ {Backlog, QueueSize, MaxPackets} \subseteq Nat

VARIABLES
    keepalive,  \* a session outlives its first answer
    ses,        \* session -> [peer, open, idle, packets, served]
    pool,       \* peer -> session
    cqueue,     \* sessions to accept
    loop,       \* the listen loop: [pc, peer, ses]
    check,      \* the idle check: [pc, todo, peer, ses]
    closed,     \* the listener is closed
    packets,    \* packets that have arrived
    stray       \* history: sessions that lost their place, or got it too late

vars == <<keepalive, ses, pool, cqueue, loop, check, closed, packets, stray>>

NoSession == [peer |-> None, open |-> FALSE, idle |-> FALSE, packets |-> 0, served |-> FALSE]
LoopIdle == [pc |-> "read", peer |-> None, ses |-> None]
CheckIdle == [pc |-> "wait", todo |-> {}, peer |-> None, ses |-> None]

Init ==
    /\ keepalive \in BOOLEAN
    /\ ses = [s \in Sessions |-> NoSession]
    /\ pool = [p \in Peers |-> None]
    /\ cqueue = <<>>
    /\ loop = LoopIdle
    /\ check = CheckIdle
    /\ closed = FALSE
    /\ packets = 0
    /\ stray = {}

Pooled == {pool[p] : p \in Peers}
Unused(s) ==
    /\ ~ses[s].open /\ ~ses[s].served
    /\ s \notin Pooled \cup ToSet(cqueue) \cup {loop.ses, check.ses}
Shut(s) == [ses EXCEPT ![s].open = FALSE]

-----------------------------------------------------------------------------
(* listenLoop: a packet is read, its session looked for.                   *)
ReadFrom(p) ==
    LET s == pool[p] IN
    /\ loop.pc = "read" /\ ~closed
    /\ packets < MaxPackets
    /\ packets' = packets + 1
    /\ loop' = IF s # None /\ ses[s].open
               THEN [pc |-> "write", peer |-> p, ses |-> s]
               ELSE [pc |-> "new", peer |-> p, ses |-> None]
    /\ UNCHANGED <<keepalive, ses, pool, cqueue, check, closed, stray>>

(* getConn: the new session goes to the accept queue, then into the pool.  *)
NewConn(s) ==
    /\ loop.pc = "new"
    /\ Unused(s)
    /\ IF Len(cqueue) < Backlog
       THEN /\ ses' = [ses EXCEPT ![s] =
                         [NoSession EXCEPT !.peer = loop.peer, !.open = TRUE]]
            /\ cqueue' = Append(cqueue, s)
            /\ loop' = [loop EXCEPT !.pc = "set", !.ses = s]
       ELSE loop' = LoopIdle /\ UNCHANGED <<ses, cqueue>>
    /\ UNCHANGED <<keepalive, pool, check, closed, packets, stray>>

PoolSet ==
    /\ loop.pc = "set"
    /\ pool' = [pool EXCEPT ![loop.peer] = loop.ses]
    /\ stray' = IF closed THEN stray \cup {loop.ses} ELSE stray
    /\ loop' = [loop EXCEPT !.pc = "write"]
    /\ UNCHANGED <<keepalive, ses, cqueue, check, closed, packets>>

(* WriteQueue: a packet for a full queue or a closed session is dropped.   *)
WriteQueue ==
    LET s == loop.ses IN
    /\ loop.pc = "write"
    /\ ses' = IF ses[s].open /\ ses[s].packets < QueueSize
              THEN [ses EXCEPT ![s].packets = @ + 1] ELSE ses
    /\ loop' = LoopIdle
    /\ UNCHANGED <<keepalive, pool, cqueue, check, closed, packets, stray>>

EndLoop ==
    /\ loop.pc = "read" /\ closed
    /\ loop' = [LoopIdle EXCEPT !.pc = "ended"]
    /\ UNCHANGED <<keepalive, ses, pool, cqueue, check, closed, packets, stray>>

(* Any error of the socket ends the loop; the sessions stay.               *)
ReadError ==
    /\ loop.pc = "read" /\ ~closed
    /\ loop' = [LoopIdle EXCEPT !.pc = "ended"]
    /\ UNCHANGED <<keepalive, ses, pool, cqueue, check, closed, packets, stray>>

-----------------------------------------------------------------------------
(* idleCheck goes through the entries of the pool; of one that is idle it  *)
(* deletes the key, whatever is there by then, and closes the session.     *)
Tick ==
    /\ check.pc = "wait" /\ ~closed
    /\ Pooled # {None}
    /\ check' = [CheckIdle EXCEPT !.pc = "visit", !.todo = {p \in Peers : pool[p] # None}]
    /\ UNCHANGED <<keepalive, ses, pool, cqueue, loop, closed, packets, stray>>

Visit(p) ==
    LET s == pool[p] IN
    /\ check.pc = "visit" /\ p \in check.todo
    /\ IF ses[s].idle
       THEN check' = [check EXCEPT !.todo = @ \ {p}, !.pc = "delete", !.peer = p, !.ses = s]
            /\ UNCHANGED ses
       ELSE check' = [check EXCEPT !.todo = @ \ {p}] /\ ses' = [ses EXCEPT ![s].idle = TRUE]
    /\ UNCHANGED <<keepalive, pool, cqueue, loop, closed, packets, stray>>

DeleteIdle ==
    LET p == check.peer IN
    /\ check.pc = "delete"
    /\ stray' = IF pool[p] \notin {None, check.ses} THEN stray \cup {pool[p]} ELSE stray
    /\ pool' = [pool EXCEPT ![p] = None]
    /\ check' = [check EXCEPT !.pc = "close"]
    /\ UNCHANGED <<keepalive, ses, cqueue, loop, closed, packets>>

CloseIdle ==
    /\ check.pc = "close"
    /\ ses' = Shut(check.ses)
    /\ check' = [check EXCEPT !.pc = "visit", !.peer = None, !.ses = None]
    /\ UNCHANGED <<keepalive, pool, cqueue, loop, closed, packets, stray>>

EndVisit ==
    /\ check.pc = "visit" /\ check.todo = {}
    /\ check' = CheckIdle
    /\ UNCHANGED <<keepalive, ses, pool, cqueue, loop, closed, packets, stray>>

-----------------------------------------------------------------------------
(* Handlers: a read makes a session busy; without keepalive an answer      *)
(* closes it; a handler that ends closes it as well.                       *)
Accept ==
    /\ cqueue # <<>> /\ ~closed
    /\ ses' = [ses EXCEPT ![Head(cqueue)].served = TRUE]
    /\ cqueue' = Tail(cqueue)
    /\ UNCHANGED <<keepalive, pool, loop, check, closed, packets, stray>>

Read(s) ==
    /\ ses[s].served /\ ses[s].packets > 0
    /\ ses' = [ses EXCEPT ![s].packets = @ - 1, ![s].idle = FALSE]
    /\ UNCHANGED <<keepalive, pool, cqueue, loop, check, closed, packets, stray>>

WriteTo(s) ==
    /\ ses[s].served /\ ses[s].open /\ ~keepalive
    /\ ses' = Shut(s)
    /\ UNCHANGED <<keepalive, pool, cqueue, loop, check, closed, packets, stray>>

HandlerEnds(s) ==
    /\ ses[s].served
    /\ ses' = [ses EXCEPT ![s].open = FALSE, ![s].served = FALSE]
    /\ UNCHANGED <<keepalive, pool, cqueue, loop, check, closed, packets, stray>>

(* Close closes the sessions of the pool.                                  *)
Close ==
    /\ ~closed
    /\ closed' = TRUE
    /\ ses' = [s \in Sessions |-> IF s \in Pooled THEN [ses[s] EXCEPT !.open = FALSE] ELSE ses[s]]
    /\ UNCHANGED <<keepalive, pool, cqueue, loop, check, packets, stray>>

Loop == (\E s \in Sessions : NewConn(s)) \/ PoolSet \/ WriteQueue \/ EndLoop
Check == Tick \/ (\E p \in Peers : Visit(p)) \/ DeleteIdle \/ CloseIdle \/ EndVisit
Reading(s) == Read(s) \/ (~ses[s].open /\ HandlerEnds(s))
Next ==
    \/ ReadError \/ \E p \in Peers : ReadFrom(p)
    \/ Loop \/ Check \/ Accept \/ Close
    \/ \E s \in Sessions : Read(s) \/ WriteTo(s) \/ HandlerEnds(s)

(* The loop and the ticker run; handlers read, and end when they are told. *)
(* When the socket has failed, the accept loop ends with it, sooner or     *)
(* later: sessions may be left in its queue.                               *)
Fairness ==
    /\ WF_vars(Loop) /\ WF_vars(Check) /\ WF_vars(loop.pc # "ended" /\ Accept)
    /\ \A s \in Sessions : WF_vars(Reading(s))
Spec == Init /\ [][Next]_vars /\ Fairness

-----------------------------------------------------------------------------
TypeOK ==
    /\ pool \in [Peers -> Sessions \cup {None}]
    /\ loop.pc \in {"read", "new", "set", "write", "ended"}
    /\ check.pc \in {"wait", "visit", "delete", "close"}
    /\ \A s \in Sessions : ses[s].packets \in 0..QueueSize
    /\ Len(cqueue) <= Backlog

(* A peer has one open session at most, but for sessions that lost their   *)
(* place to the idle check: it deletes the entry of a session it saw idle, *)
(* though a new one may be there by then.                                  *)
OneSession ==
    \A s, t \in Sessions \ stray :
        (s # t /\ ses[s].open /\ ses[t].open /\ check.ses \notin {s, t})
            => ses[s].peer # ses[t].peer

AllClosed == \A s \in Sessions \ stray : ~ses[s].open

(* When clients are silent, or the listener is closed, every session is    *)
(* closed at last, and its handler with it.                                *)
SilentIsClosed == <>[]AllClosed
=============================================================================
