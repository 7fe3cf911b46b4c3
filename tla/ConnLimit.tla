----------------------------- MODULE ConnLimit ------------------------------
(***************************************************************************)
(* The connection limiter of a node (limiter/conn) and the rate limiter,   *)
(* which is built the same way (limiter/rate).  Services share a limiter   *)
(* by name.  A limiter turns a host into a group of counters: one for the  *)
(* host or its network, and one for everybody.  A connection that is       *)
(* accepted takes a place in every counter of its group and gives the      *)
(* places back when it is closed.                                          *)
(***************************************************************************)
EXTENDS Naturals, Integers, Sequences, FiniteSets, SequencesExt

CONSTANTS
    Services,   \* services that share the limiter; each accepts one at a time
    Conns,      \* connections
    Hosts,      \* the hosts they come from
    Global, PerIP, Net,  \* the keys "$", "$$" and a network
    InNet,      \* the hosts of the network
    Tables,     \* what the sources of the limits can say: functions key -> limit
    Closers,    \* connections whose handler may close them twice
    Rates,      \* the kind is "rate" (or "conn")
    MaxBelow,   \* bound: how far below zero counters are followed
    MaxReloads  \* bound: reloads

ASSUME LimitAssumption ==
    /\ IsFiniteSet(Services) /\ IsFiniteSet(Conns)
    /\ InNet \subseteq Hosts
    /\ Global \notin Hosts \cup {PerIP, Net}
    /\ Closers \subseteq Conns
    /\ Rates \subseteq BOOLEAN
    /\ \A t \in Tables : DOMAIN t \subseteq Hosts \cup {Global, PerIP, Net}
                         /\ \A k \in DOMAIN t : t[k] \in Nat \ {0}
    /\ MaxBelow \in Nat
    /\ MaxReloads \in Nat

VARIABLES
    rate,      \* a rate limiter: places are used up and come back with time
    users,     \* the services that use this limiter
    twice,     \* the connections that are closed twice
    table,     \* the limits in force
    gen,       \* which load of the limits they come from
    current,   \* counter -> places taken
    conn,      \* connection -> [pc, group, todo, held, closes]
    accepting  \* service -> connection it is accepting, or NoConn

vars == <<rate, users, twice, table, gen, current, conn, accepting>>

NoConn == "none"
Idle(c) == [pc |-> "idle", group |-> <<>>, todo |-> <<>>, held |-> {},
            closes |-> IF c \in twice THEN 2 ELSE 1]

(* A counter belongs to a load of the limits; that of a host, a network or *)
(* "$$" is made for each host.                                             *)
Counter(key, host) ==
    [gen |-> gen, key |-> key, host |-> host, limit |-> table[key]]

(* connLimiter.Limiter and newLimiterGroup: the smaller limit is first.    *)
Own(host) ==
    LET has(k) == k \in DOMAIN table IN
    IF has(host) THEN <<Counter(host, host)>>
    ELSE IF has(Net) /\ host \in InNet THEN <<Counter(Net, host)>>
    ELSE IF has(PerIP) THEN <<Counter(PerIP, host)>>
    ELSE <<>>
Everybody == IF Global \in DOMAIN table THEN <<Counter(Global, Global)>> ELSE <<>>
Group(host) ==
    IF Own(host) # <<>> /\ Everybody # <<>> /\ Everybody[1].limit < Own(host)[1].limit
    THEN Everybody \o Own(host) ELSE Own(host) \o Everybody

Taken(o) == IF o \in DOMAIN current THEN current[o] ELSE 0
Add(o, n) == [x \in DOMAIN current \cup {o} |-> Taken(x) + (IF x = o THEN n ELSE 0)]

(* A rate limiter has a burst of one more than the rate.                   *)
Places(o) == IF rate THEN o.limit + 1 ELSE o.limit

Init ==
    /\ rate \in Rates
    /\ users \in SUBSET Services \ {{}}
    /\ twice \in {{}, Closers}
    /\ table \in Tables
    /\ gen = 0
    /\ current = <<>>
    /\ conn = [c \in Conns |-> Idle(c)]
    /\ accepting = [s \in Services |-> NoConn]

-----------------------------------------------------------------------------
(* listener.Accept: the group is looked up under the lock of the limiter.  *)
Accept(s, c, host) ==
    /\ s \in users
    /\ accepting[s] = NoConn
    /\ conn[c].pc = "idle"
    /\ \A o \in ToSet(Group(host)) : Taken(o) + MaxBelow >= 0
    /\ IF Group(host) = <<>>
       THEN /\ conn' = [conn EXCEPT ![c].pc = "open"]
            /\ UNCHANGED accepting
       ELSE /\ conn' = [conn EXCEPT ![c].pc = "take", ![c].group = Group(host),
                                    ![c].todo = Group(host)]
            /\ accepting' = [accepting EXCEPT ![s] = c]
    /\ UNCHANGED <<rate, users, twice, table, gen, current>>

(* Mutant: the counter is compared before it is raised.                    *)
Allow_OffByOne(s) ==
    LET c == accepting[s]
        o == Head(conn[c].todo) IN
    /\ ~rate
    /\ c # NoConn
    /\ conn[c].pc = "take"
    /\ current' = Add(o, 1)
    /\ IF Taken(o) > Places(o)
       THEN /\ conn' = [conn EXCEPT ![c].pc = "undo"]
            /\ UNCHANGED accepting
       ELSE LET last == Len(conn[c].todo) = 1 IN
            /\ conn' = [conn EXCEPT ![c].pc = IF last THEN "open" ELSE "take",
                                    ![c].todo = Tail(@),
                                    ![c].held = @ \cup {o}]
            /\ accepting' = IF last THEN [accepting EXCEPT ![s] = NoConn] ELSE accepting
    /\ UNCHANGED <<rate, users, twice, table, gen>>

(* limiterGroup.Allow(1) of the connection limiter: an atomic addition at  *)
(* each counter, taken back when it was too much.                          *)
Allow(s) ==
    LET c == accepting[s]
        o == Head(conn[c].todo) IN
    /\ ~rate
    /\ c # NoConn
    /\ conn[c].pc = "take"
    /\ current' = Add(o, 1)
    /\ IF Taken(o) + 1 > Places(o)
       THEN /\ conn' = [conn EXCEPT ![c].pc = "undo"]
            /\ UNCHANGED accepting
       ELSE LET last == Len(conn[c].todo) = 1 IN
            /\ conn' = [conn EXCEPT ![c].pc = IF last THEN "open" ELSE "take",
                                    ![c].todo = Tail(@),
                                    ![c].held = @ \cup {o}]
            /\ accepting' = IF last THEN [accepting EXCEPT ![s] = NoConn] ELSE accepting
    /\ UNCHANGED <<rate, users, twice, table, gen>>

Undo(s) ==
    LET c == accepting[s]
        o == Head(conn[c].todo) IN
    /\ c # NoConn
    /\ conn[c].pc = "undo"
    /\ current' = Add(o, -1)
    /\ conn' = [conn EXCEPT ![c].pc = "giveback", ![c].todo = <<>>]
    /\ UNCHANGED <<rate, users, twice, table, gen, accepting>>

(* Mutant: only the counter that refused is taken back.                    *)
GiveBack_Nothing(s) ==
    LET c == accepting[s] IN
    /\ c # NoConn
    /\ conn[c].pc = "giveback"
    /\ conn' = [conn EXCEPT ![c].held = {}]
    /\ UNCHANGED <<rate, users, twice, table, gen, current, accepting>>

GiveBack(s) ==
    LET c == accepting[s] IN
    /\ c # NoConn
    /\ conn[c].pc = "giveback"
    /\ \E o \in conn[c].held :
         /\ current' = Add(o, -1)
         /\ conn' = [conn EXCEPT ![c].held = @ \ {o}]
    /\ UNCHANGED <<rate, users, twice, table, gen, accepting>>

(* The refused connection is closed and handed on without a place.         *)
Refuse(s) ==
    LET c == accepting[s] IN
    /\ c # NoConn
    /\ conn[c].pc = "giveback"
    /\ conn[c].held = {}
    /\ conn' = [conn EXCEPT ![c] = Idle(c)]
    /\ accepting' = [accepting EXCEPT ![s] = NoConn]
    /\ UNCHANGED <<rate, users, twice, table, gen, current>>

(* serverConn.Close: Allow(-1) stops at a counter that is still over its   *)
(* limit after the subtraction.                                            *)
Close(c) ==
    /\ ~rate
    /\ conn[c].pc = "open"
    /\ conn' = [conn EXCEPT ![c].pc = "release",
                            ![c].todo = conn[c].group,
                            ![c].closes = @ - 1]
    /\ UNCHANGED <<rate, users, twice, table, gen, current, accepting>>

Release(c) ==
    LET o == Head(conn[c].todo) IN
    /\ conn[c].pc = "release"
    /\ conn[c].todo # <<>>
    /\ current' = Add(o, -1)
    /\ conn' = [conn EXCEPT ![c].todo = IF Taken(o) - 1 > o.limit THEN <<>> ELSE Tail(@)]
    /\ UNCHANGED <<rate, users, twice, table, gen, accepting>>

Released(c) ==
    /\ conn[c].pc = "release"
    /\ conn[c].todo = <<>>
    /\ conn' = [conn EXCEPT ![c] = IF @.closes > 0 THEN [@ EXCEPT !.pc = "open"] ELSE Idle(c)]
    /\ UNCHANGED <<rate, users, twice, table, gen, current, accepting>>

-----------------------------------------------------------------------------
(* limiterGroup.Allow of the rate limiter: every counter of the group is   *)
(* charged that has a place, also when another one refuses.                *)
RateAllow(s) ==
    LET c == accepting[s]
        group == ToSet(conn[c].todo)
        free == {o \in group : Taken(o) < Places(o)} IN
    /\ rate
    /\ c # NoConn
    /\ current' = [o \in DOMAIN current \cup group |->
                     Taken(o) + (IF o \in free THEN 1 ELSE 0)]
    /\ conn' = [conn EXCEPT ![c].pc = IF free = group THEN "open" ELSE "idle",
                            ![c].todo = <<>>,
                            ![c].held = IF free = group THEN group ELSE {}]
    /\ accepting' = [accepting EXCEPT ![s] = NoConn]
    /\ UNCHANGED <<rate, users, twice, table, gen>>

(* Time passes; a request is over.                                         *)
Refill ==
    /\ rate
    /\ \E o \in DOMAIN current :
         /\ current[o] > 0
         /\ current' = Add(o, -1)
    /\ UNCHANGED <<rate, users, twice, table, gen, conn, accepting>>
RequestEnds(c) ==
    /\ rate
    /\ conn[c].pc = "open"
    /\ conn' = [conn EXCEPT ![c] = Idle(c)]
    /\ UNCHANGED <<rate, users, twice, table, gen, current, accepting>>

(* reload makes new counters, whatever the limits are.                     *)
Reload ==
    /\ gen < MaxReloads
    /\ table' \in Tables
    /\ gen' = gen + 1
    /\ UNCHANGED <<rate, users, twice, current, conn, accepting>>

Next ==
    \/ \E s \in Services, c \in Conns, host \in Hosts : Accept(s, c, host)
    \/ \E s \in Services : Allow(s) \/ Undo(s) \/ GiveBack(s) \/ Refuse(s) \/ RateAllow(s)
    \/ \E c \in Conns : Close(c) \/ Release(c) \/ Released(c) \/ RequestEnds(c)
    \/ Refill
    \/ Reload
Spec == Init /\ [][Next]_vars

-----------------------------------------------------------------------------
(* The connections that hold a place of a counter.                         *)
Holders(o) == {c \in Conns : conn[c].pc \in {"take", "open"} /\ o \in conn[c].held}
AtRest == \A c \in Conns : conn[c].pc \in {"idle", "open"}

TypeOK ==
    /\ gen \in 0..MaxReloads
    /\ table \in Tables
    /\ \A c \in Conns :
         conn[c].pc \in {"idle", "take", "undo", "giveback", "open", "release"}
    /\ \A s \in Services : accepting[s] \in Conns \cup {NoConn}

(* No counter ever admits more connections than its limit, however the     *)
(* services that share it interleave, as long as every connection is       *)
(* closed once.                                                            *)
LimitHolds ==
    (twice = {} /\ ~rate) =>
        \A o \in DOMAIN current : Cardinality(Holders(o)) <= o.limit

(* When nothing is being accepted or closed a counter shows the            *)
(* connections that hold a place in it: no place is lost for ever.  Two    *)
(* services that share a limiter can lose one.                             *)
PlacesComeBack ==
    (twice = {} /\ ~rate /\ AtRest /\ Cardinality(users) = 1) =>
        \A o \in DOMAIN current : current[o] = Cardinality(Holders(o))
=============================================================================
