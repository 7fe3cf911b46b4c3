-------------------------- MODULE ConnectionsProofs --------------------------
(***************************************************************************)
(* What the connections of a node are promised, for any number of them.    *)
(*                                                                         *)
(* Limiters: a connection is charged to a counter from the addition until  *)
(* the subtraction that takes it back, also while it is refused or         *)
(* released.  A counter never shows less than the connections charged to   *)
(* it (Covered); it may show more, as a release may stop early.  With one  *)
(* service no release does, and it shows just those (Exact).               *)
(*                                                                         *)
(* Traffic limiters: a limiter in use has a limit (Zeros), so what is held *)
(* back of a connection, the next of its bytes, is looked for (HeldInv).   *)
(*                                                                         *)
(* Dialers: what a call relies on is kept by the dialer's lock (LockInv),  *)
(* and each connection that is open is the session's or that of a call     *)
(* that will close it or make it the session (OwnerInv).                   *)
(*                                                                         *)
(* UDP sessions: a session that is open is in the pool under its peer, or  *)
(* is the one that the listener is about to put there (Placed).            *)
(*                                                                         *)
(* Listeners: an error that says that a listener is closed comes from one  *)
(* that is, or whose loop has met an error and ended (ToldInv).            *)
(***************************************************************************)
EXTENDS MCConnections, TLAPS, FiniteSetTheorems, SequenceTheorems, WellFoundedInduction

-----------------------------------------------------------------------------
(* Limiters.                                                               *)

Keys == Hosts \cup {Global, PerIP, Net}
Counters == [gen : Nat, key : Keys, host : Keys, limit : Nat]

Distinct(s) ==
    s \in Seq(Counters) /\ \A i, j \in 1..Len(s) : i # j => s[i] # s[j]
Set(s) == {s[i] : i \in 1..Len(s)}

(* The counters a connection is charged to.                                *)
Claim(r) ==
    IF r.pc = "undo" THEN r.held \cup {Head(r.todo)}
    ELSE IF r.pc = "release" THEN Set(r.todo)
    ELSE r.held

ConnType ==
    [pc : {"idle", "take", "undo", "giveback", "open", "release"},
     group : Seq(Counters), todo : Seq(Counters), held : SUBSET Counters, closes : Nat]

(* Where a connection that is closed once stands.                          *)
InOrder(r) ==
    /\ r \in ConnType
    /\ Distinct(r.group) /\ Distinct(r.todo)
    /\ r.pc = "idle" => r.group = <<>> /\ r.todo = <<>> /\ r.held = {}
    /\ r.pc \in {"take", "undo"} =>
         /\ r.todo # <<>>
         /\ r.held \cap Set(r.todo) = {}
         /\ Set(r.group) = r.held \cup Set(r.todo)
    /\ r.pc = "open" => r.held = Set(r.group)
    /\ r.closes = IF r.pc = "release" THEN 0 ELSE 1

Charged(o) == {c \in Conns : o \in Claim(conn[c])}
Covered(o) == Cardinality(Charged(o)) <= Taken(o)
Within(o) == Cardinality(Holders(o)) <= o.limit

Types ==
    /\ gen \in Nat
    /\ table \in Tables
    /\ conn = [c \in Conns |-> conn[c]]
    /\ accepting \in [Services -> Conns \cup {NoConn}]
    /\ \A o : Taken(o) \in Int

Orders == \A c \in Conns : InOrder(conn[c])
AllWithin == \A o \in Counters : Covered(o) /\ Within(o)
LimitInv ==
    (twice = {} /\ ~rate) => Types /\ DOMAIN current \subseteq Counters /\ Orders /\ AllWithin

-----------------------------------------------------------------------------
(* Sequences of different counters.                                        *)
LEMMA EmptyDistinct == Distinct(<<>>) /\ Set(<<>>) = {}
BY DEF Distinct, Set

LEMMA OneDistinct ==
    ASSUME NEW a \in Counters
    PROVE  Distinct(<<a>>)
BY DEF Distinct

LEMMA TwoDistinct ==
    ASSUME NEW a \in Counters, NEW b \in Counters, a # b
    PROVE  Distinct(<<a>> \o <<b>>)
<1>1. /\ <<a>> \o <<b>> \in Seq(Counters) /\ Len(<<a>> \o <<b>>) = 2
      /\ (<<a>> \o <<b>>)[1] = a /\ (<<a>> \o <<b>>)[2] = b
  OBVIOUS
<1> QED
  BY <1>1 DEF Distinct

LEMMA TailDistinct ==
    ASSUME NEW s, Distinct(s), s # <<>>
    PROVE  /\ Head(s) \in Counters /\ Distinct(Tail(s))
           /\ Set(Tail(s)) = Set(s) \ {Head(s)} /\ Head(s) \in Set(s)
<1>1. Len(s) \in Nat /\ Len(s) >= 1 /\ s \in Seq(Counters) /\ Head(s) = s[1]
  BY DEF Distinct
<1>2. /\ Tail(s) \in Seq(Counters) /\ Len(Tail(s)) = Len(s) - 1
      /\ \A i \in 1..Len(Tail(s)) : Tail(s)[i] = s[i + 1]
  BY <1>1
<1>3. Distinct(Tail(s))
  BY <1>1, <1>2 DEF Distinct
<1>4. Set(Tail(s)) \subseteq Set(s) \ {Head(s)}
  BY <1>1, <1>2 DEF Distinct, Set
<1>5. Set(s) \ {Head(s)} \subseteq Set(Tail(s))
  <2> SUFFICES ASSUME NEW i \in 1..Len(s), s[i] # s[1] PROVE s[i] \in Set(Tail(s))
    BY <1>1 DEF Set
  <2>1. i - 1 \in 1..Len(Tail(s)) /\ Tail(s)[i - 1] = s[i]
    BY <1>1, <1>2
  <2> QED
    BY <2>1 DEF Set
<1>6. Head(s) \in Set(s) /\ Head(s) \in Counters
  BY <1>1 DEF Set
<1> QED
  BY <1>3, <1>4, <1>5, <1>6

LEMMA GroupDistinct ==
    ASSUME gen \in Nat, table \in Tables, NEW host \in Hosts
    PROVE  Distinct(Group(host))
<1>1. ASSUME NEW k \in DOMAIN table, NEW h \in Keys PROVE Counter(k, h) \in Counters
  BY LimitAssumption DEF Counter, Counters, Keys
<1>2. Own(host) = <<>> \/ \E k \in DOMAIN table \ {Global} :
                            Own(host) = <<Counter(k, host)>>
  BY LimitAssumption DEF Own
<1>3. Everybody = <<>> \/ (Global \in DOMAIN table /\ Everybody = <<Counter(Global, Global)>>)
  BY DEF Everybody
<1>4. host \in Keys /\ Global \in Keys
  BY DEF Keys
<1>5. CASE Own(host) = <<>>
  <2>1. Group(host) = Everybody
    BY <1>3, <1>5 DEF Group
  <2> QED
    BY <1>1, <1>3, <1>4, <2>1, EmptyDistinct, OneDistinct
<1>6. CASE Everybody = <<>>
  <2>1. Group(host) = Own(host)
    BY <1>2, <1>6 DEF Group
  <2> QED
    BY <1>1, <1>2, <1>4, <2>1, EmptyDistinct, OneDistinct
<1>7. CASE Own(host) # <<>> /\ Everybody # <<>>
  <2>1. PICK k \in DOMAIN table \ {Global} : Own(host) = <<Counter(k, host)>>
    BY <1>2, <1>7
  <2> DEFINE a == Counter(k, host)
             b == Counter(Global, Global)
  <2>2. a \in Counters /\ b \in Counters /\ Everybody = <<b>>
    BY <1>1, <1>3, <1>4, <1>7
  <2>3. a # b
    BY DEF Counter
  <2>4. Group(host) = <<a>> \o <<b>> \/ Group(host) = <<b>> \o <<a>>
    BY <2>1, <2>2 DEF Group
  <2> QED
    BY <2>2, <2>3, <2>4, TwoDistinct
<1> QED
  BY <1>5, <1>6, <1>7
-----------------------------------------------------------------------------
(* Counting.                                                               *)
LEMMA ChargedFinite ==
    ASSUME NEW o
    PROVE  /\ IsFiniteSet(Charged(o)) /\ IsFiniteSet(Holders(o))
           /\ Cardinality(Charged(o)) \in Nat /\ Cardinality(Holders(o)) \in Nat
           /\ Cardinality(Holders(o)) <= Cardinality(Charged(o))
<1>1. Charged(o) \subseteq Conns /\ Holders(o) \subseteq Charged(o)
  BY DEF Charged, Holders, Claim
<1>2. IsFiniteSet(Charged(o)) /\ IsFiniteSet(Holders(o))
  BY <1>1, LimitAssumption, FS_Subset
<1> QED
  BY <1>1, <1>2, FS_Subset, FS_CardinalityType

(* One connection changes: what its counter must show, and may let in.     *)
LEMMA OneChanges ==
    ASSUME NEW c \in Conns, NEW o \in Counters, Types,
           \A d \in Conns \ {c} : conn'[d] = conn[d],
           Covered(o), Within(o), Taken(o)' \in Int,
           \/ /\ o \in Claim(conn'[c]) => o \in Claim(conn[c])
              /\ Taken(o)' >= Taken(o)
           \/ /\ o \in Claim(conn[c]) /\ o \notin Claim(conn'[c])
              /\ Taken(o)' = Taken(o) - 1
           \/ Taken(o)' = Taken(o) + 1,
           \/ Taken(o)' <= o.limit
           \/ c \in Holders(o)' => c \in Holders(o)
    PROVE  Covered(o)' /\ Within(o)'
<1>1. /\ IsFiniteSet(Charged(o)) /\ IsFiniteSet(Holders(o))
      /\ Cardinality(Charged(o)) \in Nat /\ Cardinality(Holders(o)) \in Nat
  BY ChargedFinite
<1>2. /\ IsFiniteSet(Charged(o)') /\ IsFiniteSet(Holders(o)')
      /\ Cardinality(Charged(o)') \in Nat /\ Cardinality(Holders(o)') \in Nat
      /\ Cardinality(Holders(o)') <= Cardinality(Charged(o)')
  <2>1. Charged(o)' \subseteq Conns /\ Holders(o)' \subseteq Charged(o)'
    BY DEF Charged, Holders, Claim
  <2>2. IsFiniteSet(Charged(o)') /\ IsFiniteSet(Holders(o)')
    BY <2>1, LimitAssumption, FS_Subset
  <2> QED
    BY <2>1, <2>2, FS_Subset, FS_CardinalityType
<1>3. \A d \in Conns \ {c} : d \in Charged(o)' <=> d \in Charged(o)
  BY DEF Charged
<1>4. Taken(o) \in Int /\ o.limit \in Nat
  BY DEF Types, Counters
<1>5. Covered(o)'
  <2>1. CASE /\ o \in Claim(conn'[c]) => o \in Claim(conn[c])
             /\ Taken(o)' >= Taken(o)
    <3>1. Charged(o)' \subseteq Charged(o)
      BY <1>3, <2>1 DEF Charged
    <3>2. Cardinality(Charged(o)') <= Cardinality(Charged(o))
      BY <1>1, <3>1, FS_Subset
    <3> QED
      BY <1>1, <1>2, <1>4, <2>1, <3>2 DEF Covered
  <2>2. CASE /\ o \in Claim(conn[c]) /\ o \notin Claim(conn'[c])
             /\ Taken(o)' = Taken(o) - 1
    <3>1. Charged(o)' = Charged(o) \ {c} /\ c \in Charged(o)
      BY <1>3, <2>2 DEF Charged
    <3>2. Cardinality(Charged(o)') = Cardinality(Charged(o)) - 1
      BY <1>1, <3>1, FS_RemoveElement
    <3> QED
      BY <1>1, <1>2, <1>4, <2>2, <3>2 DEF Covered
  <2>3. CASE Taken(o)' = Taken(o) + 1
    <3>1. Charged(o)' \subseteq Charged(o) \cup {c}
      BY <1>3 DEF Charged
    <3>2. IsFiniteSet(Charged(o) \cup {c})
          /\ Cardinality(Charged(o) \cup {c}) \in Nat
          /\ Cardinality(Charged(o) \cup {c}) <= Cardinality(Charged(o)) + 1
      <4>1. IsFiniteSet(Charged(o) \cup {c})
            /\ Cardinality(Charged(o) \cup {c})
                 = IF c \in Charged(o) THEN Cardinality(Charged(o))
                   ELSE Cardinality(Charged(o)) + 1
        BY <1>1, FS_AddElement
      <4> QED
        BY <1>1, <4>1
    <3>3. Cardinality(Charged(o)') <= Cardinality(Charged(o) \cup {c})
      BY <3>1, <3>2, FS_Subset
    <3> QED
      BY <1>1, <1>2, <1>4, <2>3, <3>2, <3>3 DEF Covered
  <2> QED
    BY <2>1, <2>2, <2>3
<1>6. Within(o)'
  <2>1. CASE Taken(o)' <= o.limit
    BY <1>2, <1>4, <1>5, <2>1 DEF Covered, Within
  <2>2. CASE c \in Holders(o)' => c \in Holders(o)
    <3>1. Holders(o)' \subseteq Holders(o)
      BY <2>2 DEF Holders
    <3>2. Cardinality(Holders(o)') <= Cardinality(Holders(o))
      BY <1>1, <3>1, FS_Subset
    <3> QED
      BY <1>1, <1>2, <1>4, <3>2 DEF Within
  <2> QED
    BY <2>1, <2>2
<1> QED
  BY <1>5, <1>6

(* What an addition shows.                                                 *)
LEMMA AddTaken ==
    ASSUME NEW o, NEW n, current' = Add(o, n), \A x : Taken(x) \in Int, n \in Int
    PROVE  /\ Taken(o)' = Taken(o) + n
           /\ \A x : x # o => Taken(x)' = Taken(x)
           /\ \A x : Taken(x)' \in Int
<1>1. DOMAIN current' = DOMAIN current \cup {o}
  BY DEF Add
<1>2. \A x \in DOMAIN current \cup {o} : current'[x] = Taken(x) + (IF x = o THEN n ELSE 0)
  BY DEF Add
<1>3. Taken(o)' = Taken(o) + n
  BY <1>1, <1>2 DEF Taken
<1>4. \A x : x # o => Taken(x)' = Taken(x)
  BY <1>1, <1>2 DEF Taken
<1> QED
  BY <1>3, <1>4

-----------------------------------------------------------------------------
(* The premise of each step: connections are closed once, and the counters *)
(* are those of the connection limiter.                                    *)
Once == twice = {} /\ ~rate
Inv == Once /\ Types /\ DOMAIN current \subseteq Counters /\ Orders /\ AllWithin

LEMMA IdleInOrder ==
    ASSUME twice = {}, NEW c \in Conns
    PROVE  InOrder(Idle(c))
BY EmptyDistinct DEF Idle, InOrder, ConnType, Distinct

(* A step that changes one connection and no counter.                      *)
LEMMA NoCounterChanges ==
    ASSUME Inv, NEW c \in Conns, NEW r, InOrder(r),
           conn' = [conn EXCEPT ![c] = r],
           Claim(r) \subseteq Claim(conn[c]),
           r.pc \in {"take", "open"} => r.held = {},
           UNCHANGED <<rate, twice, table, gen, current>>,
           accepting' \in [Services -> Conns \cup {NoConn}]
    PROVE  Inv'
<1>1. conn'[c] = r /\ \A d \in Conns \ {c} : conn'[d] = conn[d]
  BY DEF Inv, Types
<1>2. \A o : Taken(o)' = Taken(o)
  BY DEF Taken
<1>3. Types' /\ Once' /\ DOMAIN current' \subseteq Counters
  BY <1>2 DEF Inv, Types, Once
<1>4. Orders'
  BY <1>1 DEF Inv, Orders
<1>5. AllWithin'
  <2> SUFFICES ASSUME NEW o \in Counters PROVE Covered(o)' /\ Within(o)'
    BY DEF AllWithin
  <2>1. Covered(o) /\ Within(o) /\ Taken(o)' \in Int /\ Taken(o)' >= Taken(o)
    BY <1>2 DEF Inv, AllWithin, Types
  <2>2. o \in Claim(conn'[c]) => o \in Claim(conn[c])
    BY <1>1
  <2>3. c \in Holders(o)' => c \in Holders(o)
    BY <1>1 DEF Holders
  <2> QED
    BY <1>1, <2>1, <2>2, <2>3, OneChanges DEF Inv
<1> QED
  BY <1>3, <1>4, <1>5 DEF Inv

(* A step that takes a place of a counter, or gives one back.              *)
LEMMA OneCounterChanges ==
    ASSUME Inv, NEW c \in Conns, NEW r, InOrder(r), NEW p \in Counters, NEW n \in {1, -1},
           conn' = [conn EXCEPT ![c] = r], current' = Add(p, n),
           Claim(r) \subseteq Claim(conn[c]) \cup (IF n = 1 THEN {p} ELSE {}),
           n = -1 => p \in Claim(conn[c]) /\ p \notin Claim(r),
           \A o \in Counters : c \in Holders(o)' => c \in Holders(o) \/ (o = p /\ Taken(p) + n <= p.limit),
           UNCHANGED <<rate, twice, table, gen>>,
           accepting' \in [Services -> Conns \cup {NoConn}]
    PROVE  Inv'
<1>1. conn'[c] = r /\ \A d \in Conns \ {c} : conn'[d] = conn[d]
  BY DEF Inv, Types
<1>2. /\ Taken(p)' = Taken(p) + n
      /\ \A o : o # p => Taken(o)' = Taken(o)
      /\ \A o : Taken(o)' \in Int
  BY AddTaken DEF Inv, Types
<1>3. DOMAIN current' \subseteq Counters
  BY DEF Add, Inv
<1>4. Types' /\ Once'
  BY <1>2 DEF Inv, Types, Once
<1>5. Orders'
  BY <1>1 DEF Inv, Orders
<1>6. AllWithin'
  <2> SUFFICES ASSUME NEW o \in Counters PROVE Covered(o)' /\ Within(o)'
    BY DEF AllWithin
  <2>1. Covered(o) /\ Within(o) /\ Taken(o)' \in Int /\ Taken(o) \in Int
    BY <1>2 DEF Inv, AllWithin, Types
  <2>2. Taken(o)' <= o.limit \/ (c \in Holders(o)' => c \in Holders(o))
    BY <1>2
  <2>3. CASE o # p
    <3>1. (o \in Claim(conn'[c]) => o \in Claim(conn[c])) /\ Taken(o)' >= Taken(o)
      BY <1>1, <1>2, <2>1, <2>3
    <3> QED
      BY <1>1, <2>1, <2>2, <3>1, OneChanges DEF Inv
  <2>4. CASE o = p
    <3>1. \/ Taken(o)' = Taken(o) + 1
          \/ /\ o \in Claim(conn[c]) /\ o \notin Claim(conn'[c])
             /\ Taken(o)' = Taken(o) - 1
      BY <1>1, <1>2, <2>1, <2>4
    <3> QED
      BY <1>1, <2>1, <2>2, <3>1, OneChanges DEF Inv
  <2> QED
    BY <2>3, <2>4
<1> QED
  BY <1>3, <1>4, <1>5, <1>6 DEF Inv

(* The two cases.                                                          *)
LEMMA Takes ==
    ASSUME Inv, NEW c \in Conns, NEW r, InOrder(r), NEW p \in Counters,
           conn' = [conn EXCEPT ![c] = r], current' = Add(p, 1),
           Claim(r) \subseteq Claim(conn[c]) \cup {p},
           \A o \in Counters : c \in Holders(o)' => c \in Holders(o) \/ (o = p /\ Taken(p) + 1 <= p.limit),
           UNCHANGED <<rate, twice, table, gen>>,
           accepting' \in [Services -> Conns \cup {NoConn}]
    PROVE  Inv'
<1> DEFINE n == 1
<1>1. /\ n \in {1, -1} /\ current' = Add(p, n) /\ ~(n = -1)
      /\ Claim(r) \subseteq Claim(conn[c]) \cup (IF n = 1 THEN {p} ELSE {})
      /\ \A o \in Counters : c \in Holders(o)' => c \in Holders(o) \/ (o = p /\ Taken(p) + n <= p.limit)
  OBVIOUS
<1> HIDE DEF n
<1> QED
  BY <1>1, OneCounterChanges

LEMMA Gives ==
    ASSUME Inv, NEW c \in Conns, NEW r, InOrder(r), NEW p \in Counters,
           conn' = [conn EXCEPT ![c] = r], current' = Add(p, -1),
           Claim(r) \subseteq Claim(conn[c]) \ {p}, p \in Claim(conn[c]),
           r.pc \notin {"take", "open"},
           UNCHANGED <<rate, twice, table, gen>>,
           accepting' \in [Services -> Conns \cup {NoConn}]
    PROVE  Inv'
<1> DEFINE n == -1
<1>1. /\ n \in {1, -1} /\ current' = Add(p, n) /\ p \notin Claim(r)
      /\ Claim(r) \subseteq Claim(conn[c]) \cup (IF n = 1 THEN {p} ELSE {})
  OBVIOUS
<1>2. conn'[c] = r
  BY DEF Inv, Types
<1>3. \A o \in Counters : c \in Holders(o)' => c \in Holders(o) \/ (o = p /\ Taken(p) + n <= p.limit)
  BY <1>2 DEF Holders
<1> HIDE DEF n
<1> QED
  BY <1>1, <1>3, OneCounterChanges

-----------------------------------------------------------------------------
(* The steps.                                                              *)
LEMMA InitInv == Init => LimitInv
<1> SUFFICES ASSUME Init, twice = {}, ~rate
             PROVE  Types /\ DOMAIN current \subseteq Counters /\ Orders /\ AllWithin
  BY DEF LimitInv
<1>1. DOMAIN current = {}
  BY DEF Init
<1>2. \A o : Taken(o) = 0
  BY <1>1 DEF Taken
<1>3. Types
  BY <1>2 DEF Init, Types
<1>4. Orders
  BY IdleInOrder DEF Init, Orders
<1>5. \A o : Charged(o) = {} /\ Holders(o) = {}
  BY DEF Init, Idle, Charged, Claim, Holders
<1>6. AllWithin
  BY <1>2, <1>5, FS_EmptySet DEF AllWithin, Covered, Within, Counters
<1> QED
  BY <1>1, <1>3, <1>4, <1>6

LEMMA AcceptKeeps ==
    ASSUME Inv, NEW s \in Services, NEW c \in Conns, NEW host \in Hosts, Accept(s, c, host)
    PROVE  Inv'
<1>1. conn[c].pc = "idle" /\ InOrder(conn[c]) /\ conn[c] \in ConnType
  BY DEF Inv, Orders, InOrder, Accept
<1>2. conn[c].held = {} /\ conn[c].group = <<>> /\ conn[c].todo = <<>> /\ conn[c].closes = 1
  BY <1>1 DEF InOrder
<1>3. Distinct(Group(host))
  BY GroupDistinct DEF Inv, Types
<1>4. accepting' \in [Services -> Conns \cup {NoConn}]
  BY DEF Accept, Inv, Types
<1>5. UNCHANGED <<rate, twice, table, gen, current>>
  BY DEF Accept
<1>6. CASE Group(host) = <<>>
  <2> DEFINE r == [conn[c] EXCEPT !.pc = "open"]
  <2>1. conn' = [conn EXCEPT ![c] = r]
    BY <1>6 DEF Accept
  <2>2. /\ r \in ConnType /\ r.pc = "open" /\ r.held = {} /\ r.group = <<>> /\ r.todo = <<>>
        /\ r.closes = 1
    BY <1>1, <1>2 DEF ConnType
  <2> HIDE DEF r
  <2>3. InOrder(r) /\ Claim(r) = {}
    BY <2>2, EmptyDistinct DEF InOrder, Claim
  <2> QED
    BY <1>4, <1>5, <2>1, <2>2, <2>3, NoCounterChanges
<1>7. CASE Group(host) # <<>>
  <2> DEFINE r == [conn[c] EXCEPT !.pc = "take", !.group = Group(host), !.todo = Group(host)]
  <2>1. conn' = [conn EXCEPT ![c] = r]
    BY <1>7 DEF Accept
  <2>2. Group(host) \in Seq(Counters)
    BY <1>3 DEF Distinct
  <2>3. /\ r \in ConnType /\ r.pc = "take" /\ r.held = {} /\ r.group = Group(host)
        /\ r.todo = Group(host) /\ r.closes = 1
    BY <1>1, <1>2, <2>2 DEF ConnType
  <2> HIDE DEF r
  <2>4. InOrder(r) /\ Claim(r) = {}
    BY <1>3, <1>7, <2>3 DEF InOrder, Claim
  <2> QED
    BY <1>4, <1>5, <2>1, <2>3, <2>4, NoCounterChanges
<1> QED
  BY <1>6, <1>7

LEMMA AllowKeeps ==
    ASSUME Inv, NEW s \in Services, Allow(s)
    PROVE  Inv'
<1> DEFINE c == accepting[s]
           o == Head(conn[c].todo)
           rest == Tail(conn[c].todo)
<1>1. /\ c \in Conns /\ conn[c].pc = "take" /\ current' = Add(o, 1)
      /\ UNCHANGED <<rate, twice, table, gen>>
      /\ accepting' \in [Services -> Conns \cup {NoConn}]
  BY DEF Allow, Inv, Types
<1>2. InOrder(conn[c]) /\ conn[c] \in ConnType
  BY <1>1 DEF Inv, Orders, InOrder
<1>3. /\ conn[c].todo # <<>> /\ Distinct(conn[c].todo) /\ Distinct(conn[c].group)
      /\ conn[c].held \cap Set(conn[c].todo) = {} /\ conn[c].closes = 1
      /\ Set(conn[c].group) = conn[c].held \cup Set(conn[c].todo)
  BY <1>1, <1>2 DEF InOrder
<1>4. /\ o \in Counters /\ Distinct(rest) /\ o \in Set(conn[c].todo)
      /\ Set(rest) = Set(conn[c].todo) \ {o}
  BY <1>3, TailDistinct
<1>5. rest \in Seq(Counters) /\ o.limit \in Nat /\ Taken(o) \in Int
  BY <1>4 DEF Distinct, Counters, Inv, Types
<1>6. CASE Taken(o) + 1 > Places(o)
  <2> DEFINE r == [conn[c] EXCEPT !.pc = "undo"]
  <2>1. conn' = [conn EXCEPT ![c] = r]
    BY <1>6 DEF Allow
  <2>2. /\ r \in ConnType /\ r.pc = "undo" /\ r.held = conn[c].held
        /\ r.group = conn[c].group /\ r.todo = conn[c].todo /\ r.closes = 1
    BY <1>2, <1>3 DEF ConnType
  <2> HIDE DEF r
  <2>3. InOrder(r) /\ Claim(r) = Claim(conn[c]) \cup {o}
    BY <1>1, <1>3, <2>2 DEF InOrder, Claim
  <2>4. \A x \in Counters : ~(c \in Holders(x)')
    BY <1>1, <2>1, <2>2 DEF Holders, Inv, Types
  <2> HIDE DEF c, o
  <2> QED
    BY <1>1, <1>4, <2>1, <2>3, <2>4, Takes
<1>7. CASE ~(Taken(o) + 1 > Places(o))
  <2> DEFINE last == Len(conn[c].todo) = 1
             pc == IF last THEN "open" ELSE "take"
             r == [conn[c] EXCEPT !.pc = pc, !.todo = rest, !.held = @ \cup {o}]
  <2>1. conn' = [conn EXCEPT ![c] = r]
    BY <1>7 DEF Allow
  <2>2. last <=> rest = <<>>
    <3>1. Len(rest) = Len(conn[c].todo) - 1 /\ Len(conn[c].todo) \in Nat
      BY <1>3 DEF Distinct
    <3>2. rest = <<>> <=> Len(rest) = 0
      BY <1>5, EmptySeq
    <3> QED
      BY <3>1, <3>2
  <2>3. pc \in {"open", "take"}
    OBVIOUS
  <2>4. /\ r \in ConnType /\ r.pc = pc /\ r.held = conn[c].held \cup {o}
        /\ r.group = conn[c].group /\ r.todo = rest /\ r.closes = 1
    <3> HIDE DEF pc, rest, o
    <3> QED
      BY <1>2, <1>3, <1>4, <1>5, <2>3 DEF ConnType
  <2> HIDE DEF r
  <2>5. InOrder(r)
    <3>1. pc = "open" => Set(rest) = {}
      BY <2>2, EmptyDistinct
    <3>2. pc = "take" => rest # <<>>
      BY <2>2
    <3> HIDE DEF pc, rest, o
    <3> QED
      BY <1>3, <1>4, <2>3, <2>4, <3>1, <3>2 DEF InOrder
  <2>6. Claim(r) = Claim(conn[c]) \cup {o}
    BY <1>1, <2>3, <2>4 DEF Claim
  <2>7. Taken(o) + 1 <= o.limit
    BY <1>5, <1>7 DEF Places, Inv, Once
  <2>8. \A x \in Counters : c \in Holders(x)' => c \in Holders(x) \/ x = o
    <3>1. conn'[c] = r
      BY <1>1, <2>1 DEF Inv, Types
    <3> HIDE DEF c, o, pc, rest
    <3> QED
      BY <1>1, <2>4, <3>1 DEF Holders
  <2> HIDE DEF c, o, rest, pc
  <2> QED
    BY <1>1, <1>4, <2>1, <2>5, <2>6, <2>7, <2>8, Takes
<1> QED
  BY <1>6, <1>7

LEMMA RefusingKeeps ==
    ASSUME Inv, NEW s \in Services, Undo(s) \/ GiveBack(s) \/ Refuse(s)
    PROVE  Inv'
<1> DEFINE c == accepting[s]
<1>1. /\ c \in Conns /\ conn[c].pc \in {"undo", "giveback"}
      /\ UNCHANGED <<rate, twice, table, gen>>
      /\ accepting' \in [Services -> Conns \cup {NoConn}]
  BY DEF Undo, GiveBack, Refuse, Inv, Types
<1>2. /\ InOrder(conn[c]) /\ conn[c] \in ConnType /\ conn[c].closes = 1
      /\ Distinct(conn[c].group)
  BY <1>1 DEF Inv, Orders, InOrder
<1>3. CASE Undo(s)
  <2> DEFINE o == Head(conn[c].todo)
             r == [conn[c] EXCEPT !.pc = "giveback", !.todo = <<>>]
  <2>1. conn[c].pc = "undo" /\ conn' = [conn EXCEPT ![c] = r] /\ current' = Add(o, -1)
    BY <1>3 DEF Undo
  <2>2. /\ Distinct(conn[c].todo) /\ conn[c].todo # <<>>
        /\ conn[c].held \cap Set(conn[c].todo) = {}
    BY <1>2, <2>1 DEF InOrder
  <2>3. o \in Counters /\ o \in Set(conn[c].todo)
    BY <2>2, TailDistinct
  <2>4. /\ r \in ConnType /\ r.pc = "giveback" /\ r.held = conn[c].held
        /\ r.group = conn[c].group /\ r.todo = <<>> /\ r.closes = 1
    BY <1>2, EmptySeq DEF ConnType
  <2> HIDE DEF r
  <2>5. InOrder(r)
    BY <1>2, <2>4, EmptyDistinct DEF InOrder
  <2>6. Claim(r) \subseteq Claim(conn[c]) \ {o} /\ o \in Claim(conn[c])
    <3> HIDE DEF c
    <3> QED
      BY <2>1, <2>2, <2>3, <2>4 DEF Claim
  <2> HIDE DEF c, o
  <2> QED
    BY <1>1, <2>1, <2>3, <2>4, <2>5, <2>6, Gives
<1>4. CASE GiveBack(s)
  <2>1. PICK o \in conn[c].held :
          /\ conn[c].pc = "giveback" /\ current' = Add(o, -1)
          /\ conn' = [conn EXCEPT ![c].held = @ \ {o}]
    BY <1>4 DEF GiveBack
  <2> DEFINE r == [conn[c] EXCEPT !.held = @ \ {o}]
  <2>2. o \in Counters /\ conn' = [conn EXCEPT ![c] = r]
    BY <1>2, <2>1 DEF ConnType
  <2>3. /\ r \in ConnType /\ r.pc = "giveback" /\ r.held = conn[c].held \ {o}
        /\ r.group = conn[c].group /\ r.todo = conn[c].todo /\ r.closes = 1
    BY <1>2, <2>1 DEF ConnType
  <2> HIDE DEF r
  <2>4. InOrder(r)
    BY <1>2, <2>3 DEF InOrder
  <2>5. Claim(r) \subseteq Claim(conn[c]) \ {o} /\ o \in Claim(conn[c])
    BY <2>1, <2>3 DEF Claim
  <2> HIDE DEF c
  <2> QED
    BY <1>1, <2>1, <2>2, <2>3, <2>4, <2>5, Gives
<1>5. CASE Refuse(s)
  <2> DEFINE r == Idle(c)
  <2>1. conn' = [conn EXCEPT ![c] = r] /\ UNCHANGED current
    BY <1>5 DEF Refuse
  <2>2. InOrder(r) /\ Claim(r) = {} /\ r.pc = "idle"
    BY <1>1, IdleInOrder DEF Inv, Once, Claim, Idle
  <2> HIDE DEF r, c
  <2> QED
    BY <1>1, <2>1, <2>2, NoCounterChanges
<1> QED
  BY <1>3, <1>4, <1>5

LEMMA ClosingKeeps ==
    ASSUME Inv, NEW c \in Conns, Close(c) \/ Release(c) \/ Released(c)
    PROVE  Inv'
<1>1. /\ conn[c].pc \in {"open", "release"}
      /\ UNCHANGED <<rate, twice, table, gen>>
      /\ accepting' \in [Services -> Conns \cup {NoConn}]
  BY DEF Close, Release, Released, Inv, Types
<1>2. /\ InOrder(conn[c]) /\ conn[c] \in ConnType
      /\ Distinct(conn[c].group) /\ Distinct(conn[c].todo)
  BY DEF Inv, Orders, InOrder
<1>3. CASE Close(c)
  <2> DEFINE r == [conn[c] EXCEPT !.pc = "release", !.todo = conn[c].group, !.closes = @ - 1]
  <2>1. conn[c].pc = "open" /\ conn' = [conn EXCEPT ![c] = r] /\ UNCHANGED current
    BY <1>3 DEF Close
  <2>2. conn[c].closes = 1 /\ conn[c].held = Set(conn[c].group)
    BY <1>2, <2>1 DEF InOrder
  <2>3. /\ r \in ConnType /\ r.pc = "release" /\ r.group = conn[c].group
        /\ r.todo = conn[c].group /\ r.closes = 0
    <3> DEFINE d == conn[c]
    <3>1. d \in ConnType /\ d.closes - 1 = 0
      BY <1>2, <2>2
    <3>2. r = [d EXCEPT !.pc = "release", !.todo = d.group, !.closes = 0]
      BY <3>1
    <3> HIDE DEF d, r
    <3>3. /\ r \in ConnType /\ r.pc = "release" /\ r.group = d.group
          /\ r.todo = d.group /\ r.closes = 0
      BY <3>1, <3>2 DEF ConnType
    <3> QED
      BY <3>3 DEF d
  <2> HIDE DEF r
  <2>4. InOrder(r)
    BY <1>2, <2>3 DEF InOrder
  <2>5. Claim(r) \subseteq Claim(conn[c])
    BY <2>1, <2>2, <2>3 DEF Claim
  <2> QED
    BY <1>1, <2>1, <2>3, <2>4, <2>5, NoCounterChanges
<1>4. CASE Release(c)
  <2> DEFINE o == Head(conn[c].todo)
             todo == IF Taken(o) - 1 > o.limit THEN <<>> ELSE Tail(conn[c].todo)
             r == [conn[c] EXCEPT !.todo = todo]
  <2>1. /\ conn[c].pc = "release" /\ conn[c].todo # <<>> /\ current' = Add(o, -1)
        /\ conn' = [conn EXCEPT ![c] = r]
    BY <1>4 DEF Release
  <2>2. /\ o \in Counters /\ o \in Set(conn[c].todo)
        /\ Distinct(todo) /\ Set(todo) \subseteq Set(conn[c].todo) \ {o}
    BY <1>2, <2>1, TailDistinct, EmptyDistinct
  <2>3. todo \in Seq(Counters) /\ conn[c].closes = 0
    BY <1>2, <2>1, <2>2 DEF Distinct, InOrder
  <2>4. /\ r \in ConnType /\ r.pc = "release" /\ r.group = conn[c].group
        /\ r.todo = todo /\ r.closes = 0
    <3> HIDE DEF todo
    <3> QED
      BY <1>2, <2>1, <2>3 DEF ConnType
  <2> HIDE DEF r, todo
  <2>5. InOrder(r)
    BY <1>2, <2>2, <2>4 DEF InOrder
  <2>6. Claim(r) \subseteq Claim(conn[c]) \ {o} /\ o \in Claim(conn[c])
    BY <2>1, <2>2, <2>4 DEF Claim
  <2> HIDE DEF o
  <2> QED
    BY <1>1, <2>1, <2>2, <2>4, <2>5, <2>6, Gives
<1>5. CASE Released(c)
  <2> DEFINE r == Idle(c)
  <2>1. conn[c].closes = 0
    BY <1>2, <1>5 DEF Released, InOrder
  <2>2. conn' = [conn EXCEPT ![c] = r] /\ UNCHANGED current
    BY <1>5, <2>1 DEF Released
  <2>3. InOrder(r) /\ Claim(r) = {} /\ r.pc = "idle"
    BY IdleInOrder DEF Inv, Once, Claim, Idle
  <2> HIDE DEF r
  <2> QED
    BY <1>1, <2>2, <2>3, NoCounterChanges
<1> QED
  BY <1>3, <1>4, <1>5

(* A reload makes other counters; what is charged stays charged.           *)
LEMMA ReloadKeeps ==
    ASSUME Inv, Reload \/ UNCHANGED vars
    PROVE  Inv'
<1>1. /\ UNCHANGED <<rate, twice, current, conn, accepting>>
      /\ gen' \in Nat /\ table' \in Tables
  BY DEF Reload, vars, Inv, Types
<1>2. \A o : Taken(o)' = Taken(o) /\ Charged(o)' = Charged(o) /\ Holders(o)' = Holders(o)
  BY <1>1 DEF Taken, Charged, Claim, Holders
<1> QED
  BY <1>1, <1>2 DEF Inv, Once, Types, Orders, AllWithin, Covered, Within

LEMMA NextInv == Inv /\ [Next]_vars => Inv'
<1> SUFFICES ASSUME Inv, [Next]_vars PROVE Inv'
  OBVIOUS
<1>1. ~rate
  BY DEF Inv, Once
<1>2. ASSUME NEW s \in Services, NEW c \in Conns, NEW host \in Hosts, Accept(s, c, host)
      PROVE  Inv'
  BY <1>2, AcceptKeeps
<1>3. ASSUME NEW s \in Services,
             Allow(s) \/ Undo(s) \/ GiveBack(s) \/ Refuse(s) \/ RateAllow(s)
      PROVE  Inv'
  BY <1>1, <1>3, AllowKeeps, RefusingKeeps DEF RateAllow
<1>4. ASSUME NEW c \in Conns, Close(c) \/ Release(c) \/ Released(c) \/ RequestEnds(c)
      PROVE  Inv'
  BY <1>1, <1>4, ClosingKeeps DEF RequestEnds
<1>5. CASE Refill
  BY <1>1, <1>5 DEF Refill
<1>6. CASE Reload \/ UNCHANGED vars
  BY <1>6, ReloadKeeps
<1> QED
  BY <1>2, <1>3, <1>4, <1>5, <1>6 DEF Next

(* How often connections are closed, and the kind of the limiter, never    *)
(* change.                                                                 *)
LEMMA KindStays == [Next]_vars => (rate' = rate /\ twice' = twice)
<1> SUFFICES ASSUME [Next]_vars PROVE rate' = rate /\ twice' = twice
  OBVIOUS
<1> QED
  BY DEF Next, Accept, Allow, Undo, GiveBack, Refuse, RateAllow, Close, Release, Released,
         RequestEnds, Refill, Reload, vars

(* A counter never shows less than it is charged for: for any number of    *)
(* services, connections, hosts, limits and reloads.                       *)
THEOREM LimitInvariant == Spec => []LimitInv
<1>1. Init => LimitInv
  BY InitInv
<1>2. LimitInv /\ [Next]_vars => LimitInv'
  <2> SUFFICES ASSUME LimitInv, [Next]_vars PROVE LimitInv'
    OBVIOUS
  <2>1. CASE Once
    BY <2>1, NextInv DEF LimitInv, Inv, Once
  <2>2. CASE ~Once
    BY <2>2, KindStays DEF LimitInv, Once
  <2> QED
    BY <2>1, <2>2
<1> QED
  BY <1>1, <1>2, PTL DEF Spec

(* No counter ever admits more connections than its limit, whatever the    *)
(* services that share it do at the same time.                             *)
THEOREM NeverMoreThanLimit == Spec => []LimitHolds
<1>1. LimitInv => LimitHolds
  BY DEF LimitInv, LimitHolds, AllWithin, Within
<1> QED
  BY <1>1, LimitInvariant, PTL

-----------------------------------------------------------------------------
(* One service alone.  Only then a counter that shows too much is that of  *)
(* the connection being refused, no release stops early, and each counter  *)
(* shows just the connections charged to it.                               *)
Single == Once /\ Cardinality(users) = 1

Accepting == {"take", "undo", "giveback"}
Exact(o) == Taken(o) = Cardinality(Charged(o))
Refused(o) == \E c \in Conns \ {NoConn} : conn[c].pc = "undo" /\ Head(conn[c].todo) = o
Room(o) == Taken(o) <= o.limit + (IF Refused(o) THEN 1 ELSE 0)

AcceptedInv ==
    /\ \A s \in Services : accepting[s] # NoConn => s \in users
    /\ \A c \in Conns \ {NoConn} :
          conn[c].pc \in Accepting => \E s \in Services : accepting[s] = c
SingleInv == AcceptedInv /\ \A o \in Counters : Exact(o) /\ Room(o)

LEMMA OneUser ==
    ASSUME users \subseteq Services, Cardinality(users) = 1
    PROVE  \E u \in Services : users = {u}
<1>1. IsFiniteSet(users)
  BY LimitAssumption, FS_Subset
<1> QED
  BY <1>1, FS_Singleton

(* One connection is accepted at a time.                                   *)
LEMMA OneAccepted ==
    ASSUME users \subseteq Services, Cardinality(users) = 1, AcceptedInv,
           NEW s \in Services, accepting[s] # NoConn,
           NEW c \in Conns \ {NoConn}, conn[c].pc \in Accepting
    PROVE  c = accepting[s]
<1>1. PICK u \in Services : users = {u}
  BY OneUser
<1> QED
  BY <1>1 DEF AcceptedInv

LEMMA ExactStep ==
    ASSUME NEW c \in Conns, NEW o, \A d \in Conns \ {c} : conn'[d] = conn[d], Exact(o),
           Taken(o)' = Taken(o) + (IF o \in Claim(conn'[c]) THEN 1 ELSE 0)
                                - (IF o \in Claim(conn[c]) THEN 1 ELSE 0)
    PROVE  Exact(o)'
<1>1. IsFiniteSet(Charged(o)) /\ Cardinality(Charged(o)) \in Nat
  BY ChargedFinite
<1>2. \A d \in Conns \ {c} : d \in Charged(o)' <=> d \in Charged(o)
  BY DEF Charged
<1>3. Charged(o)' \subseteq Conns /\ Charged(o) \subseteq Conns
  BY DEF Charged
<1>4. /\ c \in Charged(o) <=> o \in Claim(conn[c])
      /\ c \in Charged(o)' <=> o \in Claim(conn'[c])
  BY DEF Charged
<1>5. CASE c \in Charged(o) <=> c \in Charged(o)'
  <2>1. Charged(o)' = Charged(o)
    BY <1>2, <1>3, <1>5
  <2> QED
    BY <1>1, <1>4, <1>5, <2>1 DEF Exact
<1>6. CASE c \in Charged(o) /\ c \notin Charged(o)'
  <2>1. Charged(o)' = Charged(o) \ {c}
    BY <1>2, <1>3, <1>6
  <2>2. Cardinality(Charged(o)') = Cardinality(Charged(o)) - 1
    BY <1>1, <1>6, <2>1, FS_RemoveElement
  <2> QED
    BY <1>1, <1>4, <1>6, <2>2 DEF Exact
<1>7. CASE c \notin Charged(o) /\ c \in Charged(o)'
  <2>1. Charged(o)' = Charged(o) \cup {c}
    BY <1>2, <1>3, <1>7
  <2>2. Cardinality(Charged(o)') = Cardinality(Charged(o)) + 1
    BY <1>1, <1>7, <2>1, FS_AddElement
  <2> QED
    BY <1>1, <1>4, <1>7, <2>2 DEF Exact
<1> QED
  BY <1>5, <1>6, <1>7

(* Who is accepted, over a step of the connection c of the service s.      *)
LEMMA AcceptedStep ==
    ASSUME AcceptedInv, Types, NEW c \in Conns, NEW s \in Services, s \in users, users' = users,
           \A d \in Conns \ {c} : conn'[d] = conn[d],
           \/ accepting' = accepting /\ accepting[s] = c
           \/ accepting' = [accepting EXCEPT ![s] = c] /\ accepting[s] = NoConn
           \/ accepting' = [accepting EXCEPT ![s] = NoConn] /\ accepting[s] = c
                /\ conn'[c].pc \notin Accepting
    PROVE  AcceptedInv'
<1>1. accepting \in [Services -> Conns \cup {NoConn}]
  BY DEF Types
<1>2. \A t \in Services : accepting'[t] # NoConn => t \in users
  BY <1>1 DEF AcceptedInv
<1>3. ASSUME NEW d \in Conns \ {NoConn}, conn'[d].pc \in Accepting
      PROVE  \E t \in Services : accepting'[t] = d
  <2>1. CASE d = c
    BY <1>1, <1>3, <2>1
  <2>2. CASE d # c
    <3>1. PICK t \in Services : accepting[t] = d
      BY <1>3, <2>2 DEF AcceptedInv
    <3> QED
      BY <1>1, <2>2, <3>1
  <2> QED
    BY <2>1, <2>2
<1> QED
  BY <1>2, <1>3 DEF AcceptedInv

(* What every counter shows after an addition.                             *)
LEMMA OneTaken ==
    ASSUME Types, NEW o, NEW n \in Int, current' = Add(o, n)
    PROVE  \A x : /\ Taken(x) \in Int /\ Taken(x)' \in Int
                  /\ Taken(x)' = Taken(x) + (IF x = o THEN n ELSE 0)
<1>1. \A x : Taken(x) \in Int
  BY DEF Types
<1> QED
  BY <1>1, AddTaken

(* A step that charges c to no other counter, while nobody is refused, or  *)
(* another connection is.                                                  *)
LEMMA LessCharged ==
    ASSUME Inv, SingleInv, NEW c \in Conns, NEW P \in SUBSET Counters,
           \A d \in Conns \ {c} : conn'[d] = conn[d],
           conn[c].pc # "undo",
           P \subseteq Claim(conn[c]), Claim(conn'[c]) = Claim(conn[c]) \ P,
           \A o \in Counters : Taken(o)' = Taken(o) - (IF o \in P THEN 1 ELSE 0),
           AcceptedInv'
    PROVE  SingleInv'
<1> SUFFICES ASSUME NEW o \in Counters PROVE Exact(o)' /\ Room(o)'
  BY DEF SingleInv
<1>1. Taken(o) \in Int /\ o.limit \in Nat /\ Exact(o) /\ Room(o)
  BY DEF Inv, Types, SingleInv, Counters
<1>2. Exact(o)'
  BY <1>1, ExactStep
<1>3. Refused(o) => Refused(o)'
  BY DEF Refused
<1> QED
  BY <1>1, <1>2, <1>3 DEF Room

LEMMA SingleAccept ==
    ASSUME Inv, Single, SingleInv, users \subseteq Services,
           NEW s \in Services, NEW c \in Conns, NEW host \in Hosts, Accept(s, c, host)
    PROVE  SingleInv'
<1>1. conn[c].pc = "idle" /\ InOrder(conn[c]) /\ conn[c] \in ConnType
  BY DEF Inv, Orders, InOrder, Accept
<1>2. conn[c].held = {}
  BY <1>1 DEF InOrder
<1>3. \A d \in Conns \ {c} : conn'[d] = conn[d]
  BY DEF Accept, Inv, Types
<1>4. conn'[c].pc \in {"open", "take"} /\ conn'[c].held = {}
      /\ (conn'[c].pc = "open" => accepting' = accepting)
      /\ (conn'[c].pc = "take" => accepting' = [accepting EXCEPT ![s] = c])
  BY <1>1, <1>2 DEF Accept, Inv, Types, ConnType
<1>5. \A o : Taken(o)' = Taken(o)
  BY DEF Accept, Taken
<1>6. AcceptedInv'
  <2>1. AcceptedInv /\ s \in users /\ users' = users /\ accepting[s] = NoConn
    BY DEF SingleInv, Accept
  <2>2. CASE conn'[c].pc = "take"
    BY <1>3, <1>4, <2>1, <2>2, AcceptedStep DEF Inv
  <2>3. CASE conn'[c].pc = "open"
    BY <1>3, <1>4, <2>1, <2>3 DEF AcceptedInv, Accepting
  <2> QED
    BY <1>4, <2>2, <2>3
<1>7. Claim(conn[c]) = {} /\ Claim(conn'[c]) = {}
  BY <1>1, <1>2, <1>4 DEF Claim
<1> DEFINE P == {}
<1>8. /\ P \in SUBSET Counters /\ P \subseteq Claim(conn[c]) /\ Claim(conn'[c]) = Claim(conn[c]) \ P
      /\ \A o \in Counters : Taken(o)' = Taken(o) - (IF o \in P THEN 1 ELSE 0)
  BY <1>5, <1>7 DEF Inv, Types
<1> HIDE DEF P
<1> QED
  BY <1>1, <1>3, <1>6, <1>8, LessCharged

LEMMA SingleAllow ==
    ASSUME Inv, Single, SingleInv, users \subseteq Services, NEW s \in Services, Allow(s)
    PROVE  SingleInv'
<1> DEFINE c == accepting[s]
           o == Head(conn[c].todo)
<1>1. /\ c \in Conns \ {NoConn} /\ conn[c].pc = "take" /\ current' = Add(o, 1) /\ ~rate
      /\ users' = users
  BY DEF Allow, Inv, Types
<1>2. InOrder(conn[c]) /\ conn[c] \in ConnType
  BY <1>1 DEF Inv, Orders, InOrder
<1>3. conn[c].todo # <<>> /\ Distinct(conn[c].todo) /\ conn[c].held \cap Set(conn[c].todo) = {}
  BY <1>1, <1>2 DEF InOrder
<1>4. o \in Counters /\ o \in Set(conn[c].todo) /\ o \notin conn[c].held
  BY <1>3, TailDistinct
<1>5. \A d \in Conns \ {c} : conn'[d] = conn[d]
  BY DEF Allow, Inv, Types
<1>6. \A x : /\ Taken(x) \in Int /\ Taken(x)' \in Int
            /\ Taken(x)' = Taken(x) + (IF x = o THEN 1 ELSE 0)
  <2> HIDE DEF c, o
  <2> QED
    BY <1>1, OneTaken DEF Inv
<1>7. \A x \in Counters : x.limit \in Nat /\ Exact(x) /\ Room(x)
  BY DEF SingleInv, Counters
(* Nobody else is accepted, so nobody is being refused.                    *)
<1>8. \A x : ~Refused(x)
  <2> SUFFICES ASSUME NEW d \in Conns \ {NoConn}, conn[d].pc = "undo" PROVE FALSE
    BY DEF Refused
  <2> HIDE DEF c
  <2> QED
    BY <1>1, OneAccepted DEF c, Single, SingleInv, Accepting
<1>9. \A x \in Counters : Taken(x) <= x.limit
  BY <1>6, <1>7, <1>8 DEF Room
<1>10. CASE Taken(o) + 1 > Places(o)
  <2>1. /\ conn'[c].pc = "undo" /\ conn'[c].held = conn[c].held /\ conn'[c].todo = conn[c].todo
        /\ accepting' = accepting
    BY <1>1, <1>2, <1>10 DEF Allow, Inv, Types, ConnType
  <2>2. AcceptedInv'
    <3>1. s \in users /\ accepting[s] = c
      BY <1>1 DEF SingleInv, AcceptedInv
    <3> HIDE DEF c
    <3> QED
      BY <1>1, <1>5, <2>1, <3>1, AcceptedStep DEF SingleInv, Inv
  <2>3. Claim(conn'[c]) = Claim(conn[c]) \cup {o}
    BY <1>1, <2>1 DEF Claim
  <2>4. Claim(conn[c]) = conn[c].held
    BY <1>1 DEF Claim
  <2> SUFFICES ASSUME NEW x \in Counters PROVE Exact(x)' /\ Room(x)'
    BY <2>2 DEF SingleInv
  <2> HIDE DEF c, o
  <2>6. Taken(x)' = Taken(x) + (IF x \in Claim(conn'[c]) THEN 1 ELSE 0)
                             - (IF x \in Claim(conn[c]) THEN 1 ELSE 0)
    BY <1>4, <1>6, <2>3, <2>4
  <2>7. Exact(x)'
    BY <1>1, <1>5, <1>7, <2>6, ExactStep
  <2>8. Taken(x)' <= x.limit + (IF x = o THEN 1 ELSE 0)
    <3>1. /\ Taken(x) \in Int /\ Taken(x)' = Taken(x) + (IF x = o THEN 1 ELSE 0)
          /\ Taken(x) <= x.limit /\ x.limit \in Nat
      BY <1>6, <1>7, <1>9
    <3> QED
      BY ONLY <3>1
  <2>9. Room(x)'
    <3>1. CASE x = o
      <4>1. conn'[c].pc = "undo" /\ Head(conn'[c].todo) = x
        BY <2>1, <3>1 DEF o
      <4>2. Refused(x)'
        BY <1>1, <4>1 DEF Refused
      <4> QED
        BY <2>8, <3>1, <4>2 DEF Room
    <3>2. CASE x # o
      <4>1. /\ Taken(x)' <= x.limit + 0 /\ x.limit \in Nat
            /\ Taken(x)' \in Int
        BY <1>6, <1>7, <2>8, <3>2
      <4> QED
        BY <4>1 DEF Room
    <3> QED
      BY <3>1, <3>2
  <2> QED
    BY <2>7, <2>9
<1>11. CASE ~(Taken(o) + 1 > Places(o))
  <2> DEFINE last == Len(conn[c].todo) = 1
  <2>1. /\ conn'[c].pc = IF last THEN "open" ELSE "take"
        /\ conn'[c].held = conn[c].held \cup {o}
        /\ accepting' = IF last THEN [accepting EXCEPT ![s] = NoConn] ELSE accepting
    BY <1>1, <1>2, <1>11 DEF Allow, Inv, Types, ConnType
  <2>2. AcceptedInv'
    <3>1. s \in users /\ accepting[s] = c
      BY <1>1 DEF SingleInv, AcceptedInv
    <3> HIDE DEF c, o, last
    <3>2. conn'[c].pc = "open" => conn'[c].pc \notin Accepting
      BY DEF Accepting
    <3> QED
      BY <1>1, <1>5, <2>1, <3>1, <3>2, AcceptedStep DEF SingleInv, Inv
  <2>3. Claim(conn'[c]) = Claim(conn[c]) \cup {o} /\ Claim(conn[c]) = conn[c].held
    <3> HIDE DEF c, o, last
    <3> QED
      BY <1>1, <2>1 DEF Claim
  <2>4. Taken(o) + 1 <= o.limit
    BY <1>1, <1>6, <1>7, <1>4, <1>11 DEF Places
  <2> SUFFICES ASSUME NEW x \in Counters PROVE Exact(x)' /\ Room(x)'
    BY <2>2 DEF SingleInv
  <2> HIDE DEF c, o, last
  <2>5. Taken(x)' = Taken(x) + (IF x \in Claim(conn'[c]) THEN 1 ELSE 0)
                             - (IF x \in Claim(conn[c]) THEN 1 ELSE 0)
    BY <1>4, <1>6, <2>3
  <2>6. Exact(x)'
    BY <1>1, <1>5, <1>7, <2>5, ExactStep
  <2>7. Taken(x)' <= x.limit
    <3>1. /\ Taken(x) \in Int /\ Taken(x)' = Taken(x) + (IF x = o THEN 1 ELSE 0)
          /\ Taken(x) <= x.limit /\ x.limit \in Nat /\ Taken(o) + 1 <= o.limit
      BY <1>6, <1>7, <1>9, <2>4
    <3> QED
      BY ONLY <3>1
  <2> QED
    BY <1>6, <1>7, <2>6, <2>7 DEF Room
<1> QED
  BY <1>10, <1>11

LEMMA SingleUndo ==
    ASSUME Inv, Single, SingleInv, users \subseteq Services, NEW s \in Services, Undo(s)
    PROVE  SingleInv'
<1> DEFINE c == accepting[s]
           o == Head(conn[c].todo)
<1>1. /\ c \in Conns \ {NoConn} /\ conn[c].pc = "undo" /\ current' = Add(o, -1)
      /\ users' = users /\ accepting' = accepting
  BY DEF Undo, Inv, Types
<1>2. InOrder(conn[c]) /\ conn[c] \in ConnType
  BY <1>1 DEF Inv, Orders, InOrder
<1>3. conn[c].todo # <<>> /\ Distinct(conn[c].todo) /\ conn[c].held \cap Set(conn[c].todo) = {}
  BY <1>1, <1>2 DEF InOrder
<1>4. o \in Counters /\ o \in Set(conn[c].todo) /\ o \notin conn[c].held
  BY <1>3, TailDistinct
<1>5. \A d \in Conns \ {c} : conn'[d] = conn[d]
  BY DEF Undo, Inv, Types
<1>6. \A x : /\ Taken(x) \in Int /\ Taken(x)' \in Int
            /\ Taken(x)' = Taken(x) + (IF x = o THEN -1 ELSE 0)
  <2> HIDE DEF c, o
  <2> QED
    BY <1>1, OneTaken DEF Inv
<1>7. \A x \in Counters : x.limit \in Nat /\ Exact(x) /\ Room(x)
  BY DEF SingleInv, Counters
<1>8. conn'[c].pc = "giveback" /\ conn'[c].held = conn[c].held
  BY <1>1, <1>2 DEF Undo, Inv, Types, ConnType
(* Only this connection is refused, and by this counter.                   *)
<1>9. \A x : x # o => ~Refused(x)
  <2> SUFFICES ASSUME NEW d \in Conns \ {NoConn}, conn[d].pc = "undo" PROVE d = c
    BY DEF Refused
  <2> HIDE DEF c
  <2> QED
    BY <1>1, OneAccepted DEF c, Single, SingleInv, Accepting
<1>10. AcceptedInv'
  <2>1. s \in users /\ accepting[s] = c
    BY <1>1 DEF SingleInv, AcceptedInv
  <2> HIDE DEF c
  <2> QED
    BY <1>1, <1>5, <2>1, AcceptedStep DEF SingleInv, Inv
<1>11. Claim(conn[c]) = conn[c].held \cup {o} /\ Claim(conn'[c]) = conn[c].held
  BY <1>1, <1>8 DEF Claim
<1> SUFFICES ASSUME NEW x \in Counters PROVE Exact(x)' /\ Room(x)'
  BY <1>10 DEF SingleInv
<1> HIDE DEF c, o
<1>12. Taken(x)' = Taken(x) + (IF x \in Claim(conn'[c]) THEN 1 ELSE 0)
                            - (IF x \in Claim(conn[c]) THEN 1 ELSE 0)
  BY <1>4, <1>6, <1>11
<1>13. Exact(x)'
  BY <1>1, <1>5, <1>7, <1>12, ExactStep
<1>14. Taken(x)' <= x.limit
  <2>1. /\ Taken(x) \in Int /\ Taken(x)' = Taken(x) + (IF x = o THEN -1 ELSE 0)
        /\ x.limit \in Nat
    BY <1>6, <1>7
  <2>2. Taken(x) <= x.limit + 1 /\ (~Refused(x) => Taken(x) <= x.limit)
    BY <1>7, <2>1 DEF Room
  <2>3. x # o => ~Refused(x)
    BY <1>9
  <2> QED
    BY ONLY <2>1, <2>2, <2>3
<1> QED
  BY <1>6, <1>7, <1>13, <1>14 DEF Room

LEMMA SingleGiveBack ==
    ASSUME Inv, Single, SingleInv, NEW s \in Services, GiveBack(s) \/ Refuse(s)
    PROVE  SingleInv'
<1> DEFINE c == accepting[s]
<1>1. c \in Conns \ {NoConn} /\ conn[c].pc = "giveback" /\ users' = users
  BY DEF GiveBack, Refuse, Inv, Types
<1>2. InOrder(conn[c]) /\ conn[c] \in ConnType
  BY <1>1 DEF Inv, Orders, InOrder
<1>3. \A d \in Conns \ {c} : conn'[d] = conn[d]
  BY DEF GiveBack, Refuse, Inv, Types
<1>4. s \in users /\ accepting[s] = c
  BY <1>1 DEF SingleInv, AcceptedInv
<1>5. CASE GiveBack(s)
  <2>1. PICK o \in conn[c].held : current' = Add(o, -1) /\ conn' = [conn EXCEPT ![c].held = @ \ {o}]
    BY <1>5 DEF GiveBack
  <2>2. conn'[c].held = conn[c].held \ {o} /\ conn'[c].pc = "giveback"
    BY <1>1, <1>2, <2>1 DEF ConnType, Inv, Types
  <2>3. \A x : /\ Taken(x) \in Int
              /\ Taken(x)' = Taken(x) + (IF x = o THEN -1 ELSE 0)
    BY <2>1, OneTaken DEF Inv
  <2>4. accepting' = accepting
    BY <1>5 DEF GiveBack
  <2> HIDE DEF c
  <2>5. AcceptedInv'
    BY <1>1, <1>3, <1>4, <2>4, AcceptedStep DEF SingleInv, Inv
  <2>6. /\ {o} \in SUBSET Counters /\ {o} \subseteq Claim(conn[c])
        /\ Claim(conn'[c]) = Claim(conn[c]) \ {o}
    BY <1>1, <1>2, <2>1, <2>2 DEF Claim, ConnType
  <2>7. \A x \in Counters : Taken(x)' = Taken(x) - (IF x \in {o} THEN 1 ELSE 0)
    BY <2>3
  <2> QED
    BY <1>1, <1>3, <2>5, <2>6, <2>7, LessCharged
<1>6. CASE Refuse(s)
  <2>1. /\ conn[c].held = {} /\ conn'[c] = Idle(c) /\ current' = current
        /\ accepting' = [accepting EXCEPT ![s] = NoConn]
    BY <1>1, <1>6 DEF Refuse, Inv, Types
  <2> HIDE DEF c
  <2>2. Claim(conn[c]) = {} /\ Claim(conn'[c]) = {} /\ conn'[c].pc = "idle"
    BY <1>1, <2>1 DEF Claim, Idle
  <2>3. AcceptedInv'
    BY <1>1, <1>3, <1>4, <2>1, <2>2, AcceptedStep DEF SingleInv, Inv, Accepting
  <2> DEFINE P == {}
  <2>4. /\ P \in SUBSET Counters /\ P \subseteq Claim(conn[c]) /\ Claim(conn'[c]) = Claim(conn[c]) \ P
        /\ \A o \in Counters : Taken(o)' = Taken(o) - (IF o \in P THEN 1 ELSE 0)
    BY <2>1, <2>2 DEF Inv, Types, Taken
  <2> HIDE DEF P
  <2> QED
    BY <1>1, <1>3, <2>3, <2>4, LessCharged
<1> QED
  BY <1>5, <1>6

LEMMA SingleClosing ==
    ASSUME Inv, Single, SingleInv, NEW c \in Conns, Close(c) \/ Release(c) \/ Released(c)
    PROVE  SingleInv'
<1>1. /\ conn[c].pc \in {"open", "release"}
      /\ users' = users /\ accepting' = accepting
      /\ \A d \in Conns \ {c} : conn'[d] = conn[d]
  BY DEF Close, Release, Released, Inv, Types
<1>2. InOrder(conn[c]) /\ conn[c] \in ConnType /\ Distinct(conn[c].todo)
  BY DEF Inv, Orders, InOrder
<1>3. conn'[c].pc \notin Accepting => AcceptedInv'
  BY <1>1 DEF SingleInv, AcceptedInv
<1>4. CASE Close(c)
  <2>1. /\ conn[c].pc = "open" /\ conn'[c].pc = "release" /\ conn'[c].todo = conn[c].group
        /\ current' = current
    BY <1>2, <1>4 DEF Close, Inv, Types, ConnType
  <2>2. Claim(conn'[c]) = Claim(conn[c])
    BY <1>2, <2>1 DEF InOrder, Claim
  <2> DEFINE P == {}
  <2>4. /\ P \in SUBSET Counters /\ P \subseteq Claim(conn[c]) /\ Claim(conn'[c]) = Claim(conn[c]) \ P
        /\ \A o \in Counters : Taken(o)' = Taken(o) - (IF o \in P THEN 1 ELSE 0)
    BY <2>1, <2>2 DEF Inv, Types, Taken
  <2> HIDE DEF P
  <2>5. AcceptedInv'
    BY <1>3, <2>1 DEF Accepting
  <2> QED
    BY <1>1, <2>1, <2>4, <2>5, LessCharged
<1>5. CASE Release(c)
  <2> DEFINE o == Head(conn[c].todo)
  <2>1. conn[c].pc = "release" /\ conn[c].todo # <<>> /\ current' = Add(o, -1)
    BY <1>5 DEF Release
  <2>2. /\ o \in Counters /\ o \in Set(conn[c].todo)
        /\ Set(Tail(conn[c].todo)) = Set(conn[c].todo) \ {o}
    BY <1>2, <2>1, TailDistinct
  <2>3. \A x : /\ Taken(x) \in Int
              /\ Taken(x)' = Taken(x) + (IF x = o THEN -1 ELSE 0)
    <3> HIDE DEF o
    <3> QED
      BY <2>1, OneTaken DEF Inv
  (* No counter shows more than one above its limit: the release goes on.  *)
  <2>4. ~(Taken(o) - 1 > o.limit)
    <3>1. Room(o) /\ o.limit \in Nat
      BY <2>2 DEF SingleInv, Counters
    <3> QED
      BY <2>3, <3>1 DEF Room
  <2>5. conn'[c].pc = "release" /\ conn'[c].todo = Tail(conn[c].todo)
    BY <1>2, <1>5, <2>4 DEF Release, Inv, Types, ConnType
  <2> HIDE DEF o
  <2>6. /\ {o} \in SUBSET Counters /\ {o} \subseteq Claim(conn[c])
        /\ Claim(conn'[c]) = Claim(conn[c]) \ {o}
    BY <2>1, <2>2, <2>5 DEF Claim
  <2>7. \A x \in Counters : Taken(x)' = Taken(x) - (IF x \in {o} THEN 1 ELSE 0)
    BY <2>3
  <2>8. AcceptedInv'
    BY <1>3, <2>5 DEF Accepting
  <2> QED
    BY <1>1, <2>6, <2>7, <2>8, LessCharged
<1>6. CASE Released(c)
  <2>1. conn[c].closes = 0 /\ conn[c].pc = "release" /\ conn[c].todo = <<>>
    BY <1>2, <1>6 DEF Released, InOrder
  <2>2. conn'[c] = Idle(c) /\ current' = current
    BY <1>6, <2>1 DEF Released, Inv, Types
  <2>3. Claim(conn[c]) = {} /\ Claim(conn'[c]) = {} /\ conn'[c].pc = "idle"
    BY <2>1, <2>2, EmptyDistinct DEF Claim, Idle
  <2> DEFINE P == {}
  <2>4. /\ P \in SUBSET Counters /\ P \subseteq Claim(conn[c]) /\ Claim(conn'[c]) = Claim(conn[c]) \ P
        /\ \A o \in Counters : Taken(o)' = Taken(o) - (IF o \in P THEN 1 ELSE 0)
    BY <2>2, <2>3 DEF Inv, Types, Taken
  <2> HIDE DEF P
  <2>5. AcceptedInv'
    BY <1>3, <2>3 DEF Accepting
  <2> QED
    BY <1>1, <2>4, <2>5, LessCharged
<1> QED
  BY <1>4, <1>5, <1>6

LEMMA SingleNext ==
    ASSUME Inv, Single, SingleInv, users \subseteq Services, [Next]_vars
    PROVE  SingleInv'
<1>1. ~rate
  BY DEF Inv, Once
<1>2. ASSUME NEW s \in Services, NEW c \in Conns, NEW host \in Hosts, Accept(s, c, host)
      PROVE  SingleInv'
  BY <1>2, SingleAccept
<1>3. ASSUME NEW s \in Services,
             Allow(s) \/ Undo(s) \/ GiveBack(s) \/ Refuse(s) \/ RateAllow(s)
      PROVE  SingleInv'
  BY <1>1, <1>3, SingleAllow, SingleUndo, SingleGiveBack DEF RateAllow
<1>4. ASSUME NEW c \in Conns, Close(c) \/ Release(c) \/ Released(c) \/ RequestEnds(c)
      PROVE  SingleInv'
  BY <1>1, <1>4, SingleClosing DEF RequestEnds
<1>5. CASE Refill
  BY <1>1, <1>5 DEF Refill
<1>6. CASE Reload \/ UNCHANGED vars
  <2>1. UNCHANGED <<users, current, conn, accepting>>
    BY <1>6 DEF Reload, vars
  <2> QED
    BY <2>1 DEF SingleInv, AcceptedInv, Exact, Room, Refused, Taken, Charged, Claim
<1> QED
  BY <1>2, <1>3, <1>4, <1>5, <1>6 DEF Next

(* At rest what is charged is what is held.                                *)
LEMMA SingleIsRight ==
    ASSUME Inv, SingleInv, AtRest, NEW o \in DOMAIN current
    PROVE  current[o] = Cardinality(Holders(o))
<1>1. o \in Counters /\ Taken(o) = current[o]
  BY DEF Inv, Taken
<1>2. Charged(o) = Holders(o)
  BY DEF Charged, Holders, Claim, AtRest, Inv, Orders, InOrder
<1> QED
  BY <1>1, <1>2 DEF SingleInv, Exact

(* What holds of a limiter of any kind, however often a connection is      *)
(* closed.                                                                 *)
ConnRecords ==
    [pc : {"idle", "take", "undo", "giveback", "open", "release"},
     group : Seq(Counters), todo : Seq(Counters), held : SUBSET Counters, closes : Int]
LimiterTypes ==
    /\ rate \in Rates /\ users \subseteq Services
    /\ gen \in 0..MaxReloads /\ table \in Tables
    /\ conn \in [Conns -> ConnRecords]
    /\ \A c \in Conns : conn[c].pc = "take" => conn[c].todo # <<>>
    /\ accepting \in [Services -> Conns \cup {NoConn}]

LEMMA IdleRecord == ASSUME NEW c PROVE Idle(c) \in ConnRecords /\ Idle(c).pc = "idle"
<1>1. <<>> \in Seq(Counters)
  BY EmptySeq
<1> QED
  BY <1>1 DEF Idle, ConnRecords

LEMMA LimiterTypesInit == Init => LimiterTypes
<1> SUFFICES ASSUME Init PROVE LimiterTypes
  OBVIOUS
<1>1. /\ rate \in Rates /\ users \subseteq Services /\ table \in Tables
      /\ conn = [c \in Conns |-> Idle(c)] /\ accepting = [s \in Services |-> NoConn]
  BY DEF Init
<1>2. gen \in 0..MaxReloads
  BY LimitAssumption DEF Init
<1> QED
  BY <1>1, <1>2, IdleRecord DEF LimiterTypes

(* A step that changes one connection.                                     *)
LEMMA LimiterStep ==
    ASSUME LimiterTypes, NEW c \in Conns, NEW r \in ConnRecords,
           conn' = [conn EXCEPT ![c] = r], r.pc = "take" => r.todo # <<>>,
           UNCHANGED <<rate, users, table, gen>>,
           accepting' \in [Services -> Conns \cup {NoConn}]
    PROVE  LimiterTypes'
BY DEF LimiterTypes

LEMMA LimiterTypesNext == LimiterTypes /\ [Next]_vars => LimiterTypes'
<1> SUFFICES ASSUME LimiterTypes, [Next]_vars PROVE LimiterTypes'
  OBVIOUS
<1>0. /\ conn \in [Conns -> ConnRecords]
      /\ accepting \in [Services -> Conns \cup {NoConn}]
      /\ <<>> \in Seq(Counters)
  BY EmptySeq DEF LimiterTypes
<1>1. ASSUME NEW s \in Services, NEW c \in Conns, NEW host \in Hosts, Accept(s, c, host)
      PROVE  LimiterTypes'
  <2>1. Group(host) \in Seq(Counters)
    <3>1. gen \in Nat /\ table \in Tables
      BY DEF LimiterTypes
    <3> QED
      BY <3>1, GroupDistinct DEF Distinct
  <2>2. CASE Group(host) = <<>>
    <3> DEFINE r == [conn[c] EXCEPT !.pc = "open"]
    <3>1. r \in ConnRecords /\ r.pc = "open"
      BY <1>0 DEF ConnRecords
    <3>2. conn' = [conn EXCEPT ![c] = r]
      BY <1>1, <2>2 DEF Accept
    <3> HIDE DEF r
    <3> QED
      BY <1>0, <1>1, <2>2, <3>1, <3>2, LimiterStep DEF Accept
  <2>3. CASE Group(host) # <<>>
    <3> DEFINE r == [conn[c] EXCEPT !.pc = "take", !.group = Group(host), !.todo = Group(host)]
    <3>1. r \in ConnRecords /\ r.pc = "take" /\ r.todo # <<>>
      BY <1>0, <2>1, <2>3 DEF ConnRecords
    <3>2. conn' = [conn EXCEPT ![c] = r]
      BY <1>1, <2>3 DEF Accept
    <3>3. UNCHANGED <<rate, users, table, gen>> /\ accepting' \in [Services -> Conns \cup {NoConn}]
      BY <1>0, <1>1, <2>3 DEF Accept
    <3> HIDE DEF r
    <3> QED
      BY <3>1, <3>2, <3>3, LimiterStep
  <2> QED
    BY <2>2, <2>3
<1>2. ASSUME NEW s \in Services, Allow(s) PROVE LimiterTypes'
  <2> DEFINE c == accepting[s]
             o == Head(conn[c].todo)
             rest == Tail(conn[c].todo)
             last == Len(conn[c].todo) = 1
             pc == IF last THEN "open" ELSE "take"
  <2>1. c \in Conns /\ conn[c].pc = "take" /\ UNCHANGED <<rate, users, table, gen>>
        /\ accepting' \in [Services -> Conns \cup {NoConn}]
    BY <1>0, <1>2 DEF Allow
  <2>2. conn[c] \in ConnRecords /\ conn[c].todo # <<>>
    BY <1>0, <2>1 DEF LimiterTypes
  <2>3. o \in Counters /\ rest \in Seq(Counters) /\ Len(rest) = Len(conn[c].todo) - 1
        /\ Len(conn[c].todo) \in Nat
    BY <2>2, HeadTailProperties, LenProperties DEF ConnRecords
  <2>4. ~last => rest # <<>>
    <3>1. rest = <<>> <=> Len(rest) = 0
      BY <2>3, EmptySeq
    <3> QED
      BY <2>3, <3>1
  <2>5. CASE Taken(o) + 1 > Places(o)
    <3> DEFINE r == [conn[c] EXCEPT !.pc = "undo"]
    <3>1. r \in ConnRecords /\ r.pc = "undo"
      BY <2>2 DEF ConnRecords
    <3>2. conn' = [conn EXCEPT ![c] = r]
      BY <1>2, <2>5 DEF Allow
    <3> HIDE DEF r, c
    <3> QED
      BY <2>1, <3>1, <3>2, LimiterStep
  <2>6. CASE ~(Taken(o) + 1 > Places(o))
    <3> DEFINE r == [conn[c] EXCEPT !.pc = pc, !.todo = rest, !.held = @ \cup {o}]
    <3>1. conn' = [conn EXCEPT ![c] = r]
      BY <1>2, <2>6 DEF Allow
    <3>2. r \in ConnRecords /\ r.pc = pc /\ r.todo = rest
      <4>1. pc \in {"open", "take"}
        OBVIOUS
      <4> HIDE DEF pc, rest, o
      <4> QED
        BY <2>2, <2>3, <4>1 DEF ConnRecords
    <3>3. r.pc = "take" => r.todo # <<>>
      BY <2>4, <3>2
    <3> HIDE DEF r, c
    <3> QED
      BY <2>1, <3>1, <3>2, <3>3, LimiterStep
  <2> QED
    BY <2>5, <2>6
<1>3. ASSUME NEW s \in Services, Undo(s) PROVE LimiterTypes'
  <2> DEFINE c == accepting[s]
             r == [conn[c] EXCEPT !.pc = "giveback", !.todo = <<>>]
  <2>1. c \in Conns /\ conn' = [conn EXCEPT ![c] = r]
        /\ UNCHANGED <<rate, users, table, gen, accepting>>
    BY <1>0, <1>3 DEF Undo
  <2>2. r \in ConnRecords /\ r.pc = "giveback"
    BY <1>0, <2>1 DEF ConnRecords
  <2> HIDE DEF r, c
  <2> QED
    BY <1>0, <2>1, <2>2, LimiterStep
<1>4. ASSUME NEW s \in Services, GiveBack(s) PROVE LimiterTypes'
  <2> DEFINE c == accepting[s]
  <2>1. PICK o \in conn[c].held : conn' = [conn EXCEPT ![c].held = @ \ {o}]
    BY <1>4 DEF GiveBack
  <2> DEFINE r == [conn[c] EXCEPT !.held = @ \ {o}]
  <2>2. c \in Conns /\ conn' = [conn EXCEPT ![c] = r] /\ conn[c].pc = "giveback"
        /\ UNCHANGED <<rate, users, table, gen, accepting>>
    BY <1>0, <1>4, <2>1 DEF GiveBack
  <2>3. r \in ConnRecords /\ r.pc = "giveback"
    BY <1>0, <2>2 DEF ConnRecords
  <2> HIDE DEF r, c
  <2> QED
    BY <1>0, <2>2, <2>3, LimiterStep
<1>5. ASSUME NEW s \in Services, Refuse(s) PROVE LimiterTypes'
  <2> DEFINE c == accepting[s]
  <2>1. c \in Conns /\ conn' = [conn EXCEPT ![c] = Idle(c)]
        /\ UNCHANGED <<rate, users, table, gen>>
        /\ accepting' \in [Services -> Conns \cup {NoConn}]
    BY <1>0, <1>5 DEF Refuse
  <2> HIDE DEF c
  <2> QED
    BY <2>1, IdleRecord, LimiterStep
<1>6. ASSUME NEW s \in Services, RateAllow(s) PROVE LimiterTypes'
  <2> DEFINE c == accepting[s]
             group == ToSet(conn[c].todo)
             all == {o \in group : Taken(o) < Places(o)} = group
             r == [conn[c] EXCEPT !.pc = IF all THEN "open" ELSE "idle", !.todo = <<>>,
                                  !.held = IF all THEN group ELSE {}]
  <2>1. c \in Conns /\ conn' = [conn EXCEPT ![c] = r] /\ UNCHANGED <<rate, users, table, gen>>
        /\ accepting' \in [Services -> Conns \cup {NoConn}]
    BY <1>0, <1>6 DEF RateAllow
  <2>2. conn[c] \in ConnRecords
    BY <1>0, <2>1
  <2>3. group \subseteq Counters
    <3>1. conn[c].todo \in Seq(Counters)
      BY <2>2 DEF ConnRecords
    <3> QED
      BY <3>1, LenProperties, ElementOfSeq DEF ToSet
  <2>4. r \in ConnRecords /\ r.pc # "take"
    <3> DEFINE pc == IF all THEN "open" ELSE "idle"
               held == IF all THEN group ELSE {}
    <3>1. pc \in {"open", "idle"} /\ held \in SUBSET Counters
      BY <2>3
    <3>2. r = [conn[c] EXCEPT !.pc = pc, !.todo = <<>>, !.held = held]
      OBVIOUS
    <3> HIDE DEF pc, held, r, all, group
    <3> QED
      BY <1>0, <2>2, <3>1, <3>2 DEF ConnRecords
  <2> HIDE DEF r, c
  <2> QED
    BY <2>1, <2>4, LimiterStep
<1>7. ASSUME NEW c \in Conns, Close(c) PROVE LimiterTypes'
  <2> DEFINE r == [conn[c] EXCEPT !.pc = "release", !.todo = conn[c].group, !.closes = @ - 1]
  <2>1. conn' = [conn EXCEPT ![c] = r] /\ UNCHANGED <<rate, users, table, gen, accepting>>
    BY <1>7 DEF Close
  <2>2. r \in ConnRecords /\ r.pc = "release"
    <3> DEFINE g == conn[c].group
               n == conn[c].closes - 1
    <3>1. conn[c] \in ConnRecords /\ g \in Seq(Counters) /\ n \in Int
      BY <1>0 DEF ConnRecords
    <3>2. r = [conn[c] EXCEPT !.pc = "release", !.todo = g, !.closes = n]
      OBVIOUS
    <3> HIDE DEF g, n, r
    <3> QED
      BY <3>1, <3>2 DEF ConnRecords
  <2> HIDE DEF r
  <2> QED
    BY <1>0, <2>1, <2>2, LimiterStep
<1>8. ASSUME NEW c \in Conns, Release(c) PROVE LimiterTypes'
  <2> DEFINE o == Head(conn[c].todo)
             todo == IF Taken(o) - 1 > o.limit THEN <<>> ELSE Tail(conn[c].todo)
             r == [conn[c] EXCEPT !.todo = todo]
  <2>1. /\ conn[c].pc = "release" /\ conn[c].todo # <<>> /\ conn' = [conn EXCEPT ![c] = r]
        /\ UNCHANGED <<rate, users, table, gen, accepting>>
    BY <1>8 DEF Release
  <2>2. conn[c] \in ConnRecords /\ conn[c].todo \in Seq(Counters)
    BY <1>0 DEF ConnRecords
  <2>3. todo \in Seq(Counters)
    BY <1>0, <2>1, <2>2, HeadTailProperties
  <2>4. r \in ConnRecords /\ r.pc = "release"
    <3> HIDE DEF todo
    <3> QED
      BY <2>1, <2>2, <2>3 DEF ConnRecords
  <2> HIDE DEF r
  <2> QED
    BY <1>0, <2>1, <2>4, LimiterStep
<1>9. ASSUME NEW c \in Conns, Released(c) PROVE LimiterTypes'
  <2> DEFINE r == IF conn[c].closes > 0 THEN [conn[c] EXCEPT !.pc = "open"] ELSE Idle(c)
  <2>1. conn' = [conn EXCEPT ![c] = r] /\ UNCHANGED <<rate, users, table, gen, accepting>>
    BY <1>9 DEF Released
  <2>2. r \in ConnRecords /\ r.pc \in {"open", "idle"}
    <3>1. [conn[c] EXCEPT !.pc = "open"] \in ConnRecords /\ [conn[c] EXCEPT !.pc = "open"].pc = "open"
      BY <1>0 DEF ConnRecords
    <3> QED
      BY <3>1, IdleRecord
  <2> HIDE DEF r
  <2> QED
    BY <1>0, <2>1, <2>2, LimiterStep
<1>10. ASSUME NEW c \in Conns, RequestEnds(c) PROVE LimiterTypes'
  <2>1. conn' = [conn EXCEPT ![c] = Idle(c)] /\ UNCHANGED <<rate, users, table, gen, accepting>>
    BY <1>10 DEF RequestEnds
  <2> QED
    BY <1>0, <2>1, IdleRecord, LimiterStep
<1>11. CASE Refill \/ UNCHANGED vars
  BY <1>11 DEF Refill, vars, LimiterTypes
<1>12. CASE Reload
  <2>1. gen' \in 0..MaxReloads
    BY <1>12, LimitAssumption DEF Reload, LimiterTypes
  <2> QED
    BY <1>12, <2>1 DEF Reload, LimiterTypes
<1> QED
  BY <1>1, <1>2, <1>3, <1>4, <1>5, <1>6, <1>7, <1>8, <1>9, <1>10, <1>11, <1>12 DEF Next

LEMMA LimiterTypesRight == LimiterTypes => TypeOK
BY DEF LimiterTypes, TypeOK, ConnRecords

(* No place is lost for ever while one service uses the limiter.           *)
PlacesInv == Single => Inv /\ SingleInv
LimiterInv == LimiterTypes /\ LimitInv /\ PlacesInv

LEMMA LimiterInit == Init => LimiterInv
<1> SUFFICES ASSUME Init PROVE LimiterInv
  OBVIOUS
<1>1. LimiterTypes /\ LimitInv
  BY LimiterTypesInit, InitInv
<1>2. ASSUME Single PROVE Inv /\ SingleInv
  <2>1. Inv
    BY <1>1, <1>2 DEF Single, Once, LimitInv, Inv
  <2>2. /\ \A o : Taken(o) = 0 /\ Charged(o) = {}
        /\ \A c \in Conns : conn[c].pc = "idle"
        /\ \A s \in Services : accepting[s] = NoConn
    BY DEF Init, Idle, Taken, Charged, Claim
  <2>3. AcceptedInv
    BY <2>2 DEF AcceptedInv, Accepting
  <2>4. \A o : Exact(o)
    BY <2>2, FS_EmptySet DEF Exact
  <2>5. \A o \in Counters : Room(o)
    BY <2>2 DEF Room, Counters
  <2> QED
    BY <2>1, <2>3, <2>4, <2>5 DEF SingleInv
<1> QED
  BY <1>1, <1>2 DEF LimiterInv, PlacesInv

LEMMA LimiterNext == LimiterInv /\ [Next]_vars => LimiterInv'
<1> SUFFICES ASSUME LimiterInv, [Next]_vars PROVE LimiterInv'
  OBVIOUS
<1>1. LimiterTypes' /\ rate' = rate /\ twice' = twice
  BY LimiterTypesNext, KindStays DEF LimiterInv
<1>2. users' = users
  BY DEF Next, Accept, Allow, Undo, GiveBack, Refuse, RateAllow, Close, Release, Released,
         RequestEnds, Refill, Reload, vars
<1>3. LimitInv'
  <2>1. CASE Once
    BY <2>1, NextInv DEF LimiterInv, LimitInv, Inv, Once
  <2>2. CASE ~Once
    BY <1>1, <2>2 DEF LimitInv, Once
  <2> QED
    BY <2>1, <2>2
<1>4. PlacesInv'
  <2>1. CASE Single
    BY <2>1, NextInv, SingleNext DEF LimiterInv, PlacesInv, LimiterTypes
  <2>2. CASE ~Single
    BY <1>1, <1>2, <2>2 DEF PlacesInv, Single, Once
  <2> QED
    BY <2>1, <2>2
<1> QED
  BY <1>1, <1>3, <1>4 DEF LimiterInv

LEMMA LimiterInvIsRight == LimiterInv => TypeOK /\ LimitHolds /\ PlacesComeBack
<1> SUFFICES ASSUME LimiterInv PROVE TypeOK /\ LimitHolds /\ PlacesComeBack
  OBVIOUS
<1>1. TypeOK
  BY LimiterTypesRight DEF LimiterInv
<1>2. LimitHolds
  BY DEF LimiterInv, LimitInv, LimitHolds, AllWithin, Within
<1>3. PlacesComeBack
  BY SingleIsRight DEF LimiterInv, PlacesInv, Single, Once, PlacesComeBack
<1> QED
  BY <1>1, <1>2, <1>3

(* A counter that one service uses shows, whenever nothing is accepted or  *)
(* closed, the connections that hold a place of it.                        *)
THEOREM NoPlaceIsLost == Spec => []PlacesComeBack
BY LimiterInit, LimiterNext, LimiterInvIsRight, PTL DEF Spec

-----------------------------------------------------------------------------
(* Traffic limiters.                                                       *)

Pcs == {"idle", "store", "host", "storehost", "done"}
Looks == [pc : Pcs, lims : Seq(Limiters)]
Reloads == [pc : {"idle", "generator", "conns", "hosts", "ranger"},
            values : [Traffic!Keys -> Values], old : Values]
Count == 1..MaxBytes

(* The limits, and who looks them up.                                      *)
LimTypes ==
    /\ setup \in Setups
    /\ source \in [Traffic!Keys -> Values]
    /\ limit \in [Limiters -> Values]
    /\ service \in Limiters \cup {None} /\ hostLim \in Limiters \cup {None}
    /\ connLims \in [Streamed -> Limiters \cup {None}]
    /\ generator \in Values /\ ranger \in Values
    /\ reload \in Reloads
    /\ looking \in [Streamed -> Looks]
    /\ cached \in [Streamed -> Seq(Limiters)]
    /\ \A c \in Streamed : looking[c].pc \in {"store", "storehost"} => looking[c].lims # <<>>
    /\ setup.kind # "local" =>
         reload.pc = "idle" /\ \A c \in Streamed : looking[c].pc \in {"idle", "done"}

(* The bytes.                                                              *)
ByteTypes ==
    /\ sent \in [Streamed -> 0..MaxBytes]
    /\ rbuf \in [Streamed -> Seq(Count)]
    /\ got \in [Streamed -> Seq(Count)]

(* The premise of BytesInOrder: no limit of single connections appears or  *)
(* goes, nor any limit of a plugin.                                        *)
Steady ==
    /\ setup.use \in {"conn", "readwriter"}
    /\ "conn" \notin toggled
    /\ setup.kind # "local" => toggled = {}

(* A limiter in use has a limit; that of a plugin has one if the plugin    *)
(* says so.                                                                *)
NoLimit == setup.kind # "local" /\ Traffic!Expected = 0
Zeros(l) == limit[l] = 0 <=> NoLimit
LimitsInv ==
    /\ \A c \in Streamed :
         /\ \A i \in 1..Len(cached[c]) : Zeros(cached[c][i])
         /\ \A i \in 1..Len(looking[c].lims) : Zeros(looking[c].lims[i])
    /\ setup.kind = "local" =>
         /\ service # None => limit[service] # 0
         /\ hostLim # None => limit[hostLim] # 0
         /\ \A c \in Streamed : connLims[c] # None => limit[connLims[c]] # 0
         /\ generator = 0 <=> source["conn"] = 0
         /\ reload.pc # "idle" => (reload.values["conn"] = 0 <=> source["conn"] = 0)
         /\ reload.pc = "conns" => (reload.old = 0 <=> source["conn"] = 0)

(* What is held back is the rest of what was read, and is looked for.      *)
InOrderInv(c) ==
    /\ Len(got[c]) + Len(rbuf[c]) = sent[c]
    /\ \A i \in 1..Len(got[c]) : got[c][i] = i
    /\ \A i \in 1..Len(rbuf[c]) : rbuf[c][i] = Len(got[c]) + i
    /\ setup.dir = "out" => rbuf[c] = <<>>
HeldInv(c) == rbuf[c] # <<>> => Traffic!GroupLimit(cached[c]) # 0

SteadyInv == LimitsInv /\ \A c \in Streamed : InOrderInv(c) /\ HeldInv(c)
TrafficInv == LimTypes /\ ByteTypes /\ (Steady => SteadyInv)

(* The least of a set of numbers.                                          *)
LEMMA MinIsLeast ==
    ASSUME NEW S \in SUBSET Nat, S # {}
    PROVE  Traffic!Min(S) \in S /\ \A y \in S : Traffic!Min(S) <= y
<1> DEFINE R == OpToRel(<, Nat)
<1>1. R = {p \in Nat \X Nat : p[1] < p[2]}
  BY Zenon DEF OpToRel
<1>2. IsWellFoundedOn(R, Nat) /\ S \subseteq Nat /\ S # {}
  BY NatLessThanWellFounded
<1> HIDE DEF R
<1>3. \E x \in S : \A y \in S : ~(<<y, x>> \in R)
  BY ONLY <1>2, WFMin
<1>4. PICK x \in S : \A y \in S : ~(<<y, x>> \in R)
  BY <1>3
<1>5. \A y \in S : ~(y < x)
  BY <1>1, <1>4
<1>6. \A y \in S : x <= y
  BY <1>5
<1> QED
  BY <1>6 DEF Traffic!Min

LEMMA ExpectedValue == ASSUME LimTypes PROVE Traffic!Expected \in Values
<1> DEFINE ip == IF source["host"] # 0 THEN source["host"] ELSE source["net"]
           some == {source["conn"], ip} \ {0}
<1>1. /\ source["host"] \in Values /\ source["net"] \in Values /\ source["conn"] \in Values
      /\ source["service"] \in Values /\ Values \subseteq Nat /\ 0 \in Values
  BY PartsAssumption DEF LimTypes, Traffic!Keys, Traffic!TrafficAssumption
<1>2. some # {} => Traffic!Min(some) \in some
  <2> SUFFICES ASSUME some # {} PROVE Traffic!Min(some) \in some
    OBVIOUS
  <2>1. some \in SUBSET Nat
    BY <1>1
  <2> HIDE DEF some
  <2> QED
    BY <2>1, MinIsLeast
<1>3. some \subseteq Values
  BY <1>1
<1>4. Traffic!Expected = IF setup.scope = "service" THEN source["service"]
                         ELSE IF some = {} THEN 0 ELSE Traffic!Min(some)
  BY DEF Traffic!Expected
<1> HIDE DEF some
<1> QED
  BY <1>1, <1>2, <1>3, <1>4

(* There is a limit to expect unless none of the sources says one.         *)
LEMMA ExpectedZero ==
    ASSUME LimTypes
    PROVE  Traffic!Expected = 0 <=>
             IF setup.scope = "service" THEN source["service"] = 0
             ELSE source["conn"] = 0 /\ source["host"] = 0 /\ source["net"] = 0
<1> DEFINE ip == IF source["host"] # 0 THEN source["host"] ELSE source["net"]
           some == {source["conn"], ip} \ {0}
<1>1. /\ source["host"] \in Nat /\ source["net"] \in Nat /\ source["conn"] \in Nat
  BY PartsAssumption DEF LimTypes, Traffic!Keys, Traffic!TrafficAssumption
<1>2. some # {} => Traffic!Min(some) \in some
  <2> SUFFICES ASSUME some # {} PROVE Traffic!Min(some) \in some
    OBVIOUS
  <2>1. some \in SUBSET Nat
    BY <1>1
  <2> HIDE DEF some
  <2> QED
    BY <2>1, MinIsLeast
<1>3. 0 \notin some
  OBVIOUS
<1>4. some = {} <=> source["conn"] = 0 /\ source["host"] = 0 /\ source["net"] = 0
  OBVIOUS
<1>5. Traffic!Expected = IF setup.scope = "service" THEN source["service"]
                         ELSE IF some = {} THEN 0 ELSE Traffic!Min(some)
  BY DEF Traffic!Expected
<1> HIDE DEF some
<1> QED
  BY <1>2, <1>3, <1>4, <1>5

(* How much goes at once: everything without a limit.                      *)
LEMMA BurstIsNat ==
    ASSUME LimTypes, NEW g \in Seq(Limiters)
    PROVE  /\ Traffic!Burst(g) \in Nat
           /\ Traffic!GroupLimit(g) = 0 => Traffic!Burst(g) = Unlimited
<1>1. Values \subseteq Nat /\ Unlimited \in Nat /\ limit \in [Limiters -> Values]
  BY PartsAssumption DEF Traffic!TrafficAssumption, LimTypes
<1>2. CASE Traffic!GroupLimit(g) = 0
  BY <1>1, <1>2 DEF Traffic!Burst
<1>3. CASE Traffic!GroupLimit(g) # 0
  <2> DEFINE S == {limit[l] : l \in Traffic!Elements(g)}
  <2>1. g # <<>>
    BY <1>3 DEF Traffic!GroupLimit
  <2>2. Len(g) \in Nat /\ Len(g) # 0 /\ DOMAIN g = 1..Len(g) /\ \A i \in 1..Len(g) : g[i] \in Limiters
    BY <2>1, EmptySeq, LenProperties, ElementOfSeq
  <2>3. S \in SUBSET Nat
    BY <1>1, <2>2 DEF Traffic!Elements
  <2>4. limit[g[1]] \in S
    BY <2>2 DEF Traffic!Elements
  <2>5. Traffic!Burst(g) = Traffic!Min(S)
    BY <1>3 DEF Traffic!Burst
  <2> HIDE DEF S
  <2> QED
    BY <1>3, <2>3, <2>4, <2>5, MinIsLeast
<1> QED
  BY <1>2, <1>3

LEMMA TrafficInit == Traffic!Init => TrafficInv
<1> SUFFICES ASSUME Traffic!Init PROVE TrafficInv
  OBVIOUS
<1> USE PartsAssumption DEF Traffic!TrafficAssumption
<1>1. PICK l \in Limiters, m \in Limiters :
         /\ l # m
         /\ limit = [x \in Limiters |-> IF x = l THEN source["service"]
                                        ELSE IF x = m THEN source["host"] ELSE 0]
         /\ service = IF source["service"] # 0 THEN l ELSE None
         /\ hostLim = IF source["host"] # 0 THEN m ELSE None
  <2>1. PICK l \in Limiters, m \in Limiters :
         /\ m = (CHOOSE x \in Limiters \ {l} : TRUE)
         /\ limit = [x \in Limiters |-> IF x = l THEN source["service"]
                                        ELSE IF x = m THEN source["host"] ELSE 0]
         /\ service = IF source["service"] # 0 THEN l ELSE None
         /\ hostLim = IF source["host"] # 0 THEN m ELSE None
    BY DEF Traffic!Init
  <2>2. \E x : x \in Limiters \ {l}
    OBVIOUS
  <2>3. m \in Limiters \ {l}
    BY <2>1, <2>2
  <2> QED
    BY <2>1, <2>3
<1>2. /\ setup \in Setups /\ source \in [Traffic!Keys -> Values]
      /\ generator = IF setup.kind = "local" THEN source["conn"] ELSE 0
      /\ ranger = IF setup.kind = "local" THEN source["net"] ELSE 0
      /\ reload = Traffic!NoReload
      /\ connLims = [c \in Streamed |-> None]
      /\ looking = [c \in Streamed |-> Traffic!NoLook]
      /\ cached = [c \in Streamed |-> <<>>] /\ sent = [c \in Streamed |-> 0]
      /\ rbuf = [c \in Streamed |-> <<>>] /\ got = [c \in Streamed |-> <<>>]
      /\ toggled = {}
  BY DEF Traffic!Init
<1>3. /\ source["host"] \in Values /\ source["net"] \in Values /\ source["conn"] \in Values
      /\ source["service"] \in Values
  BY <1>2 DEF Traffic!Keys
<1>4. <<>> \in Seq(Limiters) /\ <<>> \in Seq(Count) /\ Len(<<>>) = 0
  BY EmptySeq
<1>5. reload \in Reloads /\ reload.pc = "idle"
  BY <1>2, <1>3 DEF Reloads, Traffic!NoReload, Traffic!Keys
<1>6. looking \in [Streamed -> Looks] /\ \A c \in Streamed : looking[c].pc = "idle" /\ looking[c].lims = <<>>
  BY <1>2, <1>4 DEF Looks, Pcs, Traffic!NoLook
<1>7. LimTypes
  BY <1>1, <1>2, <1>3, <1>4, <1>5, <1>6 DEF LimTypes
<1>8. ByteTypes
  BY <1>2, <1>4 DEF ByteTypes
<1>9. LimitsInv
  BY <1>1, <1>2, <1>3, <1>4, <1>5, <1>6 DEF LimitsInv
<1>10. \A c \in Streamed : InOrderInv(c) /\ HeldInv(c)
  BY <1>2, <1>4 DEF InOrderInv, HeldInv
<1> QED
  BY <1>7, <1>8, <1>9, <1>10 DEF TrafficInv, SteadyInv

-----------------------------------------------------------------------------
(* Reading and writing.                                                    *)

LEMMA BytesAre ==
    ASSUME NEW a \in Nat, NEW n \in Nat, a + n <= MaxBytes
    PROVE  /\ Traffic!Bytes(a, n) \in Seq(Count) /\ Len(Traffic!Bytes(a, n)) = n
           /\ \A i \in 1..n : Traffic!Bytes(a, n)[i] = a + i
<1>0. MaxBytes \in Nat
  BY PartsAssumption DEF Traffic!TrafficAssumption
<1>1. \A i \in 1..n : a + i \in Count
  BY <1>0 DEF Count
<1>2. Traffic!Bytes(a, n) \in [1..n -> Count]
  BY <1>1 DEF Traffic!Bytes
<1>3. Traffic!Bytes(a, n) \in Seq(Count)
  BY <1>2, SeqDef
<1>4. Len(Traffic!Bytes(a, n)) = n
  BY <1>3, LenProperties, <1>2 DEF Traffic!Bytes
<1> QED
  BY <1>3, <1>4 DEF Traffic!Bytes

(* The bytes after a step that changes those of one connection.            *)
LEMMA BytesStep ==
    ASSUME ByteTypes, NEW c \in Streamed,
           NEW s \in 0..MaxBytes, NEW b \in Seq(Count), NEW g \in Seq(Count),
           sent' = [sent EXCEPT ![c] = s], rbuf' = [rbuf EXCEPT ![c] = b],
           got' = [got EXCEPT ![c] = g]
    PROVE  ByteTypes'
BY DEF ByteTypes

LEMMA ReadKeeps ==
    ASSUME LimTypes, ByteTypes, NEW c \in Streamed, Traffic!ReadBuffered(c)
    PROVE  /\ ByteTypes'
           /\ (\A d \in Streamed : InOrderInv(d) /\ HeldInv(d))
                => (\A d \in Streamed : InOrderInv(d) /\ HeldInv(d))'
<1> DEFINE g == cached[c]
           b == Traffic!Burst(g)
<1>0. /\ g \in Seq(Limiters) /\ b \in Nat /\ sent[c] \in Nat /\ sent[c] <= MaxBytes
      /\ rbuf[c] \in Seq(Count) /\ got[c] \in Seq(Count)
      /\ Traffic!GroupLimit(g) = 0 => b = Unlimited
      /\ Buf \in Nat /\ MaxBytes \in Nat /\ Unlimited \in Nat /\ Unlimited > Buf + MaxBytes
  <2>1. g \in Seq(Limiters)
    BY DEF LimTypes
  <2> QED
    BY <2>1, BurstIsNat, PartsAssumption DEF ByteTypes, Traffic!TrafficAssumption
<1>1. Len(rbuf[c]) \in Nat /\ Len(got[c]) \in Nat
  BY <1>0, LenProperties
<1>2. UNCHANGED <<setup, limit, cached>> /\ setup.dir = "in"
  BY DEF Traffic!ReadBuffered
<1>3. \A x : Traffic!GroupLimit(x)' = Traffic!GroupLimit(x)
  BY <1>2 DEF Traffic!GroupLimit
<1>4. CASE /\ Traffic!GroupLimit(g) # 0
           /\ rbuf[c] # <<>>
           /\ UNCHANGED sent
  <2> DEFINE n == Traffic!Least(Traffic!Least(Buf, Len(rbuf[c])), b)
             more == SubSeq(rbuf[c], 1, n)
             rest == SubSeq(rbuf[c], n + 1, Len(rbuf[c]))
  <2>1. got' = [got EXCEPT ![c] = got[c] \o more] /\ rbuf' = [rbuf EXCEPT ![c] = rest]
    BY <1>0, <1>4 DEF Traffic!ReadBuffered
  <2>2. n \in Nat /\ n <= Len(rbuf[c])
    BY <1>0, <1>1 DEF Traffic!Least
  <2> HIDE DEF n
  <2>3. more \in Seq(Count) /\ Len(more) = n /\ \A i \in 1..n : more[i] = rbuf[c][i]
    BY <1>0, <1>1, <2>2, SubSeqProperties, ElementOfSeq
  <2>4. /\ rest \in Seq(Count) /\ Len(rest) = Len(rbuf[c]) - n
        /\ \A i \in 1..(Len(rbuf[c]) - n) : rest[i] = rbuf[c][n + i]
    BY <1>0, <1>1, <2>2, SubSeqProperties, ElementOfSeq
  <2> HIDE DEF more, rest
  <2>5. /\ got[c] \o more \in Seq(Count) /\ Len(got[c] \o more) = Len(got[c]) + n
        /\ \A i \in 1..(Len(got[c]) + n) :
              (got[c] \o more)[i] = IF i <= Len(got[c]) THEN got[c][i] ELSE more[i - Len(got[c])]
    BY <1>0, <2>3, ConcatProperties
  <2>6. ByteTypes'
    BY <1>4, <2>1, <2>4, <2>5 DEF ByteTypes
  <2>7. ASSUME \A d \in Streamed : InOrderInv(d) /\ HeldInv(d)
        PROVE  (\A d \in Streamed : InOrderInv(d) /\ HeldInv(d))'
    <3>1. got'[c] = got[c] \o more /\ rbuf'[c] = rest /\ sent'[c] = sent[c]
      BY <1>4, <2>1 DEF ByteTypes
    <3>2. \A d \in Streamed \ {c} : got'[d] = got[d] /\ rbuf'[d] = rbuf[d] /\ sent'[d] = sent[d]
      BY <1>4, <2>1 DEF ByteTypes
    <3>3. \A d \in Streamed \ {c} : InOrderInv(d)' /\ HeldInv(d)'
      BY <1>2, <1>3, <2>7, <3>2 DEF InOrderInv, HeldInv
    <3>4. /\ Len(got[c]) + Len(rbuf[c]) = sent[c]
          /\ \A i \in 1..Len(got[c]) : got[c][i] = i
          /\ \A i \in 1..Len(rbuf[c]) : rbuf[c][i] = Len(got[c]) + i
      BY <2>7 DEF InOrderInv
    <3>5. Len(got'[c]) + Len(rbuf'[c]) = sent'[c]
      <4>1. /\ Len(got'[c]) = Len(got[c]) + n /\ Len(rbuf'[c]) = Len(rbuf[c]) - n
            /\ sent'[c] = sent[c]
        BY <2>4, <2>5, <3>1
      <4>2. Len(got[c]) + Len(rbuf[c]) = sent[c]
        BY <3>4
      <4>3. \A x, y, z \in Nat : z <= y => (x + z) + (y - z) = x + y
        OBVIOUS
      <4>4. (Len(got[c]) + n) + (Len(rbuf[c]) - n) = Len(got[c]) + Len(rbuf[c])
        BY ONLY <1>1, <2>2, <4>3
      <4> QED
        BY ONLY <4>1, <4>2, <4>4
    <3>6. \A i \in 1..Len(got'[c]) : got'[c][i] = i
      <4> SUFFICES ASSUME NEW i \in 1..(Len(got[c]) + n) PROVE (got[c] \o more)[i] = i
        BY <2>5, <3>1
      <4>1. CASE i <= Len(got[c])
        BY <1>1, <2>2, <2>5, <3>4, <4>1
      <4>2. CASE ~(i <= Len(got[c]))
        <5>1. i - Len(got[c]) \in 1..n
          BY <1>1, <2>2, <4>2
        <5>2. \A j \in 1..n : more[j] = Len(got[c]) + j
          <6>1. \A j \in 1..n : j \in 1..Len(rbuf[c])
            BY <1>1, <2>2
          <6> QED
            BY <2>3, <3>4, <6>1
        <5> QED
          <6>1. (got[c] \o more)[i] = more[i - Len(got[c])]
            BY <2>5, <4>2
          <6> QED
            BY <1>1, <5>1, <5>2, <6>1
      <4> QED
        BY <4>1, <4>2
    <3>7. \A i \in 1..Len(rbuf'[c]) : rbuf'[c][i] = Len(got'[c]) + i
      <4> SUFFICES ASSUME NEW i \in 1..(Len(rbuf[c]) - n) PROVE rest[i] = Len(got[c]) + n + i
        BY <2>4, <2>5, <3>1
      <4>1. n + i \in 1..Len(rbuf[c]) /\ i \in Nat
        BY <1>1, <2>2
      <4>2. rest[i] = Len(got[c]) + (n + i)
        BY <2>4, <3>4, <4>1
      <4>3. \A x, y, z \in Nat : (x + y) + z = x + (y + z)
        OBVIOUS
      <4>4. (Len(got[c]) + n) + i = Len(got[c]) + (n + i)
        BY ONLY <1>1, <2>2, <4>1, <4>3
      <4> QED
        BY ONLY <4>2, <4>4
    <3>8. HeldInv(c)'
      BY <1>2, <1>3, <1>4 DEF HeldInv
    <3>9. InOrderInv(c)'
      BY <1>2, <3>5, <3>6, <3>7 DEF InOrderInv
    <3> QED
      BY <3>3, <3>8, <3>9
  <2> QED
    BY <2>6, <2>7
<1>5. CASE Traffic!GroupLimit(g) = 0 \/ rbuf[c] = <<>>
  <2>0. PICK nn \in 1..Buf :
          LET n == Traffic!Least(nn, b) IN
          /\ sent[c] + nn <= MaxBytes
          /\ sent' = [sent EXCEPT ![c] = @ + nn]
          /\ got' = [got EXCEPT ![c] = @ \o Traffic!Bytes(sent[c], n)]
          /\ rbuf' = [rbuf EXCEPT ![c] = @ \o Traffic!Bytes(sent[c] + n, nn - n)]
    BY <1>5 DEF Traffic!ReadBuffered
  <2> DEFINE n == Traffic!Least(nn, b)
             more == Traffic!Bytes(sent[c], n)
             held == Traffic!Bytes(sent[c] + n, nn - n)
  <2>1. /\ got' = [got EXCEPT ![c] = got[c] \o more] /\ rbuf' = [rbuf EXCEPT ![c] = rbuf[c] \o held]
        /\ sent' = [sent EXCEPT ![c] = sent[c] + nn] /\ sent[c] + nn <= MaxBytes
    BY <1>0, <2>0
  <2>2. n \in Nat /\ n <= nn /\ nn \in Nat /\ nn <= Buf /\ (b >= nn => n = nn)
    BY <1>0 DEF Traffic!Least
  <2> HIDE DEF n
  <2>a. /\ sent[c] + n <= MaxBytes /\ sent[c] + n \in Nat /\ nn - n \in Nat
        /\ (sent[c] + n) + (nn - n) <= MaxBytes
    BY ONLY <1>0, <2>1, <2>2
  <2>3. more \in Seq(Count) /\ Len(more) = n /\ \A i \in 1..n : more[i] = sent[c] + i
    BY <1>0, <2>2, <2>a, BytesAre
  <2>4. /\ held \in Seq(Count) /\ Len(held) = nn - n
        /\ \A i \in 1..(nn - n) : held[i] = sent[c] + n + i
    BY <2>a, BytesAre
  <2> HIDE DEF more, held
  <2>5. /\ got[c] \o more \in Seq(Count) /\ Len(got[c] \o more) = Len(got[c]) + n
        /\ \A i \in 1..(Len(got[c]) + n) :
              (got[c] \o more)[i] = IF i <= Len(got[c]) THEN got[c][i] ELSE more[i - Len(got[c])]
    BY <1>0, <2>3, ConcatProperties
  <2>6. /\ rbuf[c] \o held \in Seq(Count) /\ Len(rbuf[c] \o held) = Len(rbuf[c]) + (nn - n)
        /\ \A i \in 1..(Len(rbuf[c]) + (nn - n)) :
              (rbuf[c] \o held)[i] = IF i <= Len(rbuf[c]) THEN rbuf[c][i] ELSE held[i - Len(rbuf[c])]
    <3>1. rbuf[c] \in Seq(Count) /\ held \in Seq(Count)
      BY <1>0, <2>4
    <3>2. /\ rbuf[c] \o held \in Seq(Count) /\ Len(rbuf[c] \o held) = Len(rbuf[c]) + Len(held)
          /\ \A i \in 1..(Len(rbuf[c]) + Len(held)) :
                (rbuf[c] \o held)[i] = IF i <= Len(rbuf[c]) THEN rbuf[c][i] ELSE held[i - Len(rbuf[c])]
      BY ONLY <3>1, ConcatProperties
    <3>3. Len(held) = nn - n
      BY <2>4
    <3> QED
      BY ONLY <3>2, <3>3
  <2>7. ByteTypes'
    BY <1>0, <2>1, <2>2, <2>5, <2>6 DEF ByteTypes
  <2>8. ASSUME \A d \in Streamed : InOrderInv(d) /\ HeldInv(d)
        PROVE  (\A d \in Streamed : InOrderInv(d) /\ HeldInv(d))'
    <3>1. /\ got'[c] = got[c] \o more /\ rbuf'[c] = rbuf[c] \o held /\ sent'[c] = sent[c] + nn
      BY <2>1 DEF ByteTypes
    <3>2. \A d \in Streamed \ {c} : got'[d] = got[d] /\ rbuf'[d] = rbuf[d] /\ sent'[d] = sent[d]
      BY <2>1 DEF ByteTypes
    <3>3. \A d \in Streamed \ {c} : InOrderInv(d)' /\ HeldInv(d)'
      BY <1>2, <1>3, <2>8, <3>2 DEF InOrderInv, HeldInv
    <3>4. /\ Len(got[c]) + Len(rbuf[c]) = sent[c]
          /\ \A i \in 1..Len(got[c]) : got[c][i] = i
      BY <2>8 DEF InOrderInv
    (* Nothing is held back where this reads.                              *)
    <3>5. rbuf[c] = <<>> /\ Len(rbuf[c]) = 0 /\ sent[c] = Len(got[c])
      <4>1. rbuf[c] = <<>>
        BY <1>5, <2>8 DEF HeldInv
      <4> QED
        BY <1>0, <1>1, <3>4, <4>1, EmptySeq
    <3>6. Len(got'[c]) + Len(rbuf'[c]) = sent'[c]
      <4>1. /\ Len(got'[c]) = Len(got[c]) + n /\ Len(rbuf'[c]) = 0 + (nn - n)
            /\ sent'[c] = Len(got[c]) + nn
        BY <2>5, <2>6, <3>1, <3>5
      <4> QED
        BY ONLY <1>1, <2>2, <4>1
    <3>7. \A i \in 1..Len(got'[c]) : got'[c][i] = i
      <4> SUFFICES ASSUME NEW i \in 1..(Len(got[c]) + n) PROVE (got[c] \o more)[i] = i
        BY <2>5, <3>1
      <4>1. CASE i <= Len(got[c])
        BY <1>1, <2>2, <2>5, <3>4, <4>1
      <4>2. CASE ~(i <= Len(got[c]))
        <5>1. i - Len(got[c]) \in 1..n
          BY <1>1, <2>2, <4>2
        <5>2. \A j \in 1..n : more[j] = Len(got[c]) + j
          BY <2>3, <3>5
        <5> QED
          <6>1. (got[c] \o more)[i] = more[i - Len(got[c])]
            BY <2>5, <4>2
          <6> QED
            BY <1>1, <5>1, <5>2, <6>1
      <4> QED
        BY <4>1, <4>2
    <3>8. \A i \in 1..Len(rbuf'[c]) : rbuf'[c][i] = Len(got'[c]) + i
      <4> SUFFICES ASSUME NEW i \in 1..(nn - n) PROVE (rbuf[c] \o held)[i] = Len(got[c]) + n + i
        BY <1>1, <2>2, <2>5, <2>6, <3>1, <3>5
      <4>1. (rbuf[c] \o held)[i] = held[i]
        BY <2>2, <2>6, <3>5
      <4> QED
        BY <2>4, <3>5, <4>1
    <3>9. HeldInv(c)'
      <4> SUFFICES ASSUME rbuf'[c] # <<>> PROVE Traffic!GroupLimit(g) # 0
        BY <1>2, <1>3 DEF HeldInv
      <4>1. nn - n # 0
        <5> SUFFICES ASSUME nn - n = 0 PROVE FALSE
          OBVIOUS
        <5>1. Len(rbuf'[c]) = 0 /\ rbuf'[c] \in Seq(Count)
          BY <2>6, <3>1, <3>5
        <5> QED
          BY <5>1, EmptySeq
      <4>2. b < nn
        BY <1>0, <2>2, <4>1
      <4> QED
        BY <1>0, <2>2, <4>2
    <3>10. InOrderInv(c)'
      BY <1>2, <3>6, <3>7, <3>8 DEF InOrderInv
    <3> QED
      BY <3>3, <3>9, <3>10
  <2> QED
    BY <2>7, <2>8
<1> QED
  BY <1>4, <1>5 DEF Traffic!ReadBuffered

LEMMA WriteKeeps ==
    ASSUME LimTypes, ByteTypes, NEW c \in Streamed, Traffic!WriteBursts(c)
    PROVE  /\ ByteTypes'
           /\ (\A d \in Streamed : InOrderInv(d) /\ HeldInv(d))
                => (\A d \in Streamed : InOrderInv(d) /\ HeldInv(d))'
<1> DEFINE b == Traffic!Burst(cached[c])
           n == Traffic!Least(Traffic!Least(Buf, MaxBytes - sent[c]), b)
           more == Traffic!Bytes(sent[c], n)
<1>0. /\ b \in Nat /\ sent[c] \in Nat /\ sent[c] <= MaxBytes
      /\ rbuf[c] \in Seq(Count) /\ got[c] \in Seq(Count)
      /\ Buf \in Nat /\ MaxBytes \in Nat
  <2>1. cached[c] \in Seq(Limiters)
    BY DEF LimTypes
  <2> QED
    BY <2>1, BurstIsNat, PartsAssumption DEF ByteTypes, Traffic!TrafficAssumption
<1>1. Len(got[c]) \in Nat
  BY <1>0, LenProperties
<1>2. UNCHANGED <<setup, limit, cached, rbuf>> /\ setup.dir = "out" /\ sent[c] < MaxBytes
  BY DEF Traffic!WriteBursts
<1>3. \A x : Traffic!GroupLimit(x)' = Traffic!GroupLimit(x)
  BY <1>2 DEF Traffic!GroupLimit
<1>4. sent' = [sent EXCEPT ![c] = sent[c] + n] /\ got' = [got EXCEPT ![c] = got[c] \o more]
  BY DEF Traffic!WriteBursts
<1>5. n \in Nat /\ sent[c] + n <= MaxBytes
  BY <1>0, <1>2 DEF Traffic!Least
<1> HIDE DEF n
<1>6. more \in Seq(Count) /\ Len(more) = n /\ \A i \in 1..n : more[i] = sent[c] + i
  BY <1>0, <1>5, BytesAre
<1> HIDE DEF more
<1>7. /\ got[c] \o more \in Seq(Count) /\ Len(got[c] \o more) = Len(got[c]) + n
      /\ \A i \in 1..(Len(got[c]) + n) :
            (got[c] \o more)[i] = IF i <= Len(got[c]) THEN got[c][i] ELSE more[i - Len(got[c])]
  BY <1>0, <1>6, ConcatProperties
<1>8. ByteTypes'
  BY <1>0, <1>2, <1>4, <1>5, <1>7 DEF ByteTypes
<1>9. ASSUME \A d \in Streamed : InOrderInv(d) /\ HeldInv(d)
      PROVE  (\A d \in Streamed : InOrderInv(d) /\ HeldInv(d))'
  <2>1. got'[c] = got[c] \o more /\ rbuf'[c] = rbuf[c] /\ sent'[c] = sent[c] + n
    BY <1>2, <1>4 DEF ByteTypes
  <2>2. \A d \in Streamed \ {c} : got'[d] = got[d] /\ rbuf'[d] = rbuf[d] /\ sent'[d] = sent[d]
    BY <1>2, <1>4 DEF ByteTypes
  <2>3. \A d \in Streamed \ {c} : InOrderInv(d)' /\ HeldInv(d)'
    BY <1>2, <1>3, <1>9, <2>2 DEF InOrderInv, HeldInv
  <2>4. /\ Len(got[c]) + Len(rbuf[c]) = sent[c] /\ rbuf[c] = <<>>
        /\ \A i \in 1..Len(got[c]) : got[c][i] = i
    BY <1>2, <1>9 DEF InOrderInv
  <2>5. Len(rbuf[c]) = 0 /\ sent[c] = Len(got[c])
    BY <1>1, <2>4, EmptySeq
  <2>6. Len(got'[c]) + Len(rbuf'[c]) = sent'[c]
    BY <1>1, <1>5, <1>7, <2>1, <2>5
  <2>7. \A i \in 1..Len(got'[c]) : got'[c][i] = i
    <3> SUFFICES ASSUME NEW i \in 1..(Len(got[c]) + n) PROVE (got[c] \o more)[i] = i
      BY <1>7, <2>1
    <3>1. CASE i <= Len(got[c])
      BY <1>1, <1>5, <1>7, <2>4, <3>1
    <3>2. CASE ~(i <= Len(got[c]))
      <4>1. i - Len(got[c]) \in 1..n
        BY <1>1, <1>5, <3>2
      <4>2. \A j \in 1..n : more[j] = Len(got[c]) + j
        BY <1>6, <2>5
      <4>3. (got[c] \o more)[i] = more[i - Len(got[c])]
        BY <1>7, <3>2
      <4> QED
        BY <1>1, <4>1, <4>2, <4>3
    <3> QED
      BY <3>1, <3>2
  <2>8. HeldInv(c)'
    BY <2>1, <2>4 DEF HeldInv
  <2>9. \A i \in 1..Len(rbuf'[c]) : rbuf'[c][i] = Len(got'[c]) + i
    BY <2>1, <2>5
  <2>10. InOrderInv(c)'
    BY <2>1, <2>4, <2>6, <2>7, <2>9 DEF InOrderInv
  <2> QED
    BY <2>3, <2>8, <2>10
<1> QED
  BY <1>8, <1>9

(* A packet goes whole or not at all.                                      *)
LEMMA PacketKeeps ==
    ASSUME ByteTypes, NEW c \in Streamed, Traffic!Packet(c)
    PROVE  ByteTypes'
<1>0. sent[c] \in Nat /\ got[c] \in Seq(Count) /\ MaxBytes \in Nat /\ sent[c] < MaxBytes
  BY PartsAssumption DEF ByteTypes, Traffic!Packet, Traffic!TrafficAssumption
<1>1. sent' = [sent EXCEPT ![c] = sent[c] + 1] /\ rbuf' = rbuf
  BY DEF Traffic!Packet
<1>2. PICK n \in 1..Buf :
        got' = [got EXCEPT ![c] = IF n <= Traffic!Burst(cached[c])
                                  THEN Append(got[c], sent[c] + 1) ELSE got[c]]
  BY DEF Traffic!Packet
<1>3. sent[c] + 1 \in Count /\ sent[c] + 1 \in 0..MaxBytes
  BY <1>0 DEF Count
<1>4. Append(got[c], sent[c] + 1) \in Seq(Count)
  BY <1>0, <1>3, AppendProperties
<1>5. got' \in [Streamed -> Seq(Count)]
  <2>1. CASE n <= Traffic!Burst(cached[c])
    BY <1>2, <1>4, <2>1 DEF ByteTypes
  <2>2. CASE ~(n <= Traffic!Burst(cached[c]))
    BY <1>0, <1>2, <2>2 DEF ByteTypes
  <2> QED
    BY <2>1, <2>2
<1> QED
  BY <1>1, <1>3, <1>5 DEF ByteTypes

-----------------------------------------------------------------------------
(* Reloads and look-ups.  Whatever is found has a limit, and what has one  *)
(* is given another.                                                       *)

LimitsKept ==
    /\ LimTypes'
    /\ (Steady /\ LimitsInv /\ Steady') => LimitsInv' /\ (NoLimit' <=> NoLimit)

LEMMA ReloadLimits ==
    ASSUME LimTypes, Traffic!Reload PROVE LimitsKept
<1>0. /\ source \in [Traffic!Keys -> Values] /\ reload \in Reloads /\ limit \in [Limiters -> Values]
      /\ service \in Limiters \cup {None} /\ hostLim \in Limiters \cup {None}
      /\ connLims \in [Streamed -> Limiters \cup {None}]
      /\ generator \in Values /\ ranger \in Values /\ None \notin Limiters
      /\ setup.kind # "local" => reload.pc = "idle"
  BY PartsAssumption DEF LimTypes, Traffic!TrafficAssumption
<1>1. /\ \A k \in Traffic!Keys : source[k] \in Values /\ reload.values[k] \in Values
      /\ reload.values \in [Traffic!Keys -> Values]
      /\ {"service", "conn", "host", "net"} \subseteq Traffic!Keys /\ reload.old \in Values
      /\ 0 \in Values
  BY <1>0, PartsAssumption DEF Reloads, Traffic!Keys, Traffic!TrafficAssumption
<1>2. UNCHANGED <<setup, source, toggled, looking, cached>>
  BY DEF Traffic!Reload, Traffic!ReloadService, Traffic!StoreGenerator, Traffic!SetConns,
         Traffic!ReloadHosts, Traffic!StoreRanger
<1>3. setup.kind = "local"
  BY <1>0 DEF Traffic!Reload, Traffic!ReloadService, Traffic!StoreGenerator, Traffic!SetConns,
         Traffic!ReloadHosts, Traffic!StoreRanger
<1>4. ~NoLimit /\ ~NoLimit'
  BY <1>2, <1>3 DEF NoLimit
(* It is enough that what has a limit keeps one, and what is new has one.  *)
<1>5. ASSUME limit' \in [Limiters -> Values],
             service' \in Limiters \cup {None}, hostLim' \in Limiters \cup {None},
             connLims' \in [Streamed -> Limiters \cup {None}],
             generator' \in Values, ranger' \in Values, reload' \in Reloads
      PROVE  LimTypes'
  BY <1>2, <1>3, <1>5 DEF LimTypes
<1>6. ASSUME LimTypes', LimitsInv,
             \A l \in Limiters : limit[l] # 0 => limit'[l] # 0,
             service' # None => limit'[service'] # 0,
             hostLim' # None => limit'[hostLim'] # 0,
             \A c \in Streamed : connLims'[c] # None => limit'[connLims'[c]] # 0,
             generator' = 0 <=> source["conn"] = 0,
             reload'.pc # "idle" => (reload'.values["conn"] = 0 <=> source["conn"] = 0),
             reload'.pc = "conns" => (reload'.old = 0 <=> source["conn"] = 0)
      PROVE  LimitsInv'
  <2>1. \A c \in Streamed : /\ \A i \in 1..Len(cached[c]) : cached[c][i] \in Limiters
                            /\ \A i \in 1..Len(looking[c].lims) : looking[c].lims[i] \in Limiters
    <3>1. \A c \in Streamed : cached[c] \in Seq(Limiters) /\ looking[c].lims \in Seq(Limiters)
      BY DEF LimTypes, Looks
    <3> QED
      BY <3>1, ElementOfSeq
  <2>2. \A c \in Streamed :
          /\ \A i \in 1..Len(cached[c]) : Zeros(cached[c][i])'
          /\ \A i \in 1..Len(looking[c].lims) : Zeros(looking[c].lims[i])'
    BY <1>2, <1>4, <1>6, <2>1 DEF LimitsInv, Zeros
  <2> QED
    BY <1>2, <1>6, <2>2 DEF LimitsInv
<1>7. CASE Traffic!ReloadService
  <2> DEFINE n == source["service"]
  <2>1. /\ reload' = [Traffic!NoReload EXCEPT !.pc = "generator", !.values = source]
        /\ UNCHANGED <<connLims, hostLim, generator, ranger>>
    BY <1>7 DEF Traffic!ReloadService
  <2>2. reload' \in Reloads /\ reload'.pc = "generator" /\ reload'.values = source
    BY <1>0, <1>1, <2>1 DEF Reloads, Traffic!NoReload
  <2>3. /\ limit' \in [Limiters -> Values] /\ service' \in Limiters \cup {None}
        /\ \A l \in Limiters : limit[l] # 0 => limit'[l] # 0
        /\ service' # None => limit'[service'] # 0
    <3>1. CASE n = 0
      BY <1>0, <1>7, <3>1 DEF Traffic!ReloadService
    <3>2. CASE n # 0 /\ service # None
      BY <1>0, <1>1, <1>7, <3>2 DEF Traffic!ReloadService
    <3>3. CASE n # 0 /\ service = None
      <4>1. PICK l \in Limiters : limit' = [limit EXCEPT ![l] = n] /\ service' = l
        BY <1>7, <3>3 DEF Traffic!ReloadService, Traffic!Free, Traffic!NewLimiter
      <4> QED
        BY <1>0, <1>1, <3>3, <4>1
    <3> QED
      BY <3>1, <3>2, <3>3
  <2>4. LimTypes'
    BY <1>0, <1>5, <2>1, <2>2, <2>3
  <2>5. LimitsInv => LimitsInv'
    <3> SUFFICES ASSUME LimitsInv PROVE LimitsInv'
      OBVIOUS
    <3>1. /\ hostLim' # None => limit'[hostLim'] # 0
          /\ \A c \in Streamed : connLims'[c] # None => limit'[connLims'[c]] # 0
          /\ generator' = 0 <=> source["conn"] = 0
      BY <1>0, <1>3, <2>1, <2>3 DEF LimitsInv
    <3> QED
      BY <1>6, <2>2, <2>3, <2>4, <3>1
  <2> QED
    BY <1>4, <2>4, <2>5 DEF LimitsKept
<1>8. CASE Traffic!StoreGenerator
  <2>1. /\ generator' = reload.values["conn"] /\ reload.pc = "generator"
        /\ reload' = [reload EXCEPT !.pc = "conns", !.old = generator]
        /\ UNCHANGED <<limit, service, connLims, hostLim, ranger>>
    BY <1>8 DEF Traffic!StoreGenerator
  <2>2. reload' \in Reloads /\ reload'.pc = "conns" /\ reload'.values = reload.values
        /\ reload'.old = generator
    BY <1>0, <2>1 DEF Reloads
  <2>4. LimTypes'
    BY <1>0, <1>1, <1>5, <2>1, <2>2
  <2>5. LimitsInv => LimitsInv'
    BY <1>0, <1>3, <1>6, <2>1, <2>2, <2>4 DEF LimitsInv
  <2> QED
    BY <1>4, <2>4, <2>5 DEF LimitsKept
<1>9. CASE Traffic!SetConns
  <2> DEFINE n == reload.values["conn"]
             live == {connLims[c] : c \in Streamed} \ {None}
  <2>1. /\ connLims' = IF n = 0 THEN [c \in Streamed |-> None] ELSE connLims
        /\ limit' = IF n # 0 /\ reload.old # n /\ ~setup.slow
                    THEN [l \in Limiters |-> IF l \in live THEN reload.old ELSE limit[l]]
                    ELSE limit
        /\ reload.pc = "conns" /\ reload' = [reload EXCEPT !.pc = "hosts"]
        /\ UNCHANGED <<service, hostLim, generator, ranger>>
    BY <1>9 DEF Traffic!SetConns
  <2>2. reload' \in Reloads /\ reload'.pc = "hosts" /\ reload'.values = reload.values
    BY <1>0, <2>1 DEF Reloads
  <2>3. limit' \in [Limiters -> Values] /\ connLims' \in [Streamed -> Limiters \cup {None}]
    <3> HIDE DEF live
    <3> QED
      BY <1>0, <1>1, <2>1
  <2>4. LimTypes'
    BY <1>0, <1>5, <2>1, <2>2, <2>3
  <2>5. LimitsInv => LimitsInv'
    <3> SUFFICES ASSUME LimitsInv PROVE LimitsInv'
      OBVIOUS
    <3>1. reload.old = 0 <=> n = 0
      BY <1>3, <2>1 DEF LimitsInv
    <3>2. \A l \in Limiters : limit[l] # 0 => limit'[l] # 0
      <4> HIDE DEF live
      <4> QED
        BY <1>0, <2>1, <3>1
    <3>3. /\ service' # None => limit'[service'] # 0
          /\ hostLim' # None => limit'[hostLim'] # 0
          /\ \A c \in Streamed : connLims'[c] # None => limit'[connLims'[c]] # 0
      BY <1>0, <1>3, <2>1, <3>2 DEF LimitsInv
    <3>4. generator' = 0 <=> source["conn"] = 0
      BY <1>3, <2>1 DEF LimitsInv
    <3>5. n = 0 <=> source["conn"] = 0
      BY <1>3, <2>1 DEF LimitsInv
    <3> QED
      BY <1>6, <2>2, <2>4, <3>2, <3>3, <3>4, <3>5
  <2> QED
    BY <1>4, <2>4, <2>5 DEF LimitsKept
<1>10. CASE Traffic!ReloadHosts
  <2> DEFINE own == reload.values["host"]
             n == IF own # 0 THEN own ELSE reload.values["net"]
  <2>1. /\ reload.pc = "hosts" /\ reload' = [reload EXCEPT !.pc = "ranger"]
        /\ UNCHANGED <<service, connLims, generator, ranger>>
    BY <1>10 DEF Traffic!ReloadHosts
  <2>2. reload' \in Reloads /\ reload'.pc = "ranger" /\ reload'.values = reload.values
    BY <1>0, <2>1 DEF Reloads
  <2>3. n \in Values
    BY <1>1
  <2>4. /\ limit' \in [Limiters -> Values] /\ hostLim' \in Limiters \cup {None}
        /\ \A l \in Limiters : limit[l] # 0 => limit'[l] # 0
        /\ hostLim' # None => limit'[hostLim'] # 0
    <3>1. CASE n = 0
      BY <1>0, <1>10, <3>1 DEF Traffic!ReloadHosts
    <3>2. CASE n # 0 /\ hostLim # None
      <4>1. limit' = [limit EXCEPT ![hostLim] = n] /\ hostLim' = hostLim
        BY <1>10, <3>2 DEF Traffic!ReloadHosts
      <4> QED
        BY <1>0, <2>3, <3>2, <4>1
    <3>3. CASE n # 0 /\ hostLim = None /\ own # 0
      <4>1. PICK l \in Limiters : limit' = [limit EXCEPT ![l] = own] /\ hostLim' = l
        BY <1>10, <3>3 DEF Traffic!ReloadHosts, Traffic!Free, Traffic!NewLimiter
      <4> QED
        BY <1>0, <2>3, <3>3, <4>1
    <3>4. CASE n # 0 /\ hostLim = None /\ own = 0
      BY <1>0, <1>10, <3>4 DEF Traffic!ReloadHosts
    <3> QED
      BY <3>1, <3>2, <3>3, <3>4
  <2>5. LimTypes'
    BY <1>0, <1>5, <2>1, <2>2, <2>4
  <2>6. LimitsInv => LimitsInv'
    <3> SUFFICES ASSUME LimitsInv PROVE LimitsInv'
      OBVIOUS
    <3>1. /\ service' # None => limit'[service'] # 0
          /\ \A c \in Streamed : connLims'[c] # None => limit'[connLims'[c]] # 0
          /\ generator' = 0 <=> source["conn"] = 0
          /\ reload.values["conn"] = 0 <=> source["conn"] = 0
      BY <1>0, <1>3, <2>1, <2>4 DEF LimitsInv
    <3> QED
      BY <1>6, <2>2, <2>4, <2>5, <3>1
  <2> QED
    BY <1>4, <2>5, <2>6 DEF LimitsKept
<1>11. CASE Traffic!StoreRanger
  <2>1. /\ ranger' = reload.values["net"] /\ reload' = Traffic!NoReload
        /\ UNCHANGED <<limit, service, connLims, hostLim, generator>>
    BY <1>11 DEF Traffic!StoreRanger
  <2>2. reload' \in Reloads /\ reload'.pc = "idle"
    BY <1>1, <2>1 DEF Reloads, Traffic!NoReload
  <2>3. LimTypes'
    BY <1>0, <1>1, <1>5, <2>1, <2>2
  <2>4. LimitsInv => LimitsInv'
    BY <1>0, <1>3, <1>6, <2>1, <2>2, <2>3 DEF LimitsInv
  <2> QED
    BY <1>4, <2>3, <2>4 DEF LimitsKept
<1> QED
  BY <1>7, <1>8, <1>9, <1>10, <1>11 DEF Traffic!Reload

(* A change in the sources.                                                *)
LEMMA ChangeKeeps ==
    ASSUME LimTypes, Traffic!Change PROVE LimitsKept
<1>1. PICK k \in Traffic!Keys, n \in Values :
        /\ source' = [source EXCEPT ![k] = n]
        /\ toggled' = IF 0 \in {n, source[k]} THEN toggled \cup {k} ELSE toggled
  BY DEF Traffic!Change
<1>2. UNCHANGED <<setup, limit, service, connLims, hostLim, generator, ranger, reload, looking,
                  cached>>
  BY DEF Traffic!Change
<1>3. source \in [Traffic!Keys -> Values] /\ source' \in [Traffic!Keys -> Values]
  BY <1>1 DEF LimTypes
<1>4. LimTypes'
  BY <1>2, <1>3 DEF LimTypes
<1>5. ASSUME Steady, LimitsInv, Steady'
      PROVE  LimitsInv' /\ (NoLimit' <=> NoLimit)
  <2>1. "conn" \in Traffic!Keys /\ "host" \in Traffic!Keys /\ "net" \in Traffic!Keys
        /\ "service" \in Traffic!Keys
    BY DEF Traffic!Keys
  <2>2. source'["conn"] = 0 <=> source["conn"] = 0
    <3>1. CASE k = "conn"
      BY <1>1, <1>3, <1>5, <2>1, <3>1 DEF Steady
    <3>2. CASE k # "conn"
      BY <1>1, <1>3, <2>1, <3>2
    <3> QED
      BY <3>1, <3>2
  <2>3. NoLimit' <=> NoLimit
    <3>1. CASE setup.kind = "local"
      BY <1>2, <3>1 DEF NoLimit
    <3>2. CASE setup.kind # "local"
      <4>1. toggled' = {}
        BY <1>2, <1>5, <3>2 DEF Steady
      <4>2. n # 0 /\ source[k] # 0
        BY <1>1, <4>1
      <4>3. \A x \in Traffic!Keys : source'[x] = 0 <=> source[x] = 0
        BY <1>1, <1>3, <4>2
      <4>4. Traffic!Expected' = 0 <=>
              IF setup.scope = "service" THEN source'["service"] = 0
              ELSE source'["conn"] = 0 /\ source'["host"] = 0 /\ source'["net"] = 0
        <5>1. (Traffic!Expected = 0 <=>
                 IF setup.scope = "service" THEN source["service"] = 0
                 ELSE source["conn"] = 0 /\ source["host"] = 0 /\ source["net"] = 0)'
          BY <1>4, ExpectedZero, PTL
        <5> QED
          BY <1>2, <5>1
      <4>5. Traffic!Expected = 0 <=>
              IF setup.scope = "service" THEN source["service"] = 0
              ELSE source["conn"] = 0 /\ source["host"] = 0 /\ source["net"] = 0
        BY ExpectedZero
      <4>6. Traffic!Expected' = 0 <=> Traffic!Expected = 0
        BY <2>1, <4>3, <4>4, <4>5
      <4> QED
        BY <1>2, <4>6 DEF NoLimit
    <3> QED
      BY <3>1, <3>2
  <2>4. \A l : Zeros(l)' <=> Zeros(l)
    BY <1>2, <2>3 DEF Zeros
  <2> QED
    BY <1>2, <1>5, <2>2, <2>3, <2>4 DEF LimitsInv
<1> QED
  BY <1>4, <1>5 DEF LimitsKept

(* What is true of limiters when one of them is new, or none is.           *)
LEMMA OthersKeep ==
    ASSUME LimTypes, NEW l \in Limiters, NEW n \in Values,
           limit' = [limit EXCEPT ![l] = n] \/ limit' = limit,
           UNCHANGED <<setup, source>>,
           limit' # limit => (n = 0 <=> NoLimit)
    PROVE  /\ limit' \in [Limiters -> Values]
           /\ NoLimit' <=> NoLimit
           /\ \A x \in Limiters : Zeros(x) => Zeros(x)'
           /\ setup.kind = "local" => \A x \in Limiters : limit[x] # 0 => limit'[x] # 0
<1>1. limit \in [Limiters -> Values] /\ limit' \in [Limiters -> Values]
  BY DEF LimTypes
<1>2. Traffic!Expected' = Traffic!Expected
  BY DEF Traffic!Expected
<1>3. NoLimit' <=> NoLimit
  BY <1>2 DEF NoLimit
<1>4. setup.kind = "local" => ~NoLimit
  BY DEF NoLimit
<1>5. CASE limit' = limit
  BY <1>1, <1>3, <1>5 DEF Zeros
<1>6. CASE limit' # limit
  <2>1. limit' = [limit EXCEPT ![l] = n] /\ (n = 0 <=> NoLimit)
    BY <1>6
  <2>2. \A x \in Limiters : Zeros(x) => Zeros(x)'
    <3> SUFFICES ASSUME NEW x \in Limiters, Zeros(x) PROVE Zeros(x)'
      OBVIOUS
    <3>1. CASE x = l
      BY <1>1, <1>3, <2>1, <3>1 DEF Zeros
    <3>2. CASE x # l
      BY <1>1, <1>3, <2>1, <3>2 DEF Zeros
    <3> QED
      BY <3>1, <3>2
  <2>3. setup.kind = "local" => \A x \in Limiters : limit[x] # 0 => limit'[x] # 0
    BY <1>1, <1>4, <2>1
  <2> QED
    BY <1>1, <1>3, <2>2, <2>3
<1> QED
  BY <1>5, <1>6

(* A look-up gets on: c has found the limiters "lims", one of which may be *)
(* new; it may have become the limiter of c or of the host.                *)
LEMMA LookStep ==
    ASSUME LimTypes, NEW c \in Streamed, NEW pc \in Pcs, NEW lims \in Seq(Limiters),
           Traffic!Look(c, pc, lims),
           UNCHANGED <<setup, source, service, generator, ranger, reload, cached>>,
           pc \in {"store", "storehost"} => lims # <<>>,
           setup.kind # "local" => pc \in {"idle", "done"},
           limit' \in [Limiters -> Values],
           connLims' = connLims \/ \E l \in Limiters : connLims' = [connLims EXCEPT ![c] = l],
           hostLim' \in Limiters \cup {None},
           NoLimit' <=> NoLimit,
           \A x \in Limiters : Zeros(x) => Zeros(x)',
           setup.kind = "local" => \A x \in Limiters : limit[x] # 0 => limit'[x] # 0,
           LimitsInv => \A i \in 1..Len(lims) : Zeros(lims[i])',
           LimitsInv /\ setup.kind = "local" =>
             /\ connLims'[c] # None => limit'[connLims'[c]] # 0
             /\ hostLim' # None => limit'[hostLim'] # 0
    PROVE  LimitsKept
<1>1. looking \in [Streamed -> Looks] /\ connLims \in [Streamed -> Limiters \cup {None}]
      /\ None \notin Limiters
  BY PartsAssumption DEF LimTypes, Traffic!TrafficAssumption
<1>2. looking' = [looking EXCEPT ![c] = [pc |-> pc, lims |-> lims]]
  BY DEF Traffic!Look
<1>3. [pc |-> pc, lims |-> lims] \in Looks
  BY DEF Looks
<1>4. looking' \in [Streamed -> Looks]
  BY <1>1, <1>2, <1>3
<1>5. looking'[c].pc = pc /\ looking'[c].lims = lims
      /\ \A d \in Streamed \ {c} : looking'[d] = looking[d]
  BY <1>1, <1>2
<1>6. connLims' \in [Streamed -> Limiters \cup {None}]
      /\ \A d \in Streamed \ {c} : connLims'[d] = connLims[d]
  BY <1>1
<1>7. LimTypes'
  BY <1>4, <1>5, <1>6 DEF LimTypes
<1>8. ASSUME LimitsInv PROVE LimitsInv'
  <2>1. \A d \in Streamed : /\ \A i \in 1..Len(cached[d]) : cached[d][i] \in Limiters
                            /\ \A i \in 1..Len(looking[d].lims) : looking[d].lims[i] \in Limiters
    <3>1. \A d \in Streamed : cached[d] \in Seq(Limiters) /\ looking[d].lims \in Seq(Limiters)
      BY DEF LimTypes, Looks
    <3> QED
      BY <3>1, ElementOfSeq
  <2>2. \A d \in Streamed : \A i \in 1..Len(cached[d]) : Zeros(cached[d][i])'
    <3> SUFFICES ASSUME NEW d \in Streamed, NEW i \in 1..Len(cached[d])
                 PROVE  Zeros(cached[d][i])'
      OBVIOUS
    <3>1. Zeros(cached[d][i]) /\ cached[d][i] \in Limiters
      BY <1>8, <2>1 DEF LimitsInv
    <3> QED
      BY <3>1
  <2>3. \A d \in Streamed : \A i \in 1..Len(looking'[d].lims) : Zeros(looking[d].lims[i])'
    <3> SUFFICES ASSUME NEW d \in Streamed, NEW i \in 1..Len(looking'[d].lims)
                 PROVE  Zeros(looking[d].lims[i])'
      OBVIOUS
    <3>1. CASE d = c
      BY <1>5, <1>8, <3>1 DEF Zeros
    <3>2. CASE d # c
      <4>1. looking'[d] = looking[d]
        BY <1>5, <3>2
      <4>2. Zeros(looking[d].lims[i]) /\ looking[d].lims[i] \in Limiters
        BY <1>8, <2>1, <4>1 DEF LimitsInv
      <4> QED
        BY <4>1, <4>2 DEF Zeros
    <3> QED
      BY <3>1, <3>2
  <2>4. setup.kind = "local" =>
         /\ service' # None => limit'[service'] # 0
         /\ hostLim' # None => limit'[hostLim'] # 0
         /\ \A d \in Streamed : connLims'[d] # None => limit'[connLims'[d]] # 0
         /\ generator' = 0 <=> source'["conn"] = 0
         /\ reload'.pc # "idle" => (reload'.values["conn"] = 0 <=> source'["conn"] = 0)
         /\ reload'.pc = "conns" => (reload'.old = 0 <=> source'["conn"] = 0)
    <3> SUFFICES ASSUME setup.kind = "local"
                 PROVE  /\ service' # None => limit'[service'] # 0
                        /\ hostLim' # None => limit'[hostLim'] # 0
                        /\ \A d \in Streamed : connLims'[d] # None => limit'[connLims'[d]] # 0
                        /\ generator' = 0 <=> source'["conn"] = 0
                        /\ reload'.pc # "idle" => (reload'.values["conn"] = 0 <=> source'["conn"] = 0)
                        /\ reload'.pc = "conns" => (reload'.old = 0 <=> source'["conn"] = 0)
      OBVIOUS
    <3>1. service' # None => limit'[service'] # 0
      BY <1>8 DEF LimitsInv, LimTypes
    <3>2. \A d \in Streamed \ {c} : connLims'[d] # None => limit'[connLims'[d]] # 0
      BY <1>1, <1>6, <1>8 DEF LimitsInv
    <3>3. \A d \in Streamed : connLims'[d] # None => limit'[connLims'[d]] # 0
      BY <1>8, <3>2
    <3> QED
      BY <1>8, <3>1, <3>3 DEF LimitsInv
  <2> QED
    BY <2>2, <2>3, <2>4 DEF LimitsInv
<1> QED
  BY <1>7, <1>8 DEF LimitsKept

LEMMA LookKeeps ==
    ASSUME LimTypes, NEW c \in Streamed,
           \/ Traffic!LookService(c) \/ Traffic!LookConn(c) \/ Traffic!StoreConn(c)
           \/ Traffic!LookHost(c) \/ Traffic!StoreHost(c)
    PROVE  LimitsKept
<1>a. looking[c].lims \in Seq(Limiters)
  BY DEF LimTypes, Looks
<1>b. PICK so \in Seq(Limiters) : so = looking[c].lims
  BY <1>a
<1>0. /\ limit \in [Limiters -> Values] /\ service \in Limiters \cup {None}
      /\ hostLim \in Limiters \cup {None} /\ connLims \in [Streamed -> Limiters \cup {None}]
      /\ generator \in Values /\ ranger \in Values /\ None \notin Limiters
      /\ setup.kind # "local" => looking[c].pc \in {"idle", "done"}
      /\ looking[c].pc \in {"store", "storehost"} => so # <<>>
  BY <1>b, PartsAssumption DEF LimTypes, Traffic!TrafficAssumption
<1>1. so \in Seq(Limiters)
  OBVIOUS
<1>2. Len(so) \in Nat /\ \A i \in 1..Len(so) : so[i] \in Limiters
  BY <1>1, LenProperties, ElementOfSeq
<1>3. setup.kind = "local"
  BY <1>0 DEF Traffic!LookService, Traffic!LookConn, Traffic!StoreConn, Traffic!LookHost,
              Traffic!StoreHost
<1>4. UNCHANGED <<setup, source, service, generator, ranger, reload, cached>>
  BY DEF Traffic!LookService, Traffic!LookConn, Traffic!StoreConn, Traffic!LookHost,
         Traffic!StoreHost, Traffic!limits
<1>5. ~NoLimit
  BY <1>3 DEF NoLimit
<1>6. Pcs = {"idle", "store", "host", "storehost", "done"}
  BY DEF Pcs
<1>7. <<>> \in Seq(Limiters) /\ Len(<<>>) = 0 /\ \A l \in Limiters :
        <<l>> \in Seq(Limiters) /\ Len(<<l>>) = 1 /\ <<l>>[1] = l /\ <<l>> # <<>>
  BY EmptySeq
<1>8. \A l \in Limiters :
        /\ Append(so, l) \in Seq(Limiters) /\ Len(Append(so, l)) = Len(so) + 1
        /\ Append(so, l)[Len(so) + 1] = l
        /\ \A i \in 1..Len(so) : Append(so, l)[i] = so[i]
  BY <1>1, AppendProperties
<1>9. LimitsInv =>
        /\ \A i \in 1..Len(so) : Zeros(so[i])
        /\ service # None => limit[service] # 0
        /\ hostLim # None => limit[hostLim] # 0
        /\ connLims[c] # None => limit[connLims[c]] # 0
        /\ \A x : Zeros(x) <=> limit[x] # 0
  BY <1>b, <1>3, <1>5 DEF LimitsInv, Zeros
<1>10. limit' = limit =>
         /\ limit' \in [Limiters -> Values]
         /\ NoLimit' <=> NoLimit
         /\ \A x \in Limiters : Zeros(x) => Zeros(x)'
         /\ setup.kind = "local" => \A x \in Limiters : limit[x] # 0 => limit'[x] # 0
  <2> SUFFICES ASSUME limit' = limit
               PROVE  /\ limit' \in [Limiters -> Values]
                      /\ NoLimit' <=> NoLimit
                      /\ \A x \in Limiters : Zeros(x) => Zeros(x)'
                      /\ setup.kind = "local" => \A x \in Limiters : limit[x] # 0 => limit'[x] # 0
    OBVIOUS
  <2>1. NoLimit' <=> NoLimit
    BY <1>4, <1>3 DEF NoLimit
  <2> QED
    BY <1>0, <2>1 DEF Zeros
<1>11. \A x : Zeros(x)' <=> limit'[x] # 0
  BY <1>3, <1>4 DEF Zeros, NoLimit
<1>12. CASE Traffic!LookService(c)
  <2>1. /\ Traffic!Look(c, "done", IF service = None THEN <<>> ELSE <<service>>)
        /\ UNCHANGED <<limit, connLims, hostLim>>
    BY <1>12 DEF Traffic!LookService, Traffic!limits
  <2>2. (IF service = None THEN <<>> ELSE <<service>>) \in Seq(Limiters) /\ "done" \in Pcs
    BY <1>0, <1>6, <1>7
  <2>3. PICK lims \in Seq(Limiters) : lims = IF service = None THEN <<>> ELSE <<service>>
    BY <2>2
  <2>4. LimitsInv => \A i \in 1..Len(lims) : Zeros(lims[i])'
    <3>1. CASE service = None
      BY <1>7, <2>3, <3>1
    <3>2. CASE service # None
      BY <1>0, <1>7, <1>9, <1>11, <2>1, <2>3, <3>2
    <3> QED
      BY <3>1, <3>2
  <2>5. LimitsInv /\ setup.kind = "local" =>
             /\ connLims'[c] # None => limit'[connLims'[c]] # 0
             /\ hostLim' # None => limit'[hostLim'] # 0
    BY <1>9, <2>1
  <2>6. Traffic!Look(c, "done", lims)
    BY <2>1, <2>3
  <2> QED
    BY <1>0, <1>3, <1>4, <1>10, <2>1, <2>2, <2>4, <2>5, <2>6, LookStep
<1>13. CASE Traffic!LookConn(c)
  <2>0. UNCHANGED <<connLims, hostLim>>
    BY <1>13 DEF Traffic!LookConn, Traffic!limits
  <2>1. LimitsInv /\ setup.kind = "local" /\ (\A x \in Limiters : limit[x] # 0 => limit'[x] # 0) =>
             /\ connLims'[c] # None => limit'[connLims'[c]] # 0
             /\ hostLim' # None => limit'[hostLim'] # 0
    BY <1>0, <1>9, <2>0
  <2>2. CASE connLims[c] # None /\ ~setup.slow
    <3>0. PICK l \in Limiters : l = connLims[c]
      BY <1>0, <2>2
    <3>1. Traffic!Look(c, "store", <<l>>) /\ UNCHANGED limit
      BY <1>13, <2>2, <3>0 DEF Traffic!LookConn
    <3>2. <<l>> \in Seq(Limiters) /\ "store" \in Pcs /\ <<l>> # <<>>
      BY <1>6, <1>7
    <3>3. LimitsInv => \A i \in 1..Len(<<l>>) : Zeros(<<l>>[i])'
      <4>1. LimitsInv => limit'[l] # 0
        BY <1>9, <2>2, <3>0, <3>1
      <4> QED
        BY <1>7, <1>11, <4>1
    <3> DEFINE lims == <<l>>
    <3>4. lims \in Seq(Limiters) /\ lims # <<>> /\ Traffic!Look(c, "store", lims)
          /\ (LimitsInv => \A i \in 1..Len(lims) : Zeros(lims[i])')
      BY <3>1, <3>2, <3>3
    <3> HIDE DEF lims
    <3> QED
      BY <1>0, <1>3, <1>4, <1>10, <2>0, <2>1, <3>1, <3>2, <3>4, LookStep
  <2>3. CASE ~(connLims[c] # None /\ ~setup.slow) /\ generator = 0
    <3>1. Traffic!Look(c, "host", <<>>) /\ UNCHANGED limit
      BY <1>13, <2>3 DEF Traffic!LookConn
    <3>2. <<>> \in Seq(Limiters) /\ "host" \in Pcs
      BY <1>6, <1>7
    <3>3. \A i \in 1..Len(<<>>) : Zeros(<<>>[i])'
      BY <1>7
    <3> QED
      BY <1>0, <1>3, <1>4, <1>10, <2>0, <2>1, <3>1, <3>2, <3>3, LookStep
  <2>4. CASE ~(connLims[c] # None /\ ~setup.slow) /\ generator # 0
    <3>1. PICK l \in Limiters : limit' = [limit EXCEPT ![l] = generator] /\ Traffic!Look(c, "store", <<l>>)
      BY <1>13, <2>4 DEF Traffic!LookConn, Traffic!NewLimiter, Traffic!Free
    <3>2. <<l>> \in Seq(Limiters) /\ "store" \in Pcs /\ <<l>> # <<>>
      BY <1>6, <1>7
    <3>3. /\ limit' \in [Limiters -> Values]
          /\ NoLimit' <=> NoLimit
          /\ \A x \in Limiters : Zeros(x) => Zeros(x)'
          /\ setup.kind = "local" => \A x \in Limiters : limit[x] # 0 => limit'[x] # 0
      BY <1>0, <1>4, <1>5, <2>4, <3>1, OthersKeep
    <3>4. LimitsInv => \A i \in 1..Len(<<l>>) : Zeros(<<l>>[i])'
      <4>1. limit'[l] # 0
        BY <1>0, <2>4, <3>1
      <4> QED
        BY <1>7, <1>11, <4>1
    <3> DEFINE lims == <<l>>
    <3>5. lims \in Seq(Limiters) /\ lims # <<>> /\ Traffic!Look(c, "store", lims)
          /\ (LimitsInv => \A i \in 1..Len(lims) : Zeros(lims[i])')
      BY <3>1, <3>2, <3>4
    <3> HIDE DEF lims
    <3> QED
      BY <1>0, <1>3, <1>4, <2>0, <2>1, <3>2, <3>3, <3>5, LookStep
  <2> QED
    BY <2>2, <2>3, <2>4
<1>14. CASE Traffic!StoreConn(c)
  <2>1. /\ Traffic!Look(c, "host", so) /\ connLims' = [connLims EXCEPT ![c] = so[1]]
        /\ UNCHANGED <<limit, hostLim>> /\ so # <<>>
    BY <1>0, <1>b, <1>14 DEF Traffic!StoreConn
  <2>2. so[1] \in Limiters /\ Len(so) # 0 /\ "host" \in Pcs
    BY <1>1, <1>2, <1>6, <2>1, EmptySeq
  <2>3. LimitsInv => \A i \in 1..Len(so) : Zeros(so[i])'
    BY <1>9, <1>11, <2>1
  <2>4. LimitsInv /\ setup.kind = "local" =>
             /\ connLims'[c] # None => limit'[connLims'[c]] # 0
             /\ hostLim' # None => limit'[hostLim'] # 0
    BY <1>0, <1>2, <1>9, <2>1, <2>2
  <2> QED
    BY <1>0, <1>1, <1>3, <1>4, <1>10, <2>1, <2>2, <2>3, <2>4, LookStep
<1>15. CASE Traffic!LookHost(c)
  <2>0. UNCHANGED connLims
    BY <1>15 DEF Traffic!LookHost, Traffic!limits
  <2>a. UNCHANGED hostLim
    BY <1>15 DEF Traffic!LookHost, Traffic!limits
  <2>1. LimitsInv /\ setup.kind = "local" /\ (\A x \in Limiters : limit[x] # 0 => limit'[x] # 0) =>
             /\ connLims'[c] # None => limit'[connLims'[c]] # 0
             /\ hostLim' # None => limit'[hostLim'] # 0
    BY <1>0, <1>9, <2>0, <2>a
  <2>2. CASE hostLim # None
    <3>0. PICK l \in Limiters : l = hostLim
      BY <1>0, <2>2
    <3> DEFINE lims == Append(so, l)
    <3>1. Traffic!Look(c, "done", lims) /\ UNCHANGED limit
      BY <1>b, <1>15, <2>2, <3>0 DEF Traffic!LookHost
    <3>2. lims \in Seq(Limiters) /\ "done" \in Pcs
      BY <1>6, <1>8
    <3>3. LimitsInv => \A i \in 1..Len(lims) : Zeros(lims[i])'
      <4> SUFFICES ASSUME LimitsInv, NEW i \in 1..(Len(so) + 1) PROVE Zeros(lims[i])'
        BY <1>8
      <4>1. CASE i = Len(so) + 1
        <5>1. limit'[l] # 0
          BY <1>9, <2>2, <3>0, <3>1
        <5> QED
          BY <1>8, <1>11, <4>1, <5>1
      <4>2. CASE i # Len(so) + 1
        <5>1. i \in 1..Len(so) /\ lims[i] = so[i]
          BY <1>2, <1>8, <4>2
        <5>2. limit'[so[i]] # 0
          BY <1>9, <3>1, <5>1
        <5> QED
          BY <1>11, <5>1, <5>2
      <4> QED
        BY <4>1, <4>2
    <3> HIDE DEF lims
    <3> QED
      BY <1>0, <1>3, <1>4, <1>10, <2>0, <2>a, <2>1, <3>1, <3>2, <3>3, LookStep
  <2>3. CASE hostLim = None /\ ranger = 0
    <3>1. Traffic!Look(c, "done", so) /\ UNCHANGED limit /\ "done" \in Pcs
      BY <1>6, <1>b, <1>15, <2>3 DEF Traffic!LookHost
    <3>2. LimitsInv => \A i \in 1..Len(so) : Zeros(so[i])'
      BY <1>9, <1>11, <3>1
    <3> QED
      BY <1>0, <1>1, <1>3, <1>4, <1>10, <2>0, <2>a, <2>1, <3>1, <3>2, LookStep
  <2>4. CASE hostLim = None /\ ranger # 0
    <3>1. PICK l \in Limiters : /\ limit' = [limit EXCEPT ![l] = ranger]
                                /\ Traffic!Look(c, "storehost", Append(so, l))
      BY <1>b, <1>15, <2>4 DEF Traffic!LookHost, Traffic!NewLimiter, Traffic!Free
    <3> DEFINE lims == Append(so, l)
    <3>2. lims \in Seq(Limiters) /\ "storehost" \in Pcs /\ lims # <<>>
      <4>1. lims \in Seq(Limiters) /\ Len(lims) = Len(so) + 1
        BY <1>8
      <4>2. lims # <<>>
        BY <1>2, <1>7, <4>1
      <4> QED
        BY <1>6, <4>1, <4>2
    <3>3. /\ limit' \in [Limiters -> Values]
          /\ NoLimit' <=> NoLimit
          /\ \A x \in Limiters : Zeros(x) => Zeros(x)'
          /\ setup.kind = "local" => \A x \in Limiters : limit[x] # 0 => limit'[x] # 0
      BY <1>0, <1>4, <1>5, <2>4, <3>1, OthersKeep
    <3>4. LimitsInv => \A i \in 1..Len(lims) : Zeros(lims[i])'
      <4> SUFFICES ASSUME LimitsInv, NEW i \in 1..(Len(so) + 1) PROVE Zeros(lims[i])'
        BY <1>8
      <4>1. CASE i = Len(so) + 1
        <5>1. limit'[l] # 0
          BY <1>0, <2>4, <3>1
        <5> QED
          BY <1>8, <1>11, <4>1, <5>1
      <4>2. CASE i # Len(so) + 1
        <5>1. i \in 1..Len(so) /\ lims[i] = so[i]
          BY <1>2, <1>8, <4>2
        <5>2. limit[so[i]] # 0 /\ so[i] \in Limiters
          BY <1>2, <1>9, <5>1
        <5>3. limit'[so[i]] # 0
          BY <1>3, <3>3, <5>2
        <5> QED
          BY <1>11, <5>1, <5>3
      <4> QED
        BY <4>1, <4>2
    <3>5. Traffic!Look(c, "storehost", lims)
      BY <3>1
    <3> HIDE DEF lims
    <3> QED
      BY <1>0, <1>3, <1>4, <2>0, <2>a, <2>1, <3>2, <3>3, <3>4, <3>5, LookStep
  <2> QED
    BY <2>2, <2>3, <2>4
<1>16. CASE Traffic!StoreHost(c)
  <2>1. /\ Traffic!Look(c, "done", so) /\ hostLim' = so[Len(so)]
        /\ UNCHANGED <<limit, connLims>> /\ so # <<>>
    BY <1>0, <1>b, <1>16 DEF Traffic!StoreHost
  <2>2. so[Len(so)] \in Limiters /\ Len(so) # 0 /\ "done" \in Pcs
    BY <1>1, <1>2, <1>6, <2>1, EmptySeq
  <2>3. LimitsInv => \A i \in 1..Len(so) : Zeros(so[i])'
    BY <1>9, <1>11, <2>1
  <2>4. LimitsInv /\ setup.kind = "local" =>
             /\ connLims'[c] # None => limit'[connLims'[c]] # 0
             /\ hostLim' # None => limit'[hostLim'] # 0
    <3>1. Len(so) \in 1..Len(so)
      BY <1>2, <2>2
    <3> QED
      BY <1>9, <2>1, <3>1
  <2> QED
    BY <1>0, <1>1, <1>3, <1>4, <1>10, <2>1, <2>2, <2>3, <2>4, LookStep
<1> QED
  BY <1>12, <1>13, <1>14, <1>15, <1>16

(* A plugin answers.                                                       *)
LEMMA AnswerKeeps ==
    ASSUME LimTypes, NEW c \in Streamed, setup.kind # "local", Traffic!Answer(c)
    PROVE  LimitsKept
<1>0. /\ limit \in [Limiters -> Values] /\ hostLim \in Limiters \cup {None}
      /\ Traffic!Expected \in Values
  BY ExpectedValue DEF LimTypes
<1>1. UNCHANGED <<setup, source, service, generator, ranger, reload, cached, connLims, hostLim>>
  BY DEF Traffic!Answer, Traffic!limits
<1>2. <<>> \in Seq(Limiters) /\ Len(<<>>) = 0 /\ "done" \in Pcs
  BY EmptySeq DEF Pcs
<1>3. Traffic!Expected = 0 <=> NoLimit
  BY DEF NoLimit
<1>4. CASE Traffic!Look(c, "done", <<>>) /\ UNCHANGED limit
  <2>1. NoLimit' <=> NoLimit
    BY <1>1 DEF NoLimit, Traffic!Expected
  <2>2. \A x \in Limiters : Zeros(x) => Zeros(x)'
    BY <1>4, <2>1 DEF Zeros
  <2>3. \A i \in 1..Len(<<>>) : Zeros(<<>>[i])'
    BY <1>2
  <2> QED
    BY <1>0, <1>1, <1>2, <1>4, <2>1, <2>2, <2>3, LookStep
<1>5. CASE \E l \in Traffic!Free :
             Traffic!NewLimiter(l, Traffic!Expected) /\ Traffic!Look(c, "done", <<l>>)
  <2>1. PICK l \in Limiters : /\ limit' = [limit EXCEPT ![l] = Traffic!Expected]
                              /\ Traffic!Look(c, "done", <<l>>)
    BY <1>5 DEF Traffic!NewLimiter, Traffic!Free
  <2>2. /\ limit' \in [Limiters -> Values]
        /\ NoLimit' <=> NoLimit
        /\ \A x \in Limiters : Zeros(x) => Zeros(x)'
    BY <1>0, <1>1, <1>3, <2>1, OthersKeep
  <2> DEFINE lims == <<l>>
  <2>3. lims \in Seq(Limiters) /\ Traffic!Look(c, "done", lims)
    BY <2>1
  <2>4. \A i \in 1..Len(lims) : Zeros(lims[i])'
    <3>1. limit'[l] = Traffic!Expected
      BY <1>0, <2>1
    <3>2. Zeros(l)'
      BY <1>3, <2>2, <3>1 DEF Zeros
    <3> QED
      BY <3>2 DEF Zeros
  <2> HIDE DEF lims
  <2> QED
    BY <1>0, <1>1, <1>2, <2>2, <2>3, <2>4, LookStep
<1> QED
  BY <1>4, <1>5 DEF Traffic!Answer

(* The answer is kept, with the limiters sorted.                           *)
LEMMA CacheKeeps ==
    ASSUME LimTypes, NEW c \in Streamed, Traffic!Cache(c)
    PROVE  LimitsKept /\ \A d \in Streamed : cached[d] # <<>> => cached'[d] # <<>>
<1> DEFINE so == looking[c].lims
           new == Traffic!Sorted(so)
           next == IF new = <<>> THEN cached[c]
                   ELSE IF cached[c] # <<>> /\ Traffic!GroupLimit(cached[c]) = Traffic!GroupLimit(new)
                   THEN cached[c] ELSE new
<1>1. /\ looking \in [Streamed -> Looks] /\ cached \in [Streamed -> Seq(Limiters)]
      /\ so \in Seq(Limiters)
  BY DEF LimTypes, Looks
<1>2. UNCHANGED <<setup, source, toggled, limit, service, connLims, hostLim, generator, ranger, reload>>
  BY DEF Traffic!Cache, Traffic!limits
<1>3. new \in Seq(Limiters) /\ (new = <<>> <=> so = <<>>)
      /\ \A i \in 1..Len(new) : \E j \in 1..Len(so) : new[i] = so[j]
  <2>1. CASE Len(so) = 2 /\ limit[so[2]] < limit[so[1]]
    <3>1. new = <<so[2], so[1]>>
      BY <2>1 DEF Traffic!Sorted
    <3>2. so[1] \in Limiters /\ so[2] \in Limiters
      BY <1>1, <2>1, ElementOfSeq
    <3>3. Len(new) = 2 /\ new[1] = so[2] /\ new[2] = so[1] /\ new \in Seq(Limiters)
      BY <3>1, <3>2
    <3>4. new # <<>> /\ so # <<>>
      BY <2>1, <3>3, EmptySeq
    <3> QED
      BY <2>1, <3>3, <3>4
  <2>2. CASE ~(Len(so) = 2 /\ limit[so[2]] < limit[so[1]])
    BY <1>1, <2>2 DEF Traffic!Sorted
  <2> QED
    BY <2>1, <2>2
<1>4. cached' = [cached EXCEPT ![c] = next] /\ looking' = [looking EXCEPT ![c] = Traffic!NoLook]
  BY DEF Traffic!Cache
<1> HIDE DEF new
<1>5. next \in Seq(Limiters) /\ (cached[c] # <<>> => next # <<>>) /\ (next = cached[c] \/ next = new)
  BY <1>1, <1>3
<1> HIDE DEF next
<1>6. Traffic!NoLook \in Looks /\ Traffic!NoLook.pc = "idle" /\ Traffic!NoLook.lims = <<>>
  BY EmptySeq DEF Traffic!NoLook, Looks, Pcs
<1>7. /\ looking' \in [Streamed -> Looks] /\ cached' \in [Streamed -> Seq(Limiters)]
      /\ looking'[c] = Traffic!NoLook /\ cached'[c] = next
      /\ \A d \in Streamed \ {c} : looking'[d] = looking[d] /\ cached'[d] = cached[d]
  BY <1>1, <1>4, <1>5, <1>6
<1>8. LimTypes'
  <2>1. \A d \in Streamed : looking'[d].pc \in {"store", "storehost"} => looking'[d].lims # <<>>
    <3> SUFFICES ASSUME NEW d \in Streamed
                 PROVE  looking'[d].pc \in {"store", "storehost"} => looking'[d].lims # <<>>
      OBVIOUS
    <3>1. CASE d = c
      BY <1>6, <1>7, <3>1
    <3>2. CASE d # c
      BY <1>7, <3>2 DEF LimTypes
    <3> QED
      BY <3>1, <3>2
  <2>2. setup'.kind # "local" =>
          reload'.pc = "idle" /\ \A d \in Streamed : looking'[d].pc \in {"idle", "done"}
    <3> SUFFICES ASSUME setup.kind # "local", NEW d \in Streamed
                 PROVE  reload.pc = "idle" /\ looking'[d].pc \in {"idle", "done"}
      BY <1>2 DEF LimTypes
    <3>1. CASE d = c
      BY <1>6, <1>7, <3>1 DEF LimTypes
    <3>2. CASE d # c
      BY <1>7, <3>2 DEF LimTypes
    <3> QED
      BY <3>1, <3>2
  <2> QED
    BY <1>2, <1>7, <2>1, <2>2 DEF LimTypes
<1>9. NoLimit' <=> NoLimit
  BY <1>2 DEF NoLimit, Traffic!Expected
<1>10. \A x : Zeros(x)' <=> Zeros(x)
  BY <1>2, <1>9 DEF Zeros
<1>11. ASSUME LimitsInv PROVE LimitsInv'
  <2>1. \A d \in Streamed : \A i \in 1..Len(cached'[d]) : Zeros(cached'[d][i])
    <3> SUFFICES ASSUME NEW d \in Streamed, NEW i \in 1..Len(cached'[d]) PROVE Zeros(cached'[d][i])
      OBVIOUS
    <3>1. CASE cached'[d] = cached[d]
      BY <1>11, <3>1 DEF LimitsInv, Zeros
    <3>2. CASE d = c /\ cached'[d] = new
      <4>1. PICK j \in 1..Len(so) : new[i] = so[j]
        BY <1>3, <3>2
      <4>2. Zeros(so[j])
        BY <1>11 DEF LimitsInv, Zeros
      <4> QED
        BY <3>2, <4>1, <4>2 DEF Zeros
    <3> QED
      BY <1>5, <1>7, <3>1, <3>2
  <2>2. \A d \in Streamed : \A i \in 1..Len(looking'[d].lims) : Zeros(looking'[d].lims[i])
    <3> SUFFICES ASSUME NEW d \in Streamed, NEW i \in 1..Len(looking'[d].lims)
                 PROVE  Zeros(looking'[d].lims[i])
      OBVIOUS
    <3>1. CASE d = c
      <4>1. Len(looking'[d].lims) = 0
        BY <1>6, <1>7, <3>1, EmptySeq
      <4> QED
        BY <4>1
    <3>2. CASE d # c
      BY <1>7, <1>11, <3>2 DEF LimitsInv, Zeros
    <3> QED
      BY <3>1, <3>2
  <2>3. \A d \in Streamed :
         /\ \A i \in 1..Len(cached'[d]) : Zeros(cached[d][i])'
         /\ \A i \in 1..Len(looking'[d].lims) : Zeros(looking[d].lims[i])'
    BY <1>2, <1>9, <2>1, <2>2 DEF Zeros
  <2> QED
    BY <1>2, <1>11, <2>3 DEF LimitsInv
<1>12. \A d \in Streamed : cached[d] # <<>> => cached'[d] # <<>>
  BY <1>5, <1>7
<1> QED
  BY <1>8, <1>9, <1>11, <1>12 DEF LimitsKept

-----------------------------------------------------------------------------
(* Every step.                                                             *)

LEMMA LimitsStep ==
    ASSUME TrafficInv, LimitsKept, UNCHANGED <<setup, sent, rbuf, got>>, toggled \subseteq toggled',
           \A d \in Streamed : cached[d] # <<>> => cached'[d] # <<>>
    PROVE  TrafficInv'
<1>1. LimTypes' /\ ByteTypes'
  BY DEF TrafficInv, LimitsKept, ByteTypes
<1>2. ASSUME Steady' PROVE SteadyInv'
  <2>1. Steady
    BY <1>2 DEF Steady
  <2>2. LimitsInv /\ \A d \in Streamed : InOrderInv(d) /\ HeldInv(d)
    BY <2>1 DEF TrafficInv, SteadyInv
  <2>3. LimitsInv' /\ (NoLimit' <=> NoLimit)
    BY <1>2, <2>1, <2>2 DEF LimitsKept
  <2>4. \A d \in Streamed : InOrderInv(d)'
    BY <2>2 DEF InOrderInv
  <2>5. \A d \in Streamed : HeldInv(d)'
    <3> SUFFICES ASSUME NEW d \in Streamed, rbuf[d] # <<>>
                 PROVE  Traffic!GroupLimit(cached[d])'  # 0
      BY DEF HeldInv
    <3>1. cached[d] # <<>> /\ limit[cached[d][1]] # 0
      BY <2>2 DEF HeldInv, Traffic!GroupLimit
    <3>2. cached[d] \in Seq(Limiters) /\ cached'[d] \in Seq(Limiters) /\ cached'[d] # <<>>
      BY <1>1, <3>1 DEF TrafficInv, LimTypes
    <3>3. 1 \in 1..Len(cached[d]) /\ 1 \in 1..Len(cached'[d])
      BY <3>1, <3>2, EmptySeq, LenProperties
    <3>4. Zeros(cached[d][1])
      BY <2>2, <3>3 DEF LimitsInv
    <3>5. ~NoLimit'
      BY <2>3, <3>1, <3>4 DEF Zeros
    <3>6. limit'[cached'[d][1]] # 0
      BY <2>3, <3>3, <3>5 DEF LimitsInv, Zeros
    <3> QED
      BY <3>2, <3>6 DEF Traffic!GroupLimit
  <2> QED
    BY <2>3, <2>4, <2>5 DEF SteadyInv
<1> QED
  BY <1>1, <1>2 DEF TrafficInv

LEMMA BytesKept ==
    ASSUME TrafficInv, ByteTypes',
           UNCHANGED <<setup, source, toggled, limit, service, connLims, hostLim, generator, ranger,
                       reload, looking, cached>>,
           Steady => ((\A d \in Streamed : InOrderInv(d) /\ HeldInv(d))
                        => (\A d \in Streamed : InOrderInv(d) /\ HeldInv(d))')
    PROVE  TrafficInv'
<1>1. LimTypes'
  BY DEF TrafficInv, LimTypes
<1>2. Steady' <=> Steady
  BY DEF Steady
<1>3. LimitsInv => LimitsInv'
  <2>1. NoLimit' <=> NoLimit
    BY DEF NoLimit, Traffic!Expected
  <2>2. \A x : Zeros(x)' <=> Zeros(x)
    BY <2>1 DEF Zeros
  <2> SUFFICES ASSUME LimitsInv PROVE LimitsInv'
    OBVIOUS
  <2>3. \A c \in Streamed :
          /\ \A i \in 1..Len(cached[c]) : Zeros(cached[c][i])'
          /\ \A i \in 1..Len(looking[c].lims) : Zeros(looking[c].lims[i])'
    BY <2>1 DEF LimitsInv, Zeros
  <2> QED
    BY <2>3 DEF LimitsInv
<1> QED
  BY <1>1, <1>2, <1>3 DEF TrafficInv, SteadyInv

LEMMA TrafficNext == TrafficInv /\ [Traffic!Next]_trafficVars => TrafficInv'
<1> SUFFICES ASSUME TrafficInv, [Traffic!Next]_trafficVars PROVE TrafficInv'
  OBVIOUS
<1>0. LimTypes /\ ByteTypes
  BY DEF TrafficInv
<1>1. CASE Traffic!Reload
  <2>1. UNCHANGED <<setup, toggled, sent, rbuf, got, cached>>
    BY <1>1 DEF Traffic!Reload, Traffic!ReloadService, Traffic!StoreGenerator, Traffic!SetConns,
                Traffic!ReloadHosts, Traffic!StoreRanger
  <2> QED
    BY <1>0, <1>1, <2>1, ReloadLimits, LimitsStep
<1>2. CASE Traffic!Change
  <2>1. UNCHANGED <<setup, sent, rbuf, got, cached>> /\ toggled \subseteq toggled'
    BY <1>2 DEF Traffic!Change
  <2> QED
    BY <1>0, <1>2, <2>1, ChangeKeeps, LimitsStep
<1>3. ASSUME NEW c \in Streamed, Traffic!LookUp(c) PROVE TrafficInv'
  <2>1. CASE Traffic!LookLocal(c)
    <3>1. UNCHANGED <<setup, toggled, sent, rbuf, got, cached>>
      BY <2>1 DEF Traffic!LookLocal, Traffic!LookService, Traffic!LookConn, Traffic!StoreConn,
                  Traffic!LookHost, Traffic!StoreHost
    <3>2. LimitsKept
      BY <1>0, <2>1, LookKeeps DEF Traffic!LookLocal
    <3> QED
      BY <3>1, <3>2, LimitsStep
  <2>2. CASE setup.kind # "local" /\ Traffic!Answer(c)
    <3>1. UNCHANGED <<setup, toggled, sent, rbuf, got, cached>>
      BY <2>2 DEF Traffic!Answer
    <3>2. LimitsKept
      BY <1>0, <2>2, AnswerKeeps
    <3> QED
      BY <3>1, <3>2, LimitsStep
  <2>3. CASE Traffic!Cache(c)
    <3>1. UNCHANGED <<setup, toggled, sent, rbuf, got>>
      BY <2>3 DEF Traffic!Cache
    <3>2. LimitsKept /\ \A d \in Streamed : cached[d] # <<>> => cached'[d] # <<>>
      BY <1>0, <2>3, CacheKeeps
    <3> QED
      BY <3>1, <3>2, LimitsStep
  <2> QED
    BY <1>3, <2>1, <2>2, <2>3 DEF Traffic!LookUp, Traffic!In, Traffic!Out, Traffic!LookGrpc, Traffic!LookHttp
<1>4. ASSUME NEW c \in Streamed, Traffic!ReadOrWrite(c) PROVE TrafficInv'
  <2>1. CASE Traffic!ReadBuffered(c)
    <3>1. UNCHANGED <<setup, source, toggled, limit, service, connLims, hostLim, generator, ranger,
                      reload, looking, cached>>
      BY <2>1 DEF Traffic!ReadBuffered, Traffic!limits
    <3> QED
      BY <1>0, <2>1, <3>1, ReadKeeps, BytesKept
  <2>2. CASE Traffic!WriteBursts(c)
    <3>1. UNCHANGED <<setup, source, toggled, limit, service, connLims, hostLim, generator, ranger,
                      reload, looking, cached>>
      BY <2>2 DEF Traffic!WriteBursts, Traffic!limits
    <3> QED
      BY <1>0, <2>2, <3>1, WriteKeeps, BytesKept
  <2>3. CASE setup.use \in {"packet", "udp"} /\ Traffic!Packet(c)
    <3>1. UNCHANGED <<setup, source, toggled, limit, service, connLims, hostLim, generator, ranger,
                      reload, looking, cached>>
      BY <2>3 DEF Traffic!Packet, Traffic!limits
    <3>2. ~Steady
      BY <2>3 DEF Steady
    <3> QED
      BY <1>0, <2>3, <3>1, <3>2, PacketKeeps, BytesKept
  <2> QED
    BY <1>4, <2>1, <2>2, <2>3 DEF Traffic!ReadOrWrite, Traffic!Read, Traffic!ReadWriterRead,
       Traffic!Write, Traffic!ReadWriterWrite, Traffic!ReadFrom, Traffic!WriteTo, Traffic!UdpRead,
       Traffic!UdpWrite
<1>5. CASE UNCHANGED trafficVars
  <2>1. UNCHANGED <<setup, source, toggled, limit, service, connLims, hostLim, generator, ranger,
                    reload, looking, cached, sent, rbuf, got>>
    BY <1>5 DEF trafficVars
  <2>2. ByteTypes'
    BY <1>0, <2>1 DEF ByteTypes
  <2>3. (\A d \in Streamed : InOrderInv(d) /\ HeldInv(d))
           => (\A d \in Streamed : InOrderInv(d) /\ HeldInv(d))'
    BY <2>1 DEF InOrderInv, HeldInv, Traffic!GroupLimit
  <2> QED
    BY <2>1, <2>2, <2>3, BytesKept
<1> QED
  BY <1>1, <1>2, <1>3, <1>4, <1>5 DEF Traffic!Next

LEMMA TrafficInvIsRight == TrafficInv => Traffic!TypeOK /\ Traffic!BytesInOrder
<1> SUFFICES ASSUME TrafficInv PROVE Traffic!TypeOK /\ Traffic!BytesInOrder
  OBVIOUS
<1>1. Traffic!TypeOK
  <2>1. \A c \in Streamed : looking[c].pc \in Pcs
    BY DEF TrafficInv, LimTypes, Looks
  <2> QED
    BY <2>1 DEF TrafficInv, LimTypes, ByteTypes, Count, Pcs, Traffic!TypeOK
<1>2. Traffic!BytesInOrder
  <2> SUFFICES ASSUME NEW c \in Streamed, Steady
               PROVE  got[c] = Traffic!Bytes(0, Len(got[c]))
    BY DEF Traffic!BytesInOrder, Steady
  <2>1. \A i \in 1..Len(got[c]) : got[c][i] = i
    BY DEF TrafficInv, SteadyInv, InOrderInv
  <2>2. got[c] \in Seq(Count)
    BY DEF TrafficInv, ByteTypes
  <2>3. Len(got[c]) \in Nat /\ DOMAIN got[c] = 1..Len(got[c]) /\ got[c] \in [1..Len(got[c]) -> Count]
    BY <2>2, LenProperties
  <2>4. got[c] = [i \in 1..Len(got[c]) |-> got[c][i]]
    BY <2>3
  <2>5. \A i \in 1..Len(got[c]) : 0 + i = got[c][i]
    BY <2>1
  <2> QED
    BY <2>4, <2>5 DEF Traffic!Bytes
<1> QED
  BY <1>1, <1>2

(* A limiter never changes the order of the bytes of a connection, however *)
(* reloads, look-ups, reads and writes interleave.                         *)
THEOREM BytesStayInOrder == Traffic!Spec => []Traffic!BytesInOrder
<1>1. TrafficInv /\ [Traffic!Next]_(Traffic!vars) => TrafficInv'
  BY TrafficNext DEF Traffic!vars, trafficVars
<1> QED
  BY <1>1, TrafficInit, TrafficInvIsRight, PTL DEF Traffic!Spec

-----------------------------------------------------------------------------
(* Dialers.                                                                *)

Calls == [pc : {"idle", "dial", "init", "shake", "open", "handshake", "use", "shakeplain"},
          conn : Wires \cup {None}]

DialTypes ==
    /\ dialer \in Dialled
    /\ wire \in [Wires -> {"none", "open", "broken", "closed"}]
    /\ session \in [conn : Wires \cup {None}, up : BOOLEAN, dead : BOOLEAN]
    /\ mutex \in Callers \cup {None}
    /\ caller \in [Callers -> Calls]
    /\ \A p \in Callers : (caller[p].pc \in Dialers!InLock) <=> (mutex = p)

(* What a call in the lock relies on; the lock keeps it true.              *)
LockInv ==
    \A p \in Callers :
        /\ caller[p].pc \in {"dial", "init"} => session = Dialers!NoSession
        /\ caller[p].pc = "shake" => ~session.up /\ session.conn \in {None, caller[p].conn}
        /\ caller[p].pc = "open" => session.conn = caller[p].conn

StyleInv ==
    /\ Dialers!D.style = "client" => session.conn = None
    /\ Dialers!D.style = "plain" => session = Dialers!NoSession
    /\ Dialers!D.style # "client" => session = Dialers!NoSession \/ session.conn # None
    /\ Dialers!D.style # "two" => (session = Dialers!NoSession \/ session.up)
    /\ session.dead => session.up /\ (session.conn = None \/ wire[session.conn] = "closed")
    /\ \A p \in Callers :
          /\ caller[p].pc = "dial" => caller[p].conn = None /\ Dialers!D.style # "plain"
          /\ caller[p].pc = "init" => Dialers!D.style = "session" /\ caller[p].conn # None
          /\ caller[p].pc \in {"handshake", "shake"} => Dialers!D.style = "two" /\ caller[p].conn # None
          /\ caller[p].pc = "shakeplain" => Dialers!D.style = "plain"

(* The calls that close their connection, or make it the session.          *)
Owns(p) ==
    \/ caller[p].pc \in {"init", "handshake", "shake", "shakeplain"}
    \/ Dialers!D.style = "plain" /\ caller[p].pc = "use"
OwnerInv ==
    /\ \A c \in Wires : wire[c] \in {"open", "broken"} =>
          session.conn = c \/ \E p \in Callers : caller[p].conn = c /\ Owns(p)
    /\ session.conn # None /\ ~session.up =>
          \E p \in Callers : caller[p].conn = session.conn /\ caller[p].pc \in {"handshake", "shake"}

DialInv == DialTypes /\ LockInv /\ StyleInv /\ OwnerInv

(* What is known of every dialer: the style is one of four; a session that *)
(* is made in two calls asks, and only a session is dropped.               *)
LEMMA Styles ==
    ASSUME dialer \in Dialled
    PROVE  /\ Dialers!D.style \in {"plain", "session", "two", "client"}
           /\ Dialers!D.style = "two" => Dialers!D.asks /\ Dialers!D.opens
           /\ Dialers!D.drops => Dialers!D.opens /\ Dialers!D.style \in {"session", "two"}
           /\ Dialers!D.forgets => Dialers!D.style = "client"
           /\ {Dialers!D.asks, Dialers!D.opens, Dialers!D.drops, Dialers!D.forgets} \subseteq BOOLEAN
<1> DEFINE Good(r) ==
             /\ r.style \in {"plain", "session", "two", "client"}
             /\ r.style = "two" => r.asks /\ r.opens
             /\ r.drops => r.opens /\ r.style \in {"session", "two"}
             /\ r.forgets => r.style = "client"
             /\ {r.asks, r.opens, r.drops, r.forgets} \subseteq BOOLEAN
<1>1. Good(Dialers!Tcp) /\ Good(Dialers!Udp) /\ Good(Dialers!Unix)
      /\ Good(Dialers!Serial) /\ Good(Dialers!Wg) /\ Good(Dialers!Ftcp)
      /\ Good(Dialers!ObfsHttp) /\ Good(Dialers!ObfsTls) /\ Good(Dialers!Tls)
      /\ Good(Dialers!Dtls) /\ Good(Dialers!Ws)
  BY DEF Dialers!Plain, Dialers!Mux, Dialers!Client, Dialers!Tcp, Dialers!Udp, Dialers!Unix,
         Dialers!Serial, Dialers!Wg, Dialers!Ftcp, Dialers!ObfsHttp, Dialers!ObfsTls,
         Dialers!Tls, Dialers!Dtls, Dialers!Ws
<1>2. Good(Dialers!Mtcp) /\ Good(Dialers!Mtls) /\ Good(Dialers!Mws)
  BY DEF Dialers!Plain, Dialers!Mux, Dialers!Client, Dialers!Mtcp, Dialers!Mtls, Dialers!Mws
<1>3. Good(Dialers!Kcp) /\ Good(Dialers!Quic) /\ Good(Dialers!Icmp)
      /\ Good(Dialers!Ssh) /\ Good(Dialers!Sshd) /\ Good(Dialers!Wt)
  BY DEF Dialers!Plain, Dialers!Mux, Dialers!Client, Dialers!Kcp, Dialers!Quic, Dialers!Icmp,
         Dialers!Ssh, Dialers!Sshd, Dialers!Wt
<1>4. Good(Dialers!Http2) /\ Good(Dialers!H2) /\ Good(Dialers!Http3)
      /\ Good(Dialers!Grpc) /\ Good(Dialers!Pht)
  BY DEF Dialers!Plain, Dialers!Mux, Dialers!Client, Dialers!Http2, Dialers!H2, Dialers!Http3,
         Dialers!Grpc, Dialers!Pht
<1> HIDE DEF Good
<1>5. dialer \in DOMAIN Dialers!Dialer
  BY PartsAssumption DEF Dialers!DialAssumption
<1>6. Dialers!D \in
       {Dialers!Tcp, Dialers!Udp, Dialers!Unix, Dialers!Serial, Dialers!Wg, Dialers!Ftcp,
        Dialers!ObfsHttp, Dialers!ObfsTls, Dialers!Tls, Dialers!Dtls, Dialers!Ws, Dialers!Mtcp,
        Dialers!Mtls, Dialers!Mws, Dialers!Kcp, Dialers!Quic, Dialers!Icmp, Dialers!Ssh,
        Dialers!Sshd, Dialers!Wt, Dialers!Http2, Dialers!H2, Dialers!Http3, Dialers!Grpc,
        Dialers!Pht}
  BY ONLY <1>5 DEF Dialers!D, Dialers!Dialer
<1>7. Good(Dialers!D)
  BY ONLY <1>1, <1>2, <1>3, <1>4, <1>6
<1> QED
  BY <1>7 DEF Good

LEMMA DialInit == Dialers!Init => DialInv
<1> QED
  BY PartsAssumption DEF Dialers!DialAssumption, Dialers!Init, DialInv, DialTypes, LockInv, StyleInv, OwnerInv, Calls, Owns,
     Dialers!NoSession, Dialers!Idle, Dialers!InLock

LEMMA DialKeeps == ASSUME DialInv, NEW p \in Callers, Dialers!Dial(p) PROVE DialInv'
<1> USE PartsAssumption DEF Dialers!DialAssumption, DialInv, Dialers!Dial, Dialers!Go, Dialers!Fail,
        Dialers!Connect, Dialers!Referenced, Dialers!Works, Dialers!Close, Dialers!Has,
        Dialers!IsClosed, Dialers!NoSession, Dialers!InLock
<1>0. Dialers!D' = Dialers!D /\ dialer' = dialer
  BY DEF Dialers!D
<1>s. Dialers!D.style \in {"plain", "session", "two", "client"}
      /\ (Dialers!D.style = "two" => Dialers!D.asks /\ Dialers!D.opens)
      /\ (Dialers!D.drops => Dialers!D.opens /\ Dialers!D.style \in {"session", "two"})
      /\ (Dialers!D.forgets => Dialers!D.style = "client")
  BY Styles DEF DialTypes
<1>1. DialTypes'
  BY <1>0, <1>s DEF DialTypes, Calls, LockInv, StyleInv
<1>2. LockInv'
  BY <1>0, <1>s DEF DialTypes, Calls, LockInv, StyleInv
<1>3. StyleInv'
  <2>1. /\ Dialers!D.style = "client" => session'.conn = None
        /\ Dialers!D.style = "plain" => session' = Dialers!NoSession
        /\ Dialers!D.style # "client" => session' = Dialers!NoSession \/ session'.conn # None
        /\ Dialers!D.style # "two" => (session' = Dialers!NoSession \/ session'.up)
    BY <1>0, <1>s DEF DialTypes, Calls, LockInv, StyleInv
  <2>2. session'.dead => session'.up /\ (session'.conn = None \/ wire'[session'.conn] = "closed")
    BY <1>0, <1>s DEF DialTypes, Calls, LockInv, StyleInv
  <2>3. PICK r \in Calls : /\ caller' = [caller EXCEPT ![p] = r]
                           /\ r.pc = "dial" => r.conn = None
                           /\ r.pc = "handshake" => Dialers!D.style = "two" /\ r.conn # None
                           /\ r.pc \in {"dial", "handshake", "open"}
    <3>1. \/ caller' = [caller EXCEPT ![p] = [pc |-> "dial", conn |-> None]]
          \/ /\ caller' = [caller EXCEPT ![p] = [pc |-> "handshake", conn |-> session.conn]]
             /\ Dialers!D.style = "two" /\ session # Dialers!NoSession
          \/ caller' = [caller EXCEPT ![p] = [pc |-> "open", conn |-> session.conn]]
      OBVIOUS
    <3>2. /\ [pc |-> "dial", conn |-> None] \in Calls
          /\ [pc |-> "handshake", conn |-> session.conn] \in Calls
          /\ [pc |-> "open", conn |-> session.conn] \in Calls
      BY DEF DialTypes, Calls
    <3>3. Dialers!D.style = "two" /\ session # Dialers!NoSession => session.conn # None
      BY DEF StyleInv
    <3>4. CASE caller' = [caller EXCEPT ![p] = [pc |-> "dial", conn |-> None]]
      BY <3>2, <3>4
    <3>5. CASE caller' = [caller EXCEPT ![p] = [pc |-> "open", conn |-> session.conn]]
      BY <3>2, <3>5
    <3>6. CASE /\ caller' = [caller EXCEPT ![p] = [pc |-> "handshake", conn |-> session.conn]]
               /\ Dialers!D.style = "two" /\ session # Dialers!NoSession
      BY <3>2, <3>3, <3>6
    <3> QED
      BY ONLY <3>1, <3>4, <3>5, <3>6
  <2>4. caller \in [Callers -> Calls] /\ Dialers!D.style # "plain"
    BY DEF DialTypes
  <2>5. \A q \in Callers : caller'[q] = caller[q] \/ caller'[q] = r
    BY ONLY <2>3, <2>4
  <2> QED
    BY <1>0, <2>1, <2>2, <2>3, <2>4, <2>5 DEF StyleInv
<1>4. OwnerInv'
  BY <1>0, <1>s DEF DialTypes, Calls, LockInv, StyleInv, OwnerInv, Owns
<1> QED
  BY <1>1, <1>2, <1>3, <1>4

LEMMA DialConnKeeps == ASSUME DialInv, NEW p \in Callers, Dialers!DialConn(p) PROVE DialInv'
<1> USE PartsAssumption DEF Dialers!DialAssumption, DialInv, Dialers!DialConn, Dialers!Go, Dialers!Fail,
        Dialers!Connect, Dialers!Referenced, Dialers!Works, Dialers!Close, Dialers!Has,
        Dialers!IsClosed, Dialers!NoSession, Dialers!InLock
<1>0. Dialers!D' = Dialers!D /\ dialer' = dialer
  BY DEF Dialers!D
<1>s. Dialers!D.style \in {"plain", "session", "two", "client"}
      /\ (Dialers!D.style = "two" => Dialers!D.asks /\ Dialers!D.opens)
      /\ (Dialers!D.drops => Dialers!D.opens /\ Dialers!D.style \in {"session", "two"})
      /\ (Dialers!D.forgets => Dialers!D.style = "client")
  BY Styles DEF DialTypes
<1>1. DialTypes'
  <2>1. /\ session' \in [conn : Wires \cup {None}, up : BOOLEAN, dead : BOOLEAN]
        /\ mutex' \in Callers \cup {None}
    BY <1>0, <1>s, ZenonT(60) DEF DialTypes, Calls, LockInv, StyleInv
  <2>2. caller' \in [Callers -> Calls]
    BY <1>0, <1>s DEF DialTypes, Calls, LockInv, StyleInv
  <2>3. wire' \in [Wires -> {"none", "open", "broken", "closed"}]
    BY <1>0, <1>s DEF DialTypes, Calls, LockInv, StyleInv
  <2>4. \A q \in Callers : (caller'[q].pc \in Dialers!InLock) <=> (mutex' = q)
    BY <1>0, <1>s DEF DialTypes, Calls, LockInv, StyleInv
  <2> QED
    BY <1>0, <2>1, <2>2, <2>3, <2>4 DEF DialTypes
<1>2. LockInv'
  BY <1>0, <1>s DEF DialTypes, Calls, LockInv, StyleInv
<1>3. StyleInv'
  BY <1>0, <1>s DEF DialTypes, Calls, LockInv, StyleInv
<1>4. OwnerInv'
  BY <1>0, <1>s DEF DialTypes, Calls, LockInv, StyleInv, OwnerInv, Owns
<1> QED
  BY <1>1, <1>2, <1>3, <1>4

LEMMA MakeClientKeeps == ASSUME DialInv, NEW p \in Callers, Dialers!MakeClient(p) PROVE DialInv'
<1> USE PartsAssumption DEF Dialers!DialAssumption, DialInv, Dialers!MakeClient, Dialers!Go, Dialers!Fail,
        Dialers!Connect, Dialers!Referenced, Dialers!Works, Dialers!Close, Dialers!Has,
        Dialers!IsClosed, Dialers!NoSession, Dialers!InLock
<1>0. Dialers!D' = Dialers!D /\ dialer' = dialer
  BY DEF Dialers!D
<1>s. Dialers!D.style \in {"plain", "session", "two", "client"}
      /\ (Dialers!D.style = "two" => Dialers!D.asks /\ Dialers!D.opens)
      /\ (Dialers!D.drops => Dialers!D.opens /\ Dialers!D.style \in {"session", "two"})
      /\ (Dialers!D.forgets => Dialers!D.style = "client")
  BY Styles DEF DialTypes
<1>1. DialTypes'
  <2>1. /\ session' \in [conn : Wires \cup {None}, up : BOOLEAN, dead : BOOLEAN]
        /\ mutex' \in Callers \cup {None}
    BY <1>0, <1>s DEF DialTypes, Calls, LockInv, StyleInv
  <2>2. caller' \in [Callers -> Calls]
    BY <1>0, <1>s DEF DialTypes, Calls, LockInv, StyleInv
  <2>3. wire' \in [Wires -> {"none", "open", "broken", "closed"}]
    BY <1>0, <1>s DEF DialTypes, Calls, LockInv, StyleInv
  <2>4. \A q \in Callers : (caller'[q].pc \in Dialers!InLock) <=> (mutex' = q)
    BY <1>0, <1>s DEF DialTypes, Calls, LockInv, StyleInv
  <2> QED
    BY <1>0, <2>1, <2>2, <2>3, <2>4 DEF DialTypes
<1>2. LockInv'
  BY <1>0, <1>s DEF DialTypes, Calls, LockInv, StyleInv
<1>3. StyleInv'
  BY <1>0, <1>s DEF DialTypes, Calls, LockInv, StyleInv
<1>4. OwnerInv'
  BY <1>0, <1>s DEF DialTypes, Calls, LockInv, StyleInv, OwnerInv, Owns
<1> QED
  BY <1>1, <1>2, <1>3, <1>4

LEMMA InitSessionKeeps == ASSUME DialInv, NEW p \in Callers, Dialers!InitSession(p) PROVE DialInv'
<1> USE PartsAssumption DEF Dialers!DialAssumption, DialInv, Dialers!InitSession, Dialers!Go, Dialers!Fail,
        Dialers!Connect, Dialers!Referenced, Dialers!Works, Dialers!Close, Dialers!Has,
        Dialers!IsClosed, Dialers!NoSession, Dialers!InLock
<1>0. Dialers!D' = Dialers!D /\ dialer' = dialer
  BY DEF Dialers!D
<1>s. Dialers!D.style \in {"plain", "session", "two", "client"}
      /\ (Dialers!D.style = "two" => Dialers!D.asks /\ Dialers!D.opens)
      /\ (Dialers!D.drops => Dialers!D.opens /\ Dialers!D.style \in {"session", "two"})
      /\ (Dialers!D.forgets => Dialers!D.style = "client")
  BY Styles DEF DialTypes
<1>1. DialTypes'
  <2>1. /\ session' \in [conn : Wires \cup {None}, up : BOOLEAN, dead : BOOLEAN]
        /\ mutex' \in Callers \cup {None}
    <3>1. /\ session' \in {session, Dialers!NoSession, [conn |-> caller[p].conn, up |-> TRUE, dead |-> FALSE]}
          /\ mutex' \in {mutex, None}
      BY <1>0, <1>s
    <3>2. caller[p].conn \in Wires \cup {None}
      BY DEF DialTypes, Calls
    <3>3. session \in [conn : Wires \cup {None}, up : BOOLEAN, dead : BOOLEAN] /\ mutex \in Callers \cup {None}
      BY DEF DialTypes
    <3>4. /\ [conn |-> caller[p].conn, up |-> TRUE, dead |-> FALSE]
                \in [conn : Wires \cup {None}, up : BOOLEAN, dead : BOOLEAN]
          /\ Dialers!NoSession \in [conn : Wires \cup {None}, up : BOOLEAN, dead : BOOLEAN]
      BY ONLY <3>2 DEF Dialers!NoSession
    <3> QED
      BY ONLY <3>1, <3>3, <3>4
  <2>2. caller' \in [Callers -> Calls]
    BY <1>0, <1>s DEF DialTypes, Calls, LockInv, StyleInv
  <2>3. wire' \in [Wires -> {"none", "open", "broken", "closed"}]
    BY <1>0, <1>s DEF DialTypes, Calls, LockInv, StyleInv
  <2>4. \A q \in Callers : (caller'[q].pc \in Dialers!InLock) <=> (mutex' = q)
    BY <1>0, <1>s DEF DialTypes, Calls, LockInv, StyleInv
  <2> QED
    BY <1>0, <2>1, <2>2, <2>3, <2>4 DEF DialTypes
<1>2. LockInv'
  BY <1>0, <1>s DEF DialTypes, Calls, LockInv, StyleInv
<1>3. StyleInv'
  <2>1. /\ Dialers!D.style = "client" => session'.conn = None
        /\ Dialers!D.style = "plain" => session' = Dialers!NoSession
        /\ Dialers!D.style # "client" => session' = Dialers!NoSession \/ session'.conn # None
        /\ Dialers!D.style # "two" => (session' = Dialers!NoSession \/ session'.up)
    BY <1>0, <1>s DEF DialTypes, Calls, LockInv, StyleInv
  <2>2. session'.dead => session'.up /\ (session'.conn = None \/ wire'[session'.conn] = "closed")
    BY <1>0, <1>s DEF DialTypes, Calls, LockInv, StyleInv
  <2>3. ASSUME NEW q \in Callers
        PROVE  /\ caller'[q].pc = "dial" => caller'[q].conn = None /\ Dialers!D.style # "plain"
               /\ caller'[q].pc = "init" => Dialers!D.style = "session" /\ caller'[q].conn # None
               /\ caller'[q].pc \in {"handshake", "shake"} => Dialers!D.style = "two" /\ caller'[q].conn # None
               /\ caller'[q].pc = "shakeplain" => Dialers!D.style = "plain"
    BY <1>0, <1>s DEF DialTypes, Calls, LockInv, StyleInv
  <2> QED
    BY <1>0, <2>1, <2>2, <2>3 DEF StyleInv
<1>4. OwnerInv'
  BY <1>0, <1>s DEF DialTypes, Calls, LockInv, StyleInv, OwnerInv, Owns
<1> QED
  BY <1>1, <1>2, <1>3, <1>4

LEMMA HandshakeKeeps == ASSUME DialInv, NEW p \in Callers, Dialers!Handshake(p) PROVE DialInv'
<1> USE PartsAssumption DEF Dialers!DialAssumption, DialInv, Dialers!Handshake, Dialers!Go, Dialers!Fail,
        Dialers!Connect, Dialers!Referenced, Dialers!Works, Dialers!Close, Dialers!Has,
        Dialers!IsClosed, Dialers!NoSession, Dialers!InLock
<1>0. Dialers!D' = Dialers!D /\ dialer' = dialer
  BY DEF Dialers!D
<1>s. Dialers!D.style \in {"plain", "session", "two", "client"}
      /\ (Dialers!D.style = "two" => Dialers!D.asks /\ Dialers!D.opens)
      /\ (Dialers!D.drops => Dialers!D.opens /\ Dialers!D.style \in {"session", "two"})
      /\ (Dialers!D.forgets => Dialers!D.style = "client")
  BY Styles DEF DialTypes
<1>1. DialTypes'
  BY <1>0, <1>s DEF DialTypes, Calls, LockInv, StyleInv
<1>2. LockInv'
  BY <1>0, <1>s DEF DialTypes, Calls, LockInv, StyleInv
<1>3. StyleInv'
  BY <1>0, <1>s DEF DialTypes, Calls, LockInv, StyleInv
<1>4. OwnerInv'
  BY <1>0, <1>s DEF DialTypes, Calls, LockInv, StyleInv, OwnerInv, Owns
<1> QED
  BY <1>1, <1>2, <1>3, <1>4

LEMMA ShakeKeeps == ASSUME DialInv, NEW p \in Callers, Dialers!Shake(p) PROVE DialInv'
<1> USE PartsAssumption DEF Dialers!DialAssumption, DialInv, Dialers!Shake, Dialers!Go, Dialers!Fail,
        Dialers!Connect, Dialers!Referenced, Dialers!Works, Dialers!Close, Dialers!Has,
        Dialers!IsClosed, Dialers!NoSession, Dialers!InLock
<1>0. Dialers!D' = Dialers!D /\ dialer' = dialer
  BY DEF Dialers!D
<1>s. Dialers!D.style \in {"plain", "session", "two", "client"}
      /\ (Dialers!D.style = "two" => Dialers!D.asks /\ Dialers!D.opens)
      /\ (Dialers!D.drops => Dialers!D.opens /\ Dialers!D.style \in {"session", "two"})
      /\ (Dialers!D.forgets => Dialers!D.style = "client")
  BY Styles DEF DialTypes
<1>1. DialTypes'
  <2>1. /\ session' \in [conn : Wires \cup {None}, up : BOOLEAN, dead : BOOLEAN]
        /\ mutex' \in Callers \cup {None}
    <3>1. /\ session' \in {session, Dialers!NoSession, [conn |-> caller[p].conn, up |-> TRUE, dead |-> FALSE]}
          /\ mutex' \in {mutex, None}
      BY <1>0, <1>s
    <3>2. caller[p].conn \in Wires \cup {None}
      BY DEF DialTypes, Calls
    <3>3. session \in [conn : Wires \cup {None}, up : BOOLEAN, dead : BOOLEAN] /\ mutex \in Callers \cup {None}
      BY DEF DialTypes
    <3>4. /\ [conn |-> caller[p].conn, up |-> TRUE, dead |-> FALSE]
                \in [conn : Wires \cup {None}, up : BOOLEAN, dead : BOOLEAN]
          /\ Dialers!NoSession \in [conn : Wires \cup {None}, up : BOOLEAN, dead : BOOLEAN]
      BY ONLY <3>2 DEF Dialers!NoSession
    <3> QED
      BY ONLY <3>1, <3>3, <3>4
  <2>2. caller' \in [Callers -> Calls]
    BY <1>0, <1>s DEF DialTypes, Calls, LockInv, StyleInv
  <2>3. wire' \in [Wires -> {"none", "open", "broken", "closed"}]
    BY <1>0, <1>s DEF DialTypes, Calls, LockInv, StyleInv
  <2>4. \A q \in Callers : (caller'[q].pc \in Dialers!InLock) <=> (mutex' = q)
    BY <1>0, <1>s DEF DialTypes, Calls, LockInv, StyleInv
  <2> QED
    BY <1>0, <2>1, <2>2, <2>3, <2>4 DEF DialTypes
<1>2. LockInv'
  BY <1>0, <1>s DEF DialTypes, Calls, LockInv, StyleInv
<1>3. StyleInv'
  BY <1>0, <1>s DEF DialTypes, Calls, LockInv, StyleInv
<1>4. OwnerInv'
  BY <1>0, <1>s DEF DialTypes, Calls, LockInv, StyleInv, OwnerInv, Owns
<1> QED
  BY <1>1, <1>2, <1>3, <1>4

LEMMA OpenKeeps == ASSUME DialInv, NEW p \in Callers, Dialers!Open(p) PROVE DialInv'
<1> USE PartsAssumption DEF Dialers!DialAssumption, DialInv, Dialers!Open, Dialers!Go, Dialers!Fail,
        Dialers!Connect, Dialers!Referenced, Dialers!Works, Dialers!Close, Dialers!Has,
        Dialers!IsClosed, Dialers!NoSession, Dialers!InLock
<1>0. Dialers!D' = Dialers!D /\ dialer' = dialer
  BY DEF Dialers!D
<1>s. Dialers!D.style \in {"plain", "session", "two", "client"}
      /\ (Dialers!D.style = "two" => Dialers!D.asks /\ Dialers!D.opens)
      /\ (Dialers!D.drops => Dialers!D.opens /\ Dialers!D.style \in {"session", "two"})
      /\ (Dialers!D.forgets => Dialers!D.style = "client")
  BY Styles DEF DialTypes
<1>1. DialTypes'
  <2>1. /\ session' \in [conn : Wires \cup {None}, up : BOOLEAN, dead : BOOLEAN]
        /\ mutex' \in Callers \cup {None}
    <3>1. /\ session' \in {session, Dialers!NoSession, [conn |-> caller[p].conn, up |-> TRUE, dead |-> FALSE]}
          /\ mutex' \in {mutex, None}
      BY <1>0, <1>s
    <3>2. caller[p].conn \in Wires \cup {None}
      BY DEF DialTypes, Calls
    <3>3. session \in [conn : Wires \cup {None}, up : BOOLEAN, dead : BOOLEAN] /\ mutex \in Callers \cup {None}
      BY DEF DialTypes
    <3>4. /\ [conn |-> caller[p].conn, up |-> TRUE, dead |-> FALSE]
                \in [conn : Wires \cup {None}, up : BOOLEAN, dead : BOOLEAN]
          /\ Dialers!NoSession \in [conn : Wires \cup {None}, up : BOOLEAN, dead : BOOLEAN]
      BY ONLY <3>2 DEF Dialers!NoSession
    <3> QED
      BY ONLY <3>1, <3>3, <3>4
  <2>2. caller' \in [Callers -> Calls]
    BY <1>0, <1>s DEF DialTypes, Calls, LockInv, StyleInv
  <2>3. wire' \in [Wires -> {"none", "open", "broken", "closed"}]
    BY <1>0, <1>s DEF DialTypes, Calls, LockInv, StyleInv
  <2>4. \A q \in Callers : (caller'[q].pc \in Dialers!InLock) <=> (mutex' = q)
    BY <1>0, <1>s DEF DialTypes, Calls, LockInv, StyleInv
  <2> QED
    BY <1>0, <2>1, <2>2, <2>3, <2>4 DEF DialTypes
<1>2. LockInv'
  BY <1>0, <1>s DEF DialTypes, Calls, LockInv, StyleInv
<1>3. StyleInv'
  BY <1>0, <1>s DEF DialTypes, Calls, LockInv, StyleInv
<1>4. OwnerInv'
  BY <1>0, <1>s DEF DialTypes, Calls, LockInv, StyleInv, OwnerInv, Owns
<1> QED
  BY <1>1, <1>2, <1>3, <1>4

LEMMA RefuseKeeps == ASSUME DialInv, NEW p \in Callers, Dialers!Refuse(p) PROVE DialInv'
<1> USE PartsAssumption DEF Dialers!DialAssumption, DialInv, Dialers!Refuse, Dialers!Go, Dialers!Fail,
        Dialers!Connect, Dialers!Referenced, Dialers!Works, Dialers!Close, Dialers!Has,
        Dialers!IsClosed, Dialers!NoSession, Dialers!InLock
<1>0. Dialers!D' = Dialers!D /\ dialer' = dialer
  BY DEF Dialers!D
<1>s. Dialers!D.style \in {"plain", "session", "two", "client"}
      /\ (Dialers!D.style = "two" => Dialers!D.asks /\ Dialers!D.opens)
      /\ (Dialers!D.drops => Dialers!D.opens /\ Dialers!D.style \in {"session", "two"})
      /\ (Dialers!D.forgets => Dialers!D.style = "client")
  BY Styles DEF DialTypes
<1>1. DialTypes'
  BY <1>0, <1>s DEF DialTypes, Calls, LockInv, StyleInv
<1>2. LockInv'
  BY <1>0, <1>s DEF DialTypes, Calls, LockInv, StyleInv
<1>3. StyleInv'
  BY <1>0, <1>s DEF DialTypes, Calls, LockInv, StyleInv
<1>4. OwnerInv'
  BY <1>0, <1>s DEF DialTypes, Calls, LockInv, StyleInv, OwnerInv, Owns
<1> QED
  BY <1>1, <1>2, <1>3, <1>4

LEMMA DoneKeeps == ASSUME DialInv, NEW p \in Callers, Dialers!Done(p) PROVE DialInv'
<1> USE PartsAssumption DEF Dialers!DialAssumption, DialInv, Dialers!Done, Dialers!Go, Dialers!Fail,
        Dialers!Connect, Dialers!Referenced, Dialers!Works, Dialers!Close, Dialers!Has,
        Dialers!IsClosed, Dialers!NoSession, Dialers!InLock
<1>0. Dialers!D' = Dialers!D /\ dialer' = dialer
  BY DEF Dialers!D
<1>s. Dialers!D.style \in {"plain", "session", "two", "client"}
      /\ (Dialers!D.style = "two" => Dialers!D.asks /\ Dialers!D.opens)
      /\ (Dialers!D.drops => Dialers!D.opens /\ Dialers!D.style \in {"session", "two"})
      /\ (Dialers!D.forgets => Dialers!D.style = "client")
  BY Styles DEF DialTypes
<1>1. DialTypes'
  BY <1>0, <1>s DEF DialTypes, Calls, LockInv, StyleInv
<1>2. LockInv'
  BY <1>0, <1>s DEF DialTypes, Calls, LockInv, StyleInv
<1>3. StyleInv'
  BY <1>0, <1>s DEF DialTypes, Calls, LockInv, StyleInv
<1>4. OwnerInv'
  BY <1>0, <1>s DEF DialTypes, Calls, LockInv, StyleInv, OwnerInv, Owns
<1> QED
  BY <1>1, <1>2, <1>3, <1>4

LEMMA DialPlainKeeps == ASSUME DialInv, NEW p \in Callers, Dialers!DialPlain(p) PROVE DialInv'
<1> USE PartsAssumption DEF Dialers!DialAssumption, DialInv, Dialers!DialPlain, Dialers!Go, Dialers!Fail,
        Dialers!Connect, Dialers!Referenced, Dialers!Works, Dialers!Close, Dialers!Has,
        Dialers!IsClosed, Dialers!NoSession, Dialers!InLock
<1>0. Dialers!D' = Dialers!D /\ dialer' = dialer
  BY DEF Dialers!D
<1>s. Dialers!D.style \in {"plain", "session", "two", "client"}
      /\ (Dialers!D.style = "two" => Dialers!D.asks /\ Dialers!D.opens)
      /\ (Dialers!D.drops => Dialers!D.opens /\ Dialers!D.style \in {"session", "two"})
      /\ (Dialers!D.forgets => Dialers!D.style = "client")
  BY Styles DEF DialTypes
<1>1. DialTypes'
  BY <1>0, <1>s DEF DialTypes, Calls, LockInv, StyleInv
<1>2. LockInv'
  BY <1>0, <1>s DEF DialTypes, Calls, LockInv, StyleInv
<1>3. StyleInv'
  BY <1>0, <1>s DEF DialTypes, Calls, LockInv, StyleInv
<1>4. OwnerInv'
  BY <1>0, <1>s DEF DialTypes, Calls, LockInv, StyleInv, OwnerInv, Owns
<1> QED
  BY <1>1, <1>2, <1>3, <1>4

LEMMA ShakePlainKeeps == ASSUME DialInv, NEW p \in Callers, Dialers!ShakePlain(p) PROVE DialInv'
<1> USE PartsAssumption DEF Dialers!DialAssumption, DialInv, Dialers!ShakePlain, Dialers!Go, Dialers!Fail,
        Dialers!Connect, Dialers!Referenced, Dialers!Works, Dialers!Close, Dialers!Has,
        Dialers!IsClosed, Dialers!NoSession, Dialers!InLock
<1>0. Dialers!D' = Dialers!D /\ dialer' = dialer
  BY DEF Dialers!D
<1>s. Dialers!D.style \in {"plain", "session", "two", "client"}
      /\ (Dialers!D.style = "two" => Dialers!D.asks /\ Dialers!D.opens)
      /\ (Dialers!D.drops => Dialers!D.opens /\ Dialers!D.style \in {"session", "two"})
      /\ (Dialers!D.forgets => Dialers!D.style = "client")
  BY Styles DEF DialTypes
<1>1. DialTypes'
  BY <1>0, <1>s DEF DialTypes, Calls, LockInv, StyleInv
<1>2. LockInv'
  BY <1>0, <1>s DEF DialTypes, Calls, LockInv, StyleInv
<1>3. StyleInv'
  BY <1>0, <1>s DEF DialTypes, Calls, LockInv, StyleInv
<1>4. OwnerInv'
  BY <1>0, <1>s DEF DialTypes, Calls, LockInv, StyleInv, OwnerInv, Owns
<1> QED
  BY <1>1, <1>2, <1>3, <1>4

LEMMA DonePlainKeeps == ASSUME DialInv, NEW p \in Callers, Dialers!DonePlain(p) PROVE DialInv'
<1> USE PartsAssumption DEF Dialers!DialAssumption, DialInv, Dialers!DonePlain, Dialers!Go, Dialers!Fail,
        Dialers!Connect, Dialers!Referenced, Dialers!Works, Dialers!Close, Dialers!Has,
        Dialers!IsClosed, Dialers!NoSession, Dialers!InLock
<1>0. Dialers!D' = Dialers!D /\ dialer' = dialer
  BY DEF Dialers!D
<1>s. Dialers!D.style \in {"plain", "session", "two", "client"}
      /\ (Dialers!D.style = "two" => Dialers!D.asks /\ Dialers!D.opens)
      /\ (Dialers!D.drops => Dialers!D.opens /\ Dialers!D.style \in {"session", "two"})
      /\ (Dialers!D.forgets => Dialers!D.style = "client")
  BY Styles DEF DialTypes
<1>1. DialTypes'
  BY <1>0, <1>s DEF DialTypes, Calls, LockInv, StyleInv
<1>2. LockInv'
  BY <1>0, <1>s DEF DialTypes, Calls, LockInv, StyleInv
<1>3. StyleInv'
  BY <1>0, <1>s DEF DialTypes, Calls, LockInv, StyleInv
<1>4. OwnerInv'
  BY <1>0, <1>s DEF DialTypes, Calls, LockInv, StyleInv, OwnerInv, Owns
<1> QED
  BY <1>1, <1>2, <1>3, <1>4

LEMMA PeerKeepsDial ==
    ASSUME DialInv, Dialers!Break \/ Dialers!Return \/ Dialers!Notice
    PROVE  DialInv'
<1> USE PartsAssumption DEF Dialers!DialAssumption, DialInv, Dialers!Break, Dialers!Return,
        Dialers!Notice, Dialers!Close, Dialers!NoSession
<1>0. Dialers!D' = Dialers!D /\ dialer' = dialer
  BY DEF Dialers!D
<1>1. DialTypes'
  <2>1. wire' \in [Wires -> {"none", "open", "broken", "closed"}]
    BY DEF DialTypes
  <2>2. session' \in [conn : Wires \cup {None}, up : BOOLEAN, dead : BOOLEAN]
    <3>1. session' = session \/ session' = [session EXCEPT !.dead = TRUE]
      OBVIOUS
    <3>2. session \in [conn : Wires \cup {None}, up : BOOLEAN, dead : BOOLEAN]
      BY DEF DialTypes
    <3> QED
      BY ONLY <3>1, <3>2
  <2> QED
    BY <1>0, <2>1, <2>2 DEF DialTypes
<1>2. LockInv'
  BY <1>0 DEF DialTypes, LockInv
<1>3. StyleInv'
  BY <1>0 DEF DialTypes, StyleInv
<1>4. OwnerInv'
  BY <1>0 DEF DialTypes, OwnerInv, Owns
<1> QED
  BY <1>1, <1>2, <1>3, <1>4

LEMMA DialNext == DialInv /\ [Dialers!Next]_dialVars => DialInv'
<1> SUFFICES ASSUME DialInv, [Dialers!Next]_dialVars PROVE DialInv'
  OBVIOUS
<1>1. CASE UNCHANGED dialVars
  BY <1>1 DEF dialVars, DialInv, DialTypes, LockInv, StyleInv, OwnerInv, Owns, Dialers!D
<1> QED
  BY <1>1, DialKeeps, DialConnKeeps, MakeClientKeeps, InitSessionKeeps, HandshakeKeeps, ShakeKeeps,
     OpenKeeps, RefuseKeeps, DoneKeeps, DialPlainKeeps, ShakePlainKeeps, DonePlainKeeps,
     PeerKeepsDial DEF Dialers!Next, Dialers!Step

LEMMA DialInvIsRight == DialInv => Dialers!TypeOK /\ Dialers!NothingIsLeft
<1> SUFFICES ASSUME DialInv PROVE Dialers!TypeOK /\ Dialers!NothingIsLeft
  OBVIOUS
<1>1. Dialers!TypeOK
  BY DEF DialInv, DialTypes, Dialers!TypeOK
<1>2. Dialers!NothingIsLeft
  BY DEF DialInv, OwnerInv, Dialers!NothingIsLeft, Dialers!Referenced
<1> QED
  BY <1>1, <1>2

(* What WorkingIsKept says of one step.                                    *)
Keeping ==
    ~refused' /\ session.up /\ Dialers!Works(session.conn)
       => wire'[session.conn] # "closed" /\ session'.conn = session.conn

LEMMA DialKeepsWorking == DialInv /\ [Dialers!Next]_dialVars => Keeping
<1> SUFFICES ASSUME DialInv, [Dialers!Next]_dialVars,
                    ~refused', session.up, Dialers!Works(session.conn)
             PROVE  wire'[session.conn] # "closed" /\ session'.conn = session.conn
  BY DEF Keeping
<1> USE DEF DialInv, Dialers!Works, Dialers!Close, Dialers!NoSession
<1>s. /\ Dialers!D.style \in {"plain", "session", "two", "client"}
      /\ Dialers!D.style = "two" => Dialers!D.asks /\ Dialers!D.opens
      /\ Dialers!D.drops => Dialers!D.opens /\ Dialers!D.style \in {"session", "two"}
      /\ Dialers!D.forgets => Dialers!D.style = "client"
  BY Styles DEF DialTypes
<1>c. session.conn \in Wires /\ Dialers!D.style \in {"session", "two"} /\ ~session.dead
  BY <1>s DEF DialTypes, StyleInv
<1>1. CASE UNCHANGED dialVars
  BY <1>1 DEF dialVars
<1>2. ASSUME NEW p \in Callers, Dialers!Dial(p) PROVE session'.conn = session.conn /\ wire' = wire
  BY <1>2, <1>c DEF Dialers!Dial, Dialers!IsClosed
<1>3. ASSUME NEW p \in Callers, Dialers!DialConn(p) \/ Dialers!MakeClient(p) \/ Dialers!InitSession(p)
                                \/ Dialers!Shake(p)
      PROVE  FALSE
  BY <1>3, <1>c DEF Dialers!DialConn, Dialers!MakeClient, Dialers!InitSession, Dialers!Shake, LockInv
<1>4. ASSUME NEW p \in Callers, Dialers!Handshake(p)
      PROVE  wire'[session.conn] = wire[session.conn] /\ session' = session
  BY <1>4, <1>c DEF Dialers!Handshake, DialTypes, Dialers!Has
<1>5. ASSUME NEW p \in Callers, Dialers!Open(p) PROVE session' = session /\ wire' = wire
  BY <1>5, <1>c, <1>s DEF Dialers!Open, LockInv
<1>6. ASSUME NEW p \in Callers, Dialers!Refuse(p)
      PROVE  wire'[session.conn] = wire[session.conn] /\ session' = session
  BY <1>6, <1>c DEF Dialers!Refuse, DialTypes
<1>7. ASSUME NEW p \in Callers, Dialers!Done(p) PROVE session' = session /\ wire' = wire
  BY <1>7, <1>c, <1>s DEF Dialers!Done
<1>8. ASSUME NEW p \in Callers, Dialers!DialPlain(p) \/ Dialers!ShakePlain(p) \/ Dialers!DonePlain(p)
      PROVE  FALSE
  BY <1>8, <1>c DEF Dialers!DialPlain, Dialers!ShakePlain, Dialers!DonePlain, StyleInv
<1>9. CASE Dialers!Break \/ Dialers!Return \/ Dialers!Notice
  BY <1>9, <1>c DEF Dialers!Break, Dialers!Return, Dialers!Notice, DialTypes
<1> QED
  BY <1>1, <1>2, <1>3, <1>4, <1>5, <1>6, <1>7, <1>8, <1>9 DEF Dialers!Next, Dialers!Step

-----------------------------------------------------------------------------
(* UDP sessions.                                                           *)

SessionRecords ==
    [peer : Peers \cup {None}, open : BOOLEAN, idle : BOOLEAN, packets : 0..QueueSize,
     served : BOOLEAN]

UdpTypes ==
    /\ ses \in [Sessions -> SessionRecords]
    /\ pool \in [Peers -> Sessions \cup {None}]
    /\ cqueue \in Seq(Sessions) /\ Len(cqueue) <= Waiting
    /\ loop \in [pc : {"read", "new", "set", "write", "ended"}, peer : Peers \cup {None},
                 ses : Sessions \cup {None}]
    /\ check \in [pc : {"wait", "visit", "delete", "close"}, todo : SUBSET Peers,
                  peer : Peers \cup {None}, ses : Sessions \cup {None}]

(* The loop makes a session when its peer has none that is open; the idle  *)
(* check has a session in hand only between seeing it idle and closing it. *)
LoopInv ==
    /\ loop.pc \in {"new", "set", "write"} => loop.peer \in Peers /\ (loop.pc # "new" => loop.ses \in Sessions)
    /\ loop.pc \in {"new", "set"} =>
          pool[loop.peer] = None \/ ~ses[pool[loop.peer]].open
    /\ loop.pc = "set" => ses[loop.ses].peer = loop.peer
    /\ check.pc \in {"wait", "visit"} => check.ses = None

(* Where an open session is.                                               *)
Placed(s) ==
    \/ s = check.ses
    \/ ses[s].peer \in Peers /\ pool[ses[s].peer] = s
    \/ loop.pc = "set" /\ loop.ses = s

PlaceInv == \A s \in Sessions \ stray : ses[s].open => Placed(s)

UdpInv == UdpTypes /\ LoopInv /\ PlaceInv

LEMMA UdpInit == Udp!Init => UdpInv
<1> QED
  BY PartsAssumption, EmptySeq, LenProperties DEF Udp!UdpAssumption, Udp!Init, UdpInv, UdpTypes,
     LoopInv, PlaceInv, SessionRecords, Udp!NoSession, Udp!LoopIdle, Udp!CheckIdle

(* Steps that open no session, move none and leave the pool alone.         *)
LEMMA UdpPlacesKept ==
    ASSUME UdpInv, UdpTypes', UNCHANGED <<pool, stray>>,
           \A s \in Sessions : ses'[s].peer = ses[s].peer /\ (ses'[s].open => ses[s].open),
           \/ UNCHANGED loop
           \/ loop'.pc \notin {"new", "set", "write"} /\ loop.pc # "set",
           \/ UNCHANGED check
           \/ check.ses = None /\ (check'.pc \in {"wait", "visit"} => check'.ses = None)
    PROVE  UdpInv'
<1> USE PartsAssumption DEF Udp!UdpAssumption
<1>1. LoopInv'
  BY DEF UdpInv, LoopInv, UdpTypes
<1>2. PlaceInv'
  BY DEF UdpInv, PlaceInv, Placed
<1> QED
  BY <1>1, <1>2 DEF UdpInv

LEMMA UdpReadFrom == ASSUME UdpInv, NEW p \in Peers, Udp!ReadFrom(p) PROVE UdpInv'
<1> USE PartsAssumption DEF Udp!UdpAssumption, Udp!ReadFrom, UdpInv
<1>1. UdpTypes'
  BY DEF UdpTypes
<1>2. LoopInv'
  BY DEF LoopInv, UdpTypes
<1>3. PlaceInv'
  BY DEF PlaceInv, Placed
<1> QED
  BY <1>1, <1>2, <1>3

LEMMA UdpNewConn == ASSUME UdpInv, NEW n \in Sessions, Udp!NewConn(n) PROVE UdpInv'
<1> USE PartsAssumption DEF Udp!UdpAssumption, UdpInv
<1>1. CASE Len(cqueue) < Waiting
  <2> DEFINE new == [peer |-> loop.peer, open |-> TRUE, idle |-> FALSE, packets |-> 0,
                     served |-> FALSE]
  <2>1. /\ ses' = [ses EXCEPT ![n] = new]
        /\ cqueue' = Append(cqueue, n)
        /\ loop' = [loop EXCEPT !.pc = "set", !.ses = n]
        /\ UNCHANGED <<pool, check, stray>> /\ loop.pc = "new"
        /\ n \notin Udp!Pooled /\ ~ses[n].open
    BY <1>1 DEF Udp!NewConn, Udp!Unused, Udp!NoSession
  <2>2. new \in SessionRecords /\ loop.peer \in Peers
    BY <2>1 DEF LoopInv, SessionRecords
  <2>3. cqueue' \in Seq(Sessions) /\ Len(cqueue') <= Waiting
    BY <1>1, <2>1, AppendProperties, LenProperties DEF UdpTypes
  <2>4. /\ loop' \in [pc : {"read", "new", "set", "write", "ended"}, peer : Peers \cup {None},
                      ses : Sessions \cup {None}]
        /\ loop'.pc = "set" /\ loop'.ses = n /\ loop'.peer = loop.peer
    BY <2>1 DEF UdpTypes
  <2>5. UdpTypes'
    BY <2>1, <2>2, <2>3, <2>4 DEF UdpTypes
  <2>6. \A s \in Sessions : s # n => ses'[s] = ses[s]
    BY <2>1 DEF UdpTypes
  <2>7. ses'[n].peer = loop.peer
    BY <2>1 DEF UdpTypes
  <2>8. pool[loop.peer] # n
    BY <2>1, <2>2 DEF Udp!Pooled
  <2>9. LoopInv'
    BY <2>1, <2>2, <2>4, <2>6, <2>7, <2>8 DEF LoopInv, UdpTypes
  <2>10. PlaceInv'
    BY <2>1, <2>4, <2>6, <2>7 DEF PlaceInv, Placed
  <2> QED
    BY <2>5, <2>9, <2>10
<1>2. CASE ~(Len(cqueue) < Waiting)
  <2>1. UNCHANGED <<ses, cqueue, pool, check, stray>> /\ loop' = Udp!LoopIdle /\ loop.pc = "new"
    BY <1>2 DEF Udp!NewConn
  <2>2. UdpTypes'
    BY <2>1 DEF UdpTypes, Udp!LoopIdle
  <2> QED
    BY <2>1, <2>2, UdpPlacesKept DEF Udp!LoopIdle
<1> QED
  BY <1>1, <1>2

LEMMA UdpPoolSet == ASSUME UdpInv, Udp!PoolSet PROVE UdpInv'
<1> USE PartsAssumption DEF Udp!UdpAssumption, UdpInv
<1> DEFINE p == loop.peer
           n == loop.ses
<1>1. /\ loop.pc = "set" /\ pool' = [pool EXCEPT ![p] = n]
      /\ loop' = [loop EXCEPT !.pc = "write"]
      /\ stray \subseteq stray' /\ UNCHANGED <<ses, cqueue, check>>
  BY DEF Udp!PoolSet
<1>2. p \in Peers /\ n \in Sessions /\ ses[n].peer = p
      /\ (pool[p] = None \/ ~ses[pool[p]].open)
  BY <1>1 DEF LoopInv
<1>3. UdpTypes' /\ loop'.pc = "write" /\ loop'.peer = p /\ loop'.ses = n
  BY <1>1, <1>2 DEF UdpTypes
<1>4. LoopInv'
  BY <1>1, <1>2, <1>3 DEF LoopInv
<1>5. PlaceInv'
  BY <1>1, <1>2, <1>3 DEF PlaceInv, Placed, UdpTypes
<1> QED
  BY <1>3, <1>4, <1>5

LEMMA UdpWriteQueue == ASSUME UdpInv, Udp!WriteQueue PROVE UdpInv'
<1> USE PartsAssumption DEF Udp!UdpAssumption
<1> DEFINE s == loop.ses
           n == ses[s].packets + 1
<1>1. loop.pc = "write" /\ s \in Sessions /\ ses[s] \in SessionRecords
  BY DEF Udp!WriteQueue, UdpInv, LoopInv, UdpTypes
<1>2. /\ loop' = Udp!LoopIdle
      /\ ses' = ses \/ (n \in 0..QueueSize /\ ses' = [ses EXCEPT ![s].packets = n])
      /\ UNCHANGED <<pool, cqueue, check, stray>>
  BY <1>1 DEF Udp!WriteQueue, SessionRecords
<1>4. ses' \in [Sessions -> SessionRecords]
  <2>1. n \in 0..QueueSize => [ses[s] EXCEPT !.packets = n] \in SessionRecords
    BY <1>1 DEF SessionRecords
  <2> QED
    BY <1>1, <1>2, <2>1 DEF UdpInv, UdpTypes
<1>5. UdpTypes'
  BY <1>2, <1>4 DEF UdpInv, UdpTypes, Udp!LoopIdle
<1>6. \A t \in Sessions : ses'[t].peer = ses[t].peer /\ ses'[t].open = ses[t].open
  BY <1>1, <1>2 DEF UdpInv, UdpTypes, SessionRecords
<1> QED
  BY <1>1, <1>2, <1>5, <1>6, UdpPlacesKept DEF Udp!LoopIdle

LEMMA UdpEndLoop == ASSUME UdpInv, Udp!EndLoop \/ Udp!ReadError PROVE UdpInv'
<1>1. /\ UNCHANGED <<ses, pool, cqueue, check, stray>> /\ loop.pc = "read"
      /\ loop' = [pc |-> "ended", peer |-> None, ses |-> None]
  BY DEF Udp!EndLoop, Udp!ReadError, Udp!LoopIdle
<1>2. UdpTypes'
  BY <1>1 DEF UdpInv, UdpTypes
<1> QED
  BY <1>1, <1>2, UdpPlacesKept

-----------------------------------------------------------------------------
LEMMA UdpTick == ASSUME UdpInv, Udp!Tick \/ Udp!EndVisit PROVE UdpInv'
<1>1. /\ UNCHANGED <<ses, pool, cqueue, loop, stray>> /\ check.pc \in {"wait", "visit"}
      /\ check'.pc \in {"wait", "visit"} /\ check'.ses = None
  <2>1. CASE Udp!Tick
    <3>1. check' = [pc |-> "visit", todo |-> {q \in Peers : pool[q] # None}, peer |-> None, ses |-> None]
      BY <2>1 DEF Udp!Tick, Udp!CheckIdle
    <3>2. PICK todo \in SUBSET Peers :
            check' = [pc |-> "visit", todo |-> todo, peer |-> None, ses |-> None]
      BY ONLY <3>1
    <3>3. check'.pc = "visit" /\ check'.ses = None
      BY ONLY <3>2
    <3> QED
      BY <2>1, <3>3 DEF Udp!Tick
  <2>2. CASE Udp!EndVisit
    BY <2>2 DEF Udp!EndVisit, Udp!CheckIdle
  <2> QED
    BY <2>1, <2>2
<1>2. UdpTypes'
  <2>1. check' \in [pc : {"wait", "visit", "delete", "close"}, todo : SUBSET Peers,
                    peer : Peers \cup {None}, ses : Sessions \cup {None}]
    <3>1. PICK todo \in SUBSET Peers, pc \in {"visit", "wait"} :
            check' = [pc |-> pc, todo |-> todo, peer |-> None, ses |-> None]
      <4>1. CASE Udp!Tick
        <5>1. check' = [pc |-> "visit", todo |-> {q \in Peers : pool[q] # None}, peer |-> None, ses |-> None]
          BY <4>1 DEF Udp!Tick, Udp!CheckIdle
        <5> QED
          BY ONLY <5>1
      <4>2. CASE Udp!EndVisit
        BY <4>2 DEF Udp!EndVisit, Udp!CheckIdle
      <4> QED
        BY <4>1, <4>2
    <3> QED
      BY ONLY <3>1
  <2> QED
    BY <1>1, <2>1 DEF UdpInv, UdpTypes
<1>3. check.ses = None
  BY <1>1 DEF UdpInv, LoopInv
<1> QED
  BY <1>1, <1>2, <1>3, UdpPlacesKept

LEMMA UdpVisit == ASSUME UdpInv, NEW p \in Peers, Udp!Visit(p) PROVE UdpInv'
<1> DEFINE s == pool[p]
<1>1. /\ check.pc = "visit" /\ check.ses = None
      /\ UNCHANGED <<pool, cqueue, loop, stray>>
      /\ ses' = ses \/ ses' = [ses EXCEPT ![s].idle = TRUE]
      /\ \/ check' = [check EXCEPT !.todo = check.todo \ {p}, !.pc = "delete", !.peer = p, !.ses = s]
         \/ check' = [check EXCEPT !.todo = check.todo \ {p}]
  BY DEF Udp!Visit, UdpInv, LoopInv
<1>2. /\ s \in Sessions \cup {None} /\ ses \in [Sessions -> SessionRecords]
      /\ check \in [pc : {"wait", "visit", "delete", "close"}, todo : SUBSET Peers,
                    peer : Peers \cup {None}, ses : Sessions \cup {None}]
  BY DEF UdpInv, UdpTypes
<1> HIDE DEF s
<1>3. /\ check' \in [pc : {"wait", "visit", "delete", "close"}, todo : SUBSET Peers,
                     peer : Peers \cup {None}, ses : Sessions \cup {None}]
      /\ check'.pc \in {"wait", "visit"} => check'.ses = None
  BY ONLY <1>1, <1>2, p \in Peers
<1>4. ASSUME NEW t \in Sessions
      PROVE  [ses[t] EXCEPT !.idle = TRUE] \in SessionRecords
  BY <1>2 DEF SessionRecords
<1>5. ses' \in [Sessions -> SessionRecords]
  BY ONLY <1>1, <1>2, <1>4
<1>6. \A t \in Sessions : ses'[t].peer = ses[t].peer /\ ses'[t].open = ses[t].open
  BY <1>1, <1>2 DEF SessionRecords
<1>7. UdpTypes'
  BY <1>1, <1>3, <1>5 DEF UdpInv, UdpTypes
<1> QED
  BY <1>1, <1>3, <1>6, <1>7, UdpPlacesKept

LEMMA UdpDeleteIdle == ASSUME UdpInv, Udp!DeleteIdle PROVE UdpInv'
<1> USE PartsAssumption DEF Udp!UdpAssumption, UdpInv
<1> DEFINE p == check.peer
<1>1. /\ check.pc = "delete" /\ pool' = [pool EXCEPT ![p] = None]
      /\ check' = [check EXCEPT !.pc = "close"]
      /\ UNCHANGED <<ses, cqueue, loop>> /\ stray \subseteq stray'
      /\ pool[p] \notin {None, check.ses} => pool[p] \in stray'
  BY DEF Udp!DeleteIdle
<1>2. /\ check'.pc = "close" /\ check'.ses = check.ses
  BY <1>1 DEF UdpTypes
<1>3. UdpTypes'
  BY <1>1, <1>2 DEF UdpTypes
<1>4. LoopInv'
  BY <1>1, <1>2, <1>3 DEF LoopInv, UdpTypes
<1>5. PlaceInv'
  BY <1>1, <1>2 DEF PlaceInv, Placed, UdpTypes
<1> QED
  BY <1>3, <1>4, <1>5

LEMMA UdpCloseIdle == ASSUME UdpInv, Udp!CloseIdle PROVE UdpInv'
<1> USE PartsAssumption DEF Udp!UdpAssumption, UdpInv
<1>1. /\ check.pc = "close" /\ ses' = [ses EXCEPT ![check.ses].open = FALSE]
      /\ check' = [check EXCEPT !.pc = "visit", !.peer = None, !.ses = None]
      /\ UNCHANGED <<pool, cqueue, loop, stray>>
  BY DEF Udp!CloseIdle, Udp!Shut
<1>2. check'.pc = "visit" /\ check'.ses = None
  BY <1>1 DEF UdpTypes
<1>3. UdpTypes'
  BY <1>1, <1>2, ZenonT(60) DEF UdpTypes, SessionRecords
<1>4. \A t \in Sessions : /\ ses'[t].peer = ses[t].peer /\ (ses'[t].open => ses[t].open)
                          /\ t = check.ses => ~ses'[t].open
  BY <1>1 DEF UdpTypes, SessionRecords
<1>5. LoopInv'
  BY <1>1, <1>2, <1>4 DEF LoopInv, UdpTypes
<1>6. PlaceInv'
  BY <1>1, <1>2, <1>4 DEF PlaceInv, Placed
<1> QED
  BY <1>3, <1>5, <1>6

(* Handlers and Close.                                                     *)
LEMMA UdpHandlers ==
    ASSUME UdpInv,
           \/ Udp!Accept \/ Udp!Close
           \/ \E s \in Sessions : Udp!Read(s) \/ Udp!WriteTo(s) \/ Udp!HandlerEnds(s)
    PROVE  UdpInv'
<1> USE PartsAssumption DEF Udp!UdpAssumption
<1>0. ses \in [Sessions -> SessionRecords]
  BY DEF UdpInv, UdpTypes
<1>1. UNCHANGED <<pool, loop, check, stray>>
  BY DEF Udp!Accept, Udp!Close, Udp!Read, Udp!WriteTo, Udp!HandlerEnds
<1>2. cqueue' \in Seq(Sessions) /\ Len(cqueue') <= Waiting
  <2>1. CASE Udp!Accept
    <3>1. cqueue' = Tail(cqueue) /\ cqueue # <<>>
      BY <2>1 DEF Udp!Accept
    <3> QED
      BY <3>1, HeadTailProperties, LenProperties DEF UdpInv, UdpTypes
  <2>2. CASE ~Udp!Accept
    BY <2>2 DEF UdpInv, UdpTypes, Udp!Close, Udp!Read, Udp!WriteTo, Udp!HandlerEnds
  <2> QED
    BY <2>1, <2>2
<1>3. /\ ses' \in [Sessions -> SessionRecords]
      /\ \A t \in Sessions : ses'[t].peer = ses[t].peer /\ (ses'[t].open => ses[t].open)
  <2>1. CASE Udp!Accept
    <3>1. ses' = [ses EXCEPT ![Head(cqueue)].served = TRUE]
      BY <2>1 DEF Udp!Accept
    <3> QED
      BY <1>0, <3>1, ZenonT(60) DEF SessionRecords
  <2>2. CASE Udp!Close
    <3>1. ses' = [s \in Sessions |-> IF s \in Udp!Pooled THEN [ses[s] EXCEPT !.open = FALSE] ELSE ses[s]]
      BY <2>2 DEF Udp!Close
    <3> QED
      BY <1>0, <3>1 DEF SessionRecords
  <2>3. ASSUME NEW s \in Sessions, Udp!Read(s)
        PROVE  /\ ses' \in [Sessions -> SessionRecords]
               /\ \A t \in Sessions : ses'[t].peer = ses[t].peer /\ (ses'[t].open => ses[t].open)
    <3>1. /\ ses' = [ses EXCEPT ![s].packets = ses[s].packets - 1, ![s].idle = FALSE]
          /\ ses[s].packets > 0
      BY <2>3 DEF Udp!Read
    <3>2. ses[s].packets - 1 \in 0..QueueSize
      BY <1>0, <3>1 DEF SessionRecords
    <3> QED
      BY <1>0, <3>1, <3>2, ZenonT(60) DEF SessionRecords
  <2>4. ASSUME NEW s \in Sessions, Udp!WriteTo(s)
        PROVE  /\ ses' \in [Sessions -> SessionRecords]
               /\ \A t \in Sessions : ses'[t].peer = ses[t].peer /\ (ses'[t].open => ses[t].open)
    BY <1>0, <2>4 DEF Udp!WriteTo, Udp!Shut, SessionRecords
  <2>5. ASSUME NEW s \in Sessions, Udp!HandlerEnds(s)
        PROVE  /\ ses' \in [Sessions -> SessionRecords]
               /\ \A t \in Sessions : ses'[t].peer = ses[t].peer /\ (ses'[t].open => ses[t].open)
    BY <1>0, <2>5 DEF Udp!HandlerEnds, SessionRecords
  <2> QED
    BY <2>1, <2>2, <2>3, <2>4, <2>5
<1>4. UdpTypes'
  BY <1>1, <1>2, <1>3 DEF UdpInv, UdpTypes
<1> QED
  BY <1>1, <1>3, <1>4, UdpPlacesKept

LEMMA UdpNext == UdpInv /\ [Udp!Next]_udpVars => UdpInv'
<1> SUFFICES ASSUME UdpInv, [Udp!Next]_udpVars PROVE UdpInv'
  OBVIOUS
<1>1. CASE UNCHANGED udpVars
  BY <1>1 DEF udpVars, UdpInv, UdpTypes, LoopInv, PlaceInv, Placed
<1> QED
  BY <1>1, UdpReadFrom, UdpNewConn, UdpPoolSet, UdpWriteQueue, UdpEndLoop, UdpTick, UdpVisit,
     UdpDeleteIdle, UdpCloseIdle, UdpHandlers DEF Udp!Next, Udp!Loop, Udp!Check

LEMMA UdpInvIsRight == UdpInv => Udp!TypeOK /\ Udp!OneSession
<1> SUFFICES ASSUME UdpInv PROVE Udp!TypeOK /\ Udp!OneSession
  OBVIOUS
<1>1. Udp!TypeOK
  BY DEF UdpInv, UdpTypes, SessionRecords, Udp!TypeOK
<1>2. Udp!OneSession
  <2> SUFFICES ASSUME NEW s \in Sessions \ stray, NEW t \in Sessions \ stray,
                      s # t, ses[s].open, ses[t].open, check.ses \notin {s, t},
                      ses[s].peer = ses[t].peer
               PROVE  FALSE
    BY DEF Udp!OneSession
  <2>1. Placed(s) /\ Placed(t)
    BY DEF UdpInv, PlaceInv
  <2> QED
    BY <2>1, PartsAssumption DEF Udp!UdpAssumption, Placed, UdpInv, LoopInv
<1> QED
  BY <1>1, <1>2

-----------------------------------------------------------------------------
(* Listeners.                                                              *)

StreamStates == {"new", "device", "queued", "served", "refused", "reset", "done"}

(* Who tells the accept loop of what: an error that a listener made up     *)
(* when it was closed, or a loop that has ended.                           *)
ToldInv ==
    /\ errs = "nil" => Listeners!K.tells = "nil"
    /\ errs = "closed" => closed \/ lost
    /\ errsEnd => closed \/ lost
    /\ Listeners!NeverCrashes
    /\ Listeners!EndsOnlyWhenClosed

QueueTypes ==
    /\ stream \in [Streams -> StreamStates]
    /\ queue \in Seq(Streams) /\ Len(queue) <= Backlog

PlaceTypes ==
    /\ listener \in Listened
    /\ muxed \in {"none", "up", "down"}
    /\ errs \in {"none", "temporary", "closed", "nil"}
    /\ accept \in {"out", "bind", "store", "check", "wait"}
    /\ serve \in {"accept", "greet", "delay", "ended", "crashed"}
    /\ state \in {"ready", "failed", "closed"}

ListenInv == PlaceTypes /\ QueueTypes /\ ToldInv

LEMMA ListenInit == Listeners!Init => ListenInv
<1> SUFFICES ASSUME Listeners!Init PROVE ListenInv
  OBVIOUS
<1> QED
  BY PartsAssumption, EmptySeq, LenProperties DEF Listeners!ListenAssumption, Listeners!Init,
     ListenInv, PlaceTypes, QueueTypes, ToldInv, StreamStates, Listeners!NeverCrashes,
     Listeners!EndsOnlyWhenClosed


LEMMA ListenNext == ListenInv /\ [Listeners!Next]_listenVars => ListenInv'
<1> SUFFICES ASSUME ListenInv, [Listeners!Next]_listenVars PROVE ListenInv'
  OBVIOUS
<1> USE PartsAssumption DEF Listeners!ListenAssumption, ListenInv, PlaceTypes, QueueTypes, ToldInv,
        StreamStates, Listeners!NeverCrashes, Listeners!EndsOnlyWhenClosed, Listeners!Outcome
<1>1. CASE UNCHANGED listenVars
  BY <1>1 DEF listenVars, Listeners!K
<1>2. CASE Listeners!Connect
  BY <1>2 DEF Listeners!Connect, Listeners!K
<1>3. CASE Listeners!Leave
  BY <1>3 DEF Listeners!Leave, Listeners!K
<1>4. CASE Listeners!EndDeviceLoop
  BY <1>4 DEF Listeners!EndDeviceLoop, Listeners!K
<1>5. CASE Listeners!LoopError
  BY <1>5 DEF Listeners!LoopError, Listeners!K
<1>6. CASE Listeners!ServerEnds
  BY <1>6 DEF Listeners!ServerEnds, Listeners!K
<1>7. CASE Listeners!TakeError
  BY <1>7 DEF Listeners!TakeError, Listeners!K
<1>8. CASE Listeners!SocketError
  BY <1>8 DEF Listeners!SocketError, Listeners!K
<1>9. CASE Listeners!Retry
  BY <1>9 DEF Listeners!Retry, Listeners!K
<1>10. CASE Listeners!BindAccept
  BY <1>10 DEF Listeners!BindAccept, Listeners!K
<1>11. CASE Listeners!Bind
  BY <1>11 DEF Listeners!Bind, Listeners!K
<1>12. CASE Listeners!SetListener
  BY <1>12 DEF Listeners!SetListener, Listeners!K
<1>13. ASSUME NEW x \in Streams, Listeners!Arrive(x) PROVE ListenInv'
  BY <1>13 DEF Listeners!Arrive, Listeners!K
<1>14. ASSUME NEW x \in Streams, Listeners!Done(x) PROVE ListenInv'
  BY <1>14 DEF Listeners!Done, Listeners!K
<1>15. ASSUME NEW x \in Streams, Listeners!OpenDevice(x) PROVE ListenInv'
  BY <1>15 DEF Listeners!OpenDevice, Listeners!K
<1>16. ASSUME NEW x \in Streams, Listeners!TakeDevice(x) PROVE ListenInv'
  BY <1>16 DEF Listeners!TakeDevice, Listeners!K
<1>17. CASE Listeners!Close
  BY <1>17, EmptySeq, LenProperties DEF Listeners!Close, Listeners!K
<1>18. CASE Listeners!TakeStream
  BY <1>18 DEF Listeners!TakeStream, Listeners!K
<1>19. CASE Listeners!Greet
  BY <1>19 DEF Listeners!Greet, Listeners!K
<1>20. CASE Listeners!CheckClosed
  <2>1. PlaceTypes' /\ ToldInv'
    BY <1>20 DEF Listeners!CheckClosed, Listeners!K
  <2>2. CASE closed
    <3>1. queue' = <<>> /\ queue' \in Seq(Streams) /\ Len(queue') <= Backlog
      BY <1>20, <2>2 DEF Listeners!CheckClosed
    <3>2. stream' \in [Streams -> StreamStates]
      BY <1>20, <2>2 DEF Listeners!CheckClosed
    <3> QED
      BY <2>1, <3>1, <3>2
  <2>3. CASE ~closed
    BY <1>20, <2>1, <2>3 DEF Listeners!CheckClosed
  <2> QED
    BY <2>2, <2>3
<1>21. CASE Listeners!BindError
  BY <1>21, EmptySeq, LenProperties DEF Listeners!BindError, Listeners!K
<1> QED
  BY <1>1, <1>2, <1>3, <1>4, <1>5, <1>6, <1>7, <1>8, <1>9, <1>10, <1>11, <1>12, <1>13, <1>14, <1>15, <1>16, <1>17, <1>18, <1>19, <1>20, <1>21
     DEF Listeners!Next, Listeners!Serving, Listeners!Listening

LEMMA ListenInvIsRight ==
    ListenInv => Listeners!TypeOK /\ Listeners!NeverCrashes /\ Listeners!EndsOnlyWhenClosed
<1> SUFFICES ASSUME ListenInv
             PROVE  Listeners!TypeOK /\ Listeners!NeverCrashes /\ Listeners!EndsOnlyWhenClosed
  OBVIOUS
<1>1. Listeners!ToSet(queue) \subseteq Streams
  BY ElementOfSeq, LenProperties DEF ListenInv, QueueTypes, Listeners!ToSet
<1>2. Listeners!TypeOK
  BY <1>1 DEF ListenInv, PlaceTypes, QueueTypes, StreamStates, Listeners!TypeOK
<1> QED
  BY <1>2 DEF ListenInv, ToldInv

-----------------------------------------------------------------------------
(* The connection to the master.                                           *)

(* A receiver that reads has a connection, one that answers has a command. *)
ReceiverInv ==
    \A r \in Receivers : /\ recv[r].pc = "read" => recv[r].on \in Links
                         /\ recv[r].pc = "answer" => recv[r].cmd \in Commands
ReportInv == Reporter!TypeOK /\ Reporter!FlagHasConnection /\ ReceiverInv

LEMMA ReportInit == Reporter!Init => ReportInv
<1> SUFFICES ASSUME Reporter!Init PROVE ReportInv
  OBVIOUS
<1> USE DEF Reporter!Init, Reporter!Gone
<1>1. <<>> \in Seq(Commands)
  BY EmptySeq
<1>2. Reporter!TypeOK
  BY <1>1 DEF Reporter!TypeOK
<1> QED
  BY <1>2 DEF ReportInv, Reporter!FlagHasConnection, ReceiverInv

LEMMA ReportNext == ReportInv /\ [Reporter!Next]_linkVars => ReportInv'
<1> SUFFICES ASSUME ReportInv, [Reporter!Next]_linkVars PROVE ReportInv'
  OBVIOUS
<1> USE PartsAssumption DEF Reporter!ReporterAssumption, ReportInv, Reporter!TypeOK,
        Reporter!FlagHasConnection, ReceiverInv, Reporter!nodeVars, Reporter!wireVars, Reporter!Gone
<1>1. CASE UNCHANGED linkVars
  BY <1>1 DEF linkVars
<1>2. CASE Reporter!TryAgain
  BY <1>2 DEF Reporter!TryAgain
<1>3. CASE Reporter!StopReporting
  BY <1>3 DEF Reporter!StopReporting
<1>4. ASSUME NEW c \in Links, Reporter!Connect(c) PROVE ReportInv'
  BY <1>4, EmptySeq DEF Reporter!Connect
<1>5. ASSUME NEW r \in Receivers, Reporter!StartReceiver(r) PROVE ReportInv'
  BY <1>5 DEF Reporter!StartReceiver
<1>6. ASSUME NEW r \in Receivers, Reporter!Receive(r) PROVE ReportInv'
  <2>1. CASE link = None \/ ~connected
    BY <1>6, <2>1 DEF Reporter!Receive
  <2>2. CASE ~(link = None \/ ~connected)
    <3> DEFINE n == [recv[r] EXCEPT !.pc = "read", !.on = link]
    <3>1. recv' = [recv EXCEPT ![r] = n]
      BY <1>6, <2>2 DEF Reporter!Receive
    <3>2. link \in Links
      BY <2>2
    <3>3. /\ n \in [pc : {"gone", "top", "read", "answer"},
                    on : Links \cup {None}, cmd : Commands \cup {None}]
          /\ n.pc = "read" /\ n.on = link
      <4>1. recv[r] \in [pc : {"gone", "top", "read", "answer"},
                         on : Links \cup {None}, cmd : Commands \cup {None}]
        OBVIOUS
      <4> QED
        BY ONLY <3>2, <4>1
    <3> HIDE DEF n
    <3> QED
      BY <1>6, <3>1, <3>2, <3>3 DEF Reporter!Receive
  <2> QED
    BY <2>1, <2>2
<1>7. ASSUME NEW r \in Receivers, Reporter!Execute(r) PROVE ReportInv'
  BY <1>7, HeadTailProperties DEF Reporter!Execute
<1>8. ASSUME NEW r \in Receivers, Reporter!Answer(r) PROVE ReportInv'
  <2>1. ReceiverInv' /\ recv' \in [Receivers -> [pc : {"gone", "top", "read", "answer"},
                               on : Links \cup {None}, cmd : Commands \cup {None}]]
    BY <1>8 DEF Reporter!Answer
  <2>2. connected' \in BOOLEAN /\ (connected' => connected)
    BY <1>8 DEF Reporter!Answer
  <2>3. up' \in [Links -> Seq(Commands)]
    <3>1. recv[r].cmd \in Commands
      BY <1>8 DEF Reporter!Answer
    <3>2. \A c \in Links : Append(up[c], recv[r].cmd) \in Seq(Commands)
      BY <3>1, AppendProperties
    <3>3. up' = up \/ up' = [up EXCEPT ![link] = Append(@, recv[r].cmd)]
      BY <1>8 DEF Reporter!Answer
    <3>4. up \in [Links -> Seq(Commands)]
      OBVIOUS
    <3> QED
      BY ONLY <3>2, <3>3, <3>4
  <2> QED
    BY <1>8, <2>1, <2>2, <2>3 DEF Reporter!Answer
<1>9. ASSUME NEW r \in Receivers, Reporter!ReadError(r) PROVE ReportInv'
  BY <1>9 DEF Reporter!ReadError
<1>10. ASSUME NEW c \in Links, Reporter!Lose(c) PROVE ReportInv'
  BY <1>10, EmptySeq DEF Reporter!Lose
<1>11. ASSUME NEW c \in Links, NEW k \in Commands, Reporter!Deliver(c, k) PROVE ReportInv'
  <2>1. \A d \in Links : Append(down[d], k) \in Seq(Commands)
    BY AppendProperties
  <2>2. down' \in [Links -> Seq(Commands)]
    <3>1. down \in [Links -> Seq(Commands)] /\ down' = [down EXCEPT ![c] = Append(@, k)]
      BY <1>11 DEF Reporter!Deliver
    <3> QED
      BY ONLY <2>1, <3>1
  <2> QED
    BY <1>11, <2>2 DEF Reporter!Deliver
<1> QED
  BY <1>1, <1>2, <1>3, <1>4, <1>5, <1>6, <1>7, <1>8, <1>9, <1>10, <1>11
     DEF Reporter!Next, Reporter!Loop, Reporter!Receiver

-----------------------------------------------------------------------------
(* All parts.                                                              *)

PartsInv == LimiterInv /\ TrafficInv /\ DialInv /\ UdpInv /\ ListenInv /\ ReportInv

LEMMA PartsInit == MCInit => PartsInv
BY LimiterInit, TrafficInit, DialInit, UdpInit, ListenInit, ReportInit DEF MCInit, PartsInv

(* A step of the whole is a step of each part, or leaves it alone.         *)
LEMMA PartsStep ==
    ASSUME [MCNext]_allVars
    PROVE  /\ [Next]_vars /\ [Traffic!Next]_trafficVars
           /\ [Dialers!Next]_dialVars /\ [Udp!Next]_udpVars
           /\ [Listeners!Next]_listenVars /\ [Reporter!Next]_linkVars
           /\ part' = part
<1> USE DEF allVars
<1>1. CASE Limit(Next)
  BY <1>1 DEF Limit
<1>2. CASE Slow(Traffic!Next)
  BY <1>2 DEF Slow
<1>3. CASE Dial(Dialers!Next)
  BY <1>3 DEF Dial
<1>4. CASE Listen(Listeners!Next)
  BY <1>4 DEF Listen
<1>5. CASE Session(Udp!Next)
  BY <1>5 DEF Session
<1>6. CASE Report(Reporter!Next)
  BY <1>6 DEF Report
<1> QED
  BY <1>1, <1>2, <1>3, <1>4, <1>5, <1>6 DEF MCNext

LEMMA PartsNext == PartsInv /\ [MCNext]_allVars => PartsInv'
<1> SUFFICES ASSUME PartsInv, [MCNext]_allVars PROVE PartsInv'
  OBVIOUS
<1>1. LimiterInv' /\ TrafficInv'
  BY PartsStep, LimiterNext, TrafficNext DEF PartsInv
<1>2. DialInv' /\ UdpInv' /\ ListenInv' /\ ReportInv'
  BY PartsStep, DialNext, UdpNext, ListenNext, ReportNext DEF PartsInv
<1> QED
  BY <1>1, <1>2 DEF PartsInv

LEMMA PartsAlways == MCSpec => []PartsInv
BY PartsInit, PartsNext, PTL DEF MCSpec

(* Which part runs is settled at the start.                                *)
PartInv == part \in {"limits", "traffic", "dialers", "listeners", "udp", "link"}
LEMMA PartStays == MCSpec => []PartInv
<1>1. MCInit => PartInv
  BY DEF MCInit, PartInv
<1>2. PartInv /\ [MCNext]_allVars => PartInv'
  BY PartsStep DEF PartInv
<1> QED
  BY <1>1, <1>2, PTL DEF MCSpec

(* Dialers close a session that works for no caller, and leave no          *)
(* connection behind.                                                      *)
THEOREM WorkingSessionsAreKept ==
    Dialers!Spec => Dialers!WorkingIsKept /\ []Dialers!NothingIsLeft
<1>1. DialInv /\ [Dialers!Next]_dialVars => DialInv' /\ Keeping
  BY DialNext, DialKeepsWorking
<1>2. Dialers!vars = dialVars /\ Dialers!vars' = dialVars'
  BY DEF Dialers!vars, dialVars
<1>3. DialInv => Dialers!NothingIsLeft
  BY DialInvIsRight
<1>4. [Dialers!Next]_(Dialers!vars) => [Dialers!Next]_dialVars
  BY <1>2
<1>5. Dialers!Spec => []DialInv /\ [][Dialers!Next]_(Dialers!vars)
  BY <1>1, <1>4, DialInit, PTL DEF Dialers!Spec
<1>6. DialInv /\ [Dialers!Next]_(Dialers!vars) => [Keeping]_(Dialers!vars)
  BY <1>1, <1>4
<1>7. Dialers!Spec => [][Keeping]_(Dialers!vars)
  BY <1>5, <1>6, PTL
<1> QED
  BY <1>3, <1>5, <1>7, PTL DEF Dialers!WorkingIsKept, Keeping

(* A peer of a UDP listener has one session, whatever the idle check       *)
(* closes while its packets arrive.                                        *)
THEOREM OneSessionOfAPeer == Udp!Spec => []Udp!OneSession
<1>1. [Udp!Next]_(Udp!vars) => [Udp!Next]_udpVars
  BY DEF Udp!vars, udpVars
<1> QED
  BY <1>1, UdpInit, UdpNext, UdpInvIsRight, PTL DEF Udp!Spec

(* No accept loop is handed a connection that is not there, but by the     *)
(* listeners of h2 and http3 when they are closed; and it ends only when   *)
(* its listener is closed or has met an error that ends it.                *)
THEOREM AcceptLoopsGoOn ==
    Listeners!Spec => [](Listeners!NeverCrashes /\ Listeners!EndsOnlyWhenClosed)
<1>1. [Listeners!Next]_(Listeners!vars) => [Listeners!Next]_listenVars
  BY DEF Listeners!vars, listenVars
<1> QED
  BY <1>1, ListenInit, ListenNext, ListenInvIsRight, PTL DEF Listeners!Spec

(* The same for all of them side by side: what the run checks of dialers,  *)
(* UDP sessions and accept loops.                                          *)
THEOREM SessionsStayRight == MCSpec => SessionsAreRight
<1>1. PartsInv
        => /\ part = "dialers" => Dialers!NothingIsLeft
           /\ part = "udp" => Udp!OneSession
           /\ part = "listeners" => Listeners!NeverCrashes /\ Listeners!EndsOnlyWhenClosed
  BY DialInvIsRight, UdpInvIsRight, ListenInvIsRight DEF PartsInv
<1>2. PartsInv /\ [MCNext]_allVars => [Keeping]_(Dialers!vars)
  BY PartsStep, DialKeepsWorking DEF PartsInv
<1>3. MCSpec => [][MCNext]_allVars
  BY PTL DEF MCSpec
<1>4. MCSpec => [][Keeping]_(Dialers!vars)
  BY <1>2, <1>3, PartsAlways, PTL
<1>5. MCSpec => Dialers!WorkingIsKept
  BY <1>4, PTL DEF Dialers!WorkingIsKept, Keeping
<1> QED
  BY <1>1, <1>5, PartsAlways, PTL DEF SessionsAreRight

(* No place of a connection limiter is lost when connections are refused,  *)
(* closed or reloaded under, and no byte that a traffic limiter holds back *)
(* is lost or overtaken.                                                   *)
THEOREM NothingGetsLost == MCSpec => []NothingIsLost
<1>1. PartsInv => NothingIsLost
  BY LimiterInvIsRight, TrafficInvIsRight DEF PartsInv, NothingIsLost
<1> QED
  BY <1>1, PartsAlways, PTL

(* Every part keeps its types, and the flag of the node is up only while   *)
(* it has a connection to the master.                                      *)
THEOREM PartsKeepTypes == MCSpec => []TypesOK
<1>1. PartsInv /\ PartInv => TypesOK
  <2> SUFFICES ASSUME PartsInv, PartInv PROVE TypesOK
    OBVIOUS
  <2>1. TypeOK /\ Traffic!TypeOK /\ Dialers!TypeOK
    BY LimiterInvIsRight, TrafficInvIsRight, DialInvIsRight DEF PartsInv
  <2>2. Listeners!TypeOK /\ Udp!TypeOK /\ Reporter!TypeOK /\ Reporter!FlagHasConnection
    BY ListenInvIsRight, UdpInvIsRight DEF PartsInv, ReportInv
  <2> QED
    BY <2>1, <2>2 DEF TypesOK, PartInv
<1> QED
  BY <1>1, PartsAlways, PartStays, PTL
=============================================================================
