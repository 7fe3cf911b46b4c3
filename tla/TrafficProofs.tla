--------------------------- MODULE TrafficProofs ----------------------------
(***************************************************************************)
(* What a visitor's bytes meet on their way through a node, for any number *)
(* of services, requests, tables and talks: a user pays for each byte      *)
(* once, a look-up sees one table, both sides of a talk are heard, and     *)
(* every request gets its answer.                                          *)
(*                                                                         *)
(* Each module has its inductive invariant, in a section of its own: the   *)
(* count, the handler, the relay, the tables, the tunnel.  RoutesProofs    *)
(* adds the routes and puts them together.                                 *)
(***************************************************************************)
EXTENDS MCTraffic, FiniteSetTheorems, SequenceTheorems, WellFoundedInduction, TLAPS

-----------------------------------------------------------------------------
(* Count.  BilledOnce speaks of reports that are over.  While one is under *)
(* way the user has been charged for bytes that are still in the counter;  *)
(* the invariant keeps the books over all phases (Owed) and says which     *)
(* request at the master belongs to which report (Linked).                 *)

(* The report of s has been counted by the master.                         *)
Counted(s) ==
    \/ reporter[s].pc = "ok"
    \/ reporter[s].pc = "posted" /\ posts[reporter[s].post].pc \in {"check", "answer"}

(* The debt of s when what its report will still subtract is subtracted.   *)
Owed(s) ==
    debt[s] + IF reporter[s].pc = "store" THEN bytes[s] - reporter[s].amount
              ELSE IF Counted(s) THEN reporter[s].amount ELSE 0

Linked(s) ==
    LET r == reporter[s] IN
    /\ r.pc \in {"posted", "ok"} => r.amount <= bytes[s]
    /\ r.pc = "posted" => /\ r.post \in Posts
                          /\ posts[r.post].pc # "none"
                          /\ posts[r.post].svc = s
                          /\ posts[r.post].amount = r.amount
    /\ r.pc # "posted" => r.post = None

Owned(p) ==
    posts[p].pc # "none" =>
        /\ posts[p].svc \in Services
        /\ ~failed => /\ reporter[posts[p].svc].pc = "posted"
                      /\ reporter[posts[p].svc].post = p

Fair(s) ==
    /\ ~failed => Owed(s) >= 0
    /\ ~raced /\ ~(reporter[s].pc = "store" /\ reporter[s].added) => Owed(s) <= 0

LinkInv == (\A s \in Services : Linked(s)) /\ (\A p \in Posts : Owned(p))
FairInv == \A s \in Services : Fair(s)
FlowInv == TypeOK /\ LinkInv /\ FairInv

(* The types of a reporter and of a request.                               *)
ReporterType == [pc : {"idle", "posted", "ok", "store"}, amount : 0..MaxBytes,
                 post : Posts \cup {None}, added : BOOLEAN]
PostType == [pc : {"none", "count", "check", "answer"}, svc : Services \cup {None},
             amount : 0..MaxBytes]

(* What a service owes after Owes.                                         *)
Bounded(d) == IF d > MaxDebt THEN MaxDebt ELSE IF d < -MaxDebt THEN -MaxDebt ELSE d

-----------------------------------------------------------------------------
LEMMA MaxDebtType == MaxDebt = 2 * MaxBytes /\ MaxDebt \in Nat
BY FlowAssumption DEF MaxDebt

LEMMA BoundedDebt ==
    ASSUME NEW d \in Int
    PROVE  /\ Bounded(d) \in (-MaxDebt)..MaxDebt
           /\ d >= 0 => Bounded(d) >= 0
           /\ d <= 0 => Bounded(d) <= 0
           /\ \A k \in 0..MaxDebt : /\ d >= -k => Bounded(d) >= -k
                                    /\ d <= -k => Bounded(d) <= -k
BY MaxDebtType DEF Bounded

LEMMA OwesDebt ==
    ASSUME TypeOK, NEW s \in Services, NEW n \in Int, Owes(s, n)
    PROVE  /\ debt' \in [Services -> (-MaxDebt)..MaxDebt]
           /\ debt'[s] = Bounded(debt[s] + n)
           /\ \A t \in Services \ {s} : debt'[t] = debt[t]
<1>1. debt[s] \in Int
  BY MaxDebtType DEF TypeOK
<1>2. debt' = [debt EXCEPT ![s] = Bounded(debt[s] + n)]
  BY DEF Owes, Bounded
<1>3. Bounded(debt[s] + n) \in (-MaxDebt)..MaxDebt
  BY <1>1, BoundedDebt
<1> QED
  BY <1>2, <1>3 DEF TypeOK

LEMMA InitFlowInv == Init => FlowInv
<1> SUFFICES ASSUME Init PROVE FlowInv
  OBVIOUS
<1>1. TypeOK
  <2>1. Idle \in ReporterType /\ Done \in PostType /\ 0 \in (-MaxDebt)..MaxDebt
    BY FlowAssumption, MaxDebtType DEF Idle, Done, ReporterType, PostType
  <2>2. reporter \in [Services -> ReporterType] /\ posts \in [Posts -> PostType]
    BY <2>1 DEF Init
  <2>3. debt \in [Services -> (-MaxDebt)..MaxDebt]
    BY <2>1 DEF Init
  <2>4. /\ bytes \in [Services -> 0..MaxBytes] /\ updated \in [Services -> BOOLEAN]
        /\ total \in 0..(Limit + 1) /\ failures \in 0..MaxFailures
        /\ running \subseteq Services /\ active \subseteq Services
        /\ raced = FALSE /\ failed = FALSE
    <3>1. Limit \in Nat /\ MaxFailures \in Nat /\ MaxBytes \in Nat
      BY FlowAssumption
    <3>2. 0 \in 0..MaxBytes /\ 0 \in 0..(Limit + 1) /\ 0 \in 0..MaxFailures
      BY <3>1
    <3> QED
      BY <3>2 DEF Init
  <2> QED
    BY <2>2, <2>3, <2>4 DEF TypeOK, ReporterType, PostType
<1>2. LinkInv
  BY DEF Init, Idle, Done, LinkInv, Linked, Owned
<1>3. FairInv
  BY DEF Init, Idle, FairInv, Fair, Owed, Counted
<1> QED
  BY <1>1, <1>2, <1>3 DEF FlowInv

-----------------------------------------------------------------------------
(* The steps of the node.                                                  *)
LEMMA AddKeeps ==
    ASSUME FlowInv, NEW s \in Services, Add(s)
    PROVE  FlowInv'
<1>1. TypeOK'
  <2> DEFINE added == reporter[s].pc = "store"
  <2>1. reporter' \in [Services -> ReporterType]
    <3>1. added \in BOOLEAN /\ reporter' = [reporter EXCEPT ![s].added = added]
      BY DEF Add
    <3>2. reporter \in [Services -> ReporterType]
      BY DEF FlowInv, TypeOK, ReporterType
    <3> HIDE DEF added
    <3>3. [reporter[s] EXCEPT !.added = added] \in ReporterType
      BY <3>1, <3>2 DEF ReporterType
    <3> QED
      BY <3>1, <3>2, <3>3
  <2>2. bytes' \in [Services -> 0..MaxBytes] /\ updated' \in [Services -> BOOLEAN]
    BY FlowAssumption DEF FlowInv, TypeOK, Add
  <2> QED
    BY <2>1, <2>2 DEF FlowInv, TypeOK, Add, ReporterType
<1>2. \A t \in Services : /\ reporter'[t].pc = reporter[t].pc
                          /\ reporter'[t].amount = reporter[t].amount
                          /\ reporter'[t].post = reporter[t].post
  BY DEF FlowInv, TypeOK, Add
<1>3. bytes'[s] = bytes[s] + 1 /\ \A t \in Services \ {s} : bytes'[t] = bytes[t]
  BY DEF FlowInv, TypeOK, Add
<1>4. bytes \in [Services -> Nat] /\ \A t \in Services : reporter[t].amount \in Nat
  BY FlowAssumption DEF FlowInv, TypeOK
<1>5. LinkInv'
  BY <1>2, <1>3, <1>4 DEF FlowInv, LinkInv, Linked, Owned, Add
<1>6. \A t \in Services : Counted(t)' = Counted(t)
  BY <1>2 DEF Counted, Add
<1>7. FairInv'
  <2> SUFFICES ASSUME NEW t \in Services PROVE Fair(t)'
    BY DEF FairInv
  <2>1. CASE t = s /\ reporter[s].pc = "store"
    <3>1. reporter'[s].added
      BY <2>1 DEF Add, FlowInv, TypeOK
    <3>2. debt[s] \in Int /\ debt'[s] = debt[s] /\ failed' = failed
      BY MaxDebtType DEF Add, FlowInv, TypeOK
    <3>3. Owed(s)' = Owed(s) + 1 /\ Owed(s) \in Int
      BY <1>2, <1>3, <1>4, <2>1, <3>2 DEF Owed
    <3> QED
      BY <1>2, <2>1, <3>1, <3>2, <3>3 DEF Fair, FlowInv, FairInv
  <2>2. CASE ~(t = s /\ reporter[s].pc = "store")
    <3>1. Owed(t)' = Owed(t)
      BY <1>2, <1>3, <1>6, <2>2 DEF Owed, Add
    <3>2. reporter[t].pc = "store" => reporter'[t].added = reporter[t].added
      BY <2>2 DEF Add, FlowInv, TypeOK
    <3> QED
      BY <1>2, <3>1, <3>2 DEF Fair, FlowInv, FairInv, Add
  <2> QED
    BY <2>1, <2>2
<1> QED
  BY <1>1, <1>5, <1>7 DEF FlowInv

LEMMA ReportKeeps ==
    ASSUME FlowInv, NEW s \in Services, Report(s)
    PROVE  FlowInv'
<1>1. CASE bytes[s] = 0
  <2>1. UNCHANGED <<bytes, reporter, posts, total, running, active, debt, raced, failures, failed>>
    BY <1>1 DEF Report
  <2>2. updated' \in [Services -> BOOLEAN]
    BY DEF Report, FlowInv, TypeOK
  <2> QED
    BY <2>1, <2>2 DEF FlowInv, TypeOK, LinkInv, Linked, Owned, FairInv, Fair, Owed, Counted
<1>2. CASE bytes[s] # 0
  <2>1. PICK p \in Posts :
          /\ posts[p] = Done
          /\ posts' = [posts EXCEPT ![p] = [pc |-> "count", svc |-> s, amount |-> bytes[s]]]
          /\ reporter' = [reporter EXCEPT ![s] =
               [Idle EXCEPT !.pc = "posted", !.amount = bytes[s], !.post = p]]
    BY <1>2 DEF Report
  <2>2. /\ reporter[s] = Idle
        /\ updated' = [updated EXCEPT ![s] = FALSE]
        /\ UNCHANGED <<bytes, total, running, active, debt, raced, failures, failed>>
    BY DEF Report
  <2>3. TypeOK'
    BY <2>1, <2>2 DEF FlowInv, TypeOK, Idle
  <2>4. /\ reporter'[s] = [pc |-> "posted", amount |-> bytes[s], post |-> p, added |-> FALSE]
        /\ \A t \in Services \ {s} : reporter'[t] = reporter[t]
        /\ posts'[p] = [pc |-> "count", svc |-> s, amount |-> bytes[s]]
        /\ \A q \in Posts \ {p} : posts'[q] = posts[q]
    BY <2>1 DEF FlowInv, TypeOK, Idle
  <2>5. \A t \in Services : reporter[t].pc = "posted" => reporter[t].post \in Posts \ {p}
    BY <2>1 DEF FlowInv, LinkInv, Linked, Done
  <2>6. bytes[s] \in Nat
    BY FlowAssumption DEF FlowInv, TypeOK
  <2>7. LinkInv'
    <3>1. \A t \in Services : Linked(t)'
      BY <2>2, <2>4, <2>5, <2>6 DEF FlowInv, LinkInv, Linked
    <3>2. ASSUME NEW q \in Posts PROVE Owned(q)'
      <4>1. CASE q = p
        BY <2>4, <4>1 DEF Owned
      <4>2. CASE q # p
        <5>1. posts[q].pc # "none" /\ ~failed => posts[q].svc \in Services \ {s}
          BY <2>2 DEF FlowInv, LinkInv, Owned, Idle
        <5> QED
          BY <2>2, <2>4, <4>2, <5>1 DEF FlowInv, LinkInv, Owned
      <4> QED
        BY <4>1, <4>2
    <3> QED
      BY <3>1, <3>2 DEF LinkInv
  <2>8. FairInv'
    <3> SUFFICES ASSUME NEW t \in Services PROVE Fair(t)'
      BY DEF FairInv
    <3>1. Owed(t)' = Owed(t)
      BY <2>2, <2>4, <2>5 DEF Owed, Counted, Idle
    <3>2. reporter'[t].pc = "store" <=> reporter[t].pc = "store"
      BY <2>2, <2>4 DEF Idle
    <3> QED
      BY <2>2, <2>4, <3>1, <3>2 DEF Fair, FlowInv, FairInv
  <2> QED
    BY <2>3, <2>7, <2>8 DEF FlowInv
<1> QED
  BY <1>1, <1>2

LEMMA GiveUpKeeps ==
    ASSUME FlowInv, NEW s \in Services, GiveUp(s)
    PROVE  FlowInv'
<1> DEFINE p == reporter[s].post
<1>1. /\ reporter[s].pc = "posted" /\ p \in Posts /\ posts[p].svc = s
      /\ reporter[s].amount \in 0..MaxBytes
  BY DEF GiveUp, FlowInv, TypeOK, LinkInv, Linked
<1>2. /\ failed' = TRUE
      /\ reporter' = [reporter EXCEPT ![s] = Idle]
      /\ UNCHANGED <<bytes, updated, total, running, active, debt, raced>>
      /\ posts' \in {posts, [posts EXCEPT ![p] = Done]}
  BY DEF GiveUp
<1>3. TypeOK'
  BY <1>1, <1>2, FlowAssumption DEF GiveUp, FlowInv, TypeOK, Idle, Done
<1>4. reporter'[s] = Idle /\ \A t \in Services \ {s} : reporter'[t] = reporter[t]
  BY <1>2 DEF FlowInv, TypeOK
<1>5. \A q \in Posts : posts'[q] = posts[q] \/ (q = p /\ posts'[q] = Done)
  BY <1>1, <1>2 DEF FlowInv, TypeOK
<1>6. \A t \in Services \ {s} :
        reporter[t].pc = "posted" => posts'[reporter[t].post] = posts[reporter[t].post]
  BY <1>1, <1>5 DEF FlowInv, LinkInv, Linked
<1>7. LinkInv'
  <2>1. ASSUME NEW t \in Services PROVE Linked(t)'
    BY <1>2, <1>4, <1>6 DEF FlowInv, LinkInv, Linked, Idle
  <2>2. ASSUME NEW q \in Posts PROVE Owned(q)'
    BY <1>2, <1>5 DEF FlowInv, LinkInv, Owned, Done
  <2> QED
    BY <2>1, <2>2 DEF LinkInv
<1>8. FairInv'
  <2> SUFFICES ASSUME NEW t \in Services PROVE Fair(t)'
    BY DEF FairInv
  <2>1. CASE t = s
    <3>1. debt[s] \in Int /\ (~raced => Owed(s) <= 0)
      BY <1>1, MaxDebtType DEF FlowInv, TypeOK, FairInv, Fair
    <3>2. ~raced => debt[s] <= 0
      BY <1>1, <3>1, FlowAssumption DEF Owed
    <3>3. Owed(s)' = debt[s]
      BY <1>2, <1>4, <3>1 DEF Owed, Counted, Idle
    <3> QED
      BY <1>2, <2>1, <3>2, <3>3 DEF Fair
  <2>2. CASE t # s
    <3>1. Owed(t)' = Owed(t)
      BY <1>2, <1>4, <1>6, <2>2 DEF Owed, Counted
    <3> QED
      BY <1>2, <1>4, <2>2, <3>1 DEF Fair, FlowInv, FairInv
  <2> QED
    BY <2>1, <2>2
<1> QED
  BY <1>3, <1>7, <1>8 DEF FlowInv

LEMMA LoadKeeps ==
    ASSUME FlowInv, NEW s \in Services, Load(s)
    PROVE  FlowInv'
<1>1. /\ reporter[s].pc = "ok"
      /\ bytes[s] \in 0..MaxBytes /\ reporter[s].amount \in 0..MaxBytes
      /\ reporter[s].amount <= bytes[s] /\ debt[s] \in Int
  BY MaxDebtType DEF Load, FlowInv, TypeOK, LinkInv, Linked
<1>2. /\ reporter'[s] = [reporter[s] EXCEPT !.pc = "store",
                                           !.amount = bytes[s] - reporter[s].amount]
      /\ \A t \in Services \ {s} : reporter'[t] = reporter[t]
      /\ UNCHANGED <<bytes, updated, posts, total, running, active, debt, raced,
                     failures, failed>>
  BY DEF Load, FlowInv, TypeOK
<1>3. /\ reporter'[s].pc = "store" /\ reporter'[s].post = reporter[s].post
      /\ reporter'[s].amount = bytes[s] - reporter[s].amount
      /\ reporter'[s].added = reporter[s].added
  BY <1>2 DEF FlowInv, TypeOK
<1>4. bytes[s] - reporter[s].amount \in 0..MaxBytes
  BY <1>1, FlowAssumption
<1>5. TypeOK'
  <2>1. reporter' \in [Services -> ReporterType]
    <3>0. reporter[s] \in ReporterType
      BY DEF FlowInv, TypeOK, ReporterType
    <3>1. reporter'[s] \in ReporterType
      BY <3>0, <1>2, <1>4 DEF ReporterType
    <3>2. \A t \in Services : reporter'[t] \in ReporterType
      BY <1>2, <3>1 DEF FlowInv, TypeOK, ReporterType
    <3>3. reporter' = [t \in Services |-> reporter'[t]]
      BY DEF Load, FlowInv, TypeOK
    <3> QED
      BY <3>2, <3>3
  <2> QED
    BY <1>2, <2>1 DEF FlowInv, TypeOK, ReporterType
<1>6. LinkInv'
  <2>1. ASSUME NEW t \in Services PROVE Linked(t)'
    <3>1. Linked(t)
      BY DEF FlowInv, LinkInv
    <3>2. CASE t = s
      BY <1>1, <1>3, <3>1, <3>2 DEF Linked
    <3>3. CASE t # s
      BY <1>2, <3>1, <3>3 DEF Linked
    <3> QED
      BY <3>2, <3>3
  <2>2. ASSUME NEW q \in Posts PROVE Owned(q)'
    BY <1>1, <1>2 DEF FlowInv, LinkInv, Owned
  <2> QED
    BY <2>1, <2>2 DEF LinkInv
<1>7. FairInv'
  <2> SUFFICES ASSUME NEW t \in Services PROVE Fair(t)'
    BY DEF FairInv
  <2>1. CASE t = s
    <3>1. Owed(s)' = Owed(s)
      BY <1>1, <1>2, <1>3, FlowAssumption DEF Owed, Counted
    <3> QED
      BY <1>1, <1>2, <2>1, <3>1 DEF Fair, FlowInv, FairInv
  <2>2. CASE t # s
    <3>1. Owed(t)' = Owed(t)
      BY <1>2, <2>2 DEF Owed, Counted
    <3> QED
      BY <1>2, <2>2, <3>1 DEF Fair, FlowInv, FairInv
  <2> QED
    BY <2>1, <2>2
<1> QED
  BY <1>5, <1>6, <1>7 DEF FlowInv

LEMMA StoreKeeps ==
    ASSUME FlowInv, NEW s \in Services, Store(s)
    PROVE  FlowInv'
<1> DEFINE n == bytes[s] - reporter[s].amount
<1>1. /\ reporter[s].pc = "store"
      /\ bytes[s] \in 0..MaxBytes /\ reporter[s].amount \in 0..MaxBytes
      /\ debt[s] \in Int /\ n \in Int
  BY MaxDebtType, FlowAssumption DEF Store, FlowInv, TypeOK
<1>2. /\ reporter'[s] = Idle /\ bytes'[s] = reporter[s].amount
      /\ \A t \in Services \ {s} : reporter'[t] = reporter[t] /\ bytes'[t] = bytes[t]
      /\ raced' = (raced \/ reporter[s].added)
      /\ UNCHANGED <<updated, posts, total, running, active, failures, failed>>
  BY DEF Store, FlowInv, TypeOK
<1>3. /\ debt' \in [Services -> (-MaxDebt)..MaxDebt]
      /\ debt'[s] = Bounded(debt[s] + n)
      /\ \A t \in Services \ {s} : debt'[t] = debt[t]
  BY <1>1, OwesDebt DEF Store, FlowInv
<1>4. TypeOK'
  <2>1. bytes' \in [Services -> 0..MaxBytes]
    BY <1>1 DEF Store, FlowInv, TypeOK
  <2>2. Idle \in ReporterType
    BY FlowAssumption DEF Idle, ReporterType
  <2>3. reporter' \in [Services -> ReporterType]
    BY <2>2 DEF Store, FlowInv, TypeOK, ReporterType
  <2>4. raced' \in BOOLEAN
    BY <1>1, <1>2 DEF FlowInv, TypeOK
  <2> QED
    BY <1>2, <1>3, <2>1, <2>3, <2>4 DEF FlowInv, TypeOK, ReporterType
<1>5. LinkInv'
  <2>1. ASSUME NEW t \in Services PROVE Linked(t)'
    BY <1>2 DEF FlowInv, LinkInv, Linked, Idle
  <2>2. ASSUME NEW q \in Posts PROVE Owned(q)'
    BY <1>1, <1>2 DEF FlowInv, LinkInv, Owned
  <2> QED
    BY <2>1, <2>2 DEF LinkInv
<1>6. FairInv'
  <2> SUFFICES ASSUME NEW t \in Services PROVE Fair(t)'
    BY DEF FairInv
  <2>1. CASE t = s
    <3>1. Owed(s) = debt[s] + n
      BY <1>1 DEF Owed
    <3>2. Owed(s)' = debt'[s] /\ debt'[s] \in Int
      BY <1>2, <1>3, MaxDebtType DEF Owed, Counted, Idle
    <3>3. debt[s] + n \in Int
      BY <1>1
    <3>4. ~failed => Owed(s) >= 0
      BY DEF FlowInv, FairInv, Fair
    <3>5. ~raced' => Owed(s) <= 0
      BY <1>2 DEF FlowInv, FairInv, Fair
    <3>6. debt[s] + n >= 0 => Bounded(debt[s] + n) >= 0
      BY <3>3, BoundedDebt
    <3>7. debt[s] + n <= 0 => Bounded(debt[s] + n) <= 0
      BY <3>3, BoundedDebt
    <3> QED
      BY <1>2, <1>3, <2>1, <3>1, <3>2, <3>4, <3>5, <3>6, <3>7 DEF Fair
  <2>2. CASE t # s
    <3>1. Owed(t)' = Owed(t)
      BY <1>2, <1>3, <2>2 DEF Owed, Counted
    <3> QED
      BY <1>2, <2>2, <3>1 DEF Fair, FlowInv, FairInv
  <2> QED
    BY <2>1, <2>2
<1> QED
  BY <1>4, <1>5, <1>6 DEF FlowInv

-----------------------------------------------------------------------------
(* The steps of the master.                                                *)
LEMMA CountKeeps ==
    ASSUME FlowInv, NEW p \in Posts, Count(p)
    PROVE  FlowInv'
<1> DEFINE s == posts[p].svc
           a == posts[p].amount
<1>1. /\ posts[p].pc = "count" /\ s \in Services
      /\ a \in 0..MaxBytes /\ -a \in Int /\ debt[s] \in Int
  BY MaxDebtType, FlowAssumption DEF Count, FlowInv, TypeOK, LinkInv, Owned
<1>2. /\ posts'[p] = [posts[p] EXCEPT !.pc = "check"]
      /\ \A q \in Posts \ {p} : posts'[q] = posts[q]
      /\ UNCHANGED <<bytes, updated, reporter, running, active, raced, failures, failed>>
  BY DEF Count, FlowInv, TypeOK
<1>3. posts'[p].pc = "check" /\ posts'[p].svc = s /\ posts'[p].amount = a
  BY <1>2 DEF FlowInv, TypeOK
<1>4. /\ debt' \in [Services -> (-MaxDebt)..MaxDebt]
      /\ debt'[s] = Bounded(debt[s] + (-a))
      /\ \A t \in Services \ {s} : debt'[t] = debt[t]
  BY <1>1, OwesDebt DEF Count, FlowInv
<1>5. TypeOK'
  <2>1. total' \in 0..(Limit + 1)
    BY <1>1, FlowAssumption DEF Count, Capped, FlowInv, TypeOK
  <2>2. posts' \in [Posts -> [pc : {"none", "count", "check", "answer"},
                             svc : Services \cup {None}, amount : 0..MaxBytes]]
    BY DEF Count, FlowInv, TypeOK
  <2> QED
    BY <1>2, <1>4, <2>1, <2>2 DEF FlowInv, TypeOK
<1>6. LinkInv'
  <2>1. ASSUME NEW t \in Services PROVE Linked(t)'
    <3>1. Linked(t)
      BY DEF FlowInv, LinkInv
    <3>2. CASE reporter[t].post = p
      BY <1>2, <1>3, <3>1, <3>2 DEF Linked
    <3>3. CASE reporter[t].post # p
      BY <1>2, <3>1, <3>3 DEF Linked
    <3> QED
      BY <3>2, <3>3
  <2>2. ASSUME NEW q \in Posts PROVE Owned(q)'
    <3>1. Owned(q)
      BY DEF FlowInv, LinkInv
    <3>2. CASE q = p
      BY <1>1, <1>2, <1>3, <3>1, <3>2 DEF Owned
    <3>3. CASE q # p
      BY <1>2, <3>1, <3>3 DEF Owned
    <3> QED
      BY <3>2, <3>3
  <2> QED
    BY <2>1, <2>2 DEF LinkInv
<1>7. FairInv'
  <2> SUFFICES ASSUME NEW t \in Services PROVE Fair(t)'
    BY DEF FairInv
  <2>1. CASE t # s
    <3>1. reporter[t].pc = "posted" => reporter[t].post \in Posts \ {p}
      BY <2>1 DEF FlowInv, LinkInv, Linked
    <3>2. Owed(t)' = Owed(t)
      BY <1>2, <1>4, <2>1, <3>1 DEF Owed, Counted
    <3> QED
      BY <1>2, <3>2 DEF Fair, FlowInv, FairInv
  <2>2. CASE t = s /\ reporter[s].pc = "posted" /\ reporter[s].post = p
    <3>1. reporter[s].amount = a
      BY <1>1, <2>2 DEF FlowInv, LinkInv, Linked
    <3>2. Owed(s) = debt[s]
      BY <1>1, <2>2 DEF Owed, Counted
    <3>3. Owed(s)' = debt'[s] + a
      BY <1>2, <1>3, <2>2, <3>1 DEF Owed, Counted
    <3>4. a \in 0..MaxDebt /\ debt[s] + (-a) \in Int
      BY <1>1, MaxDebtType, FlowAssumption
    <3>5. /\ debt[s] + (-a) >= -a => Bounded(debt[s] + (-a)) >= -a
          /\ debt[s] + (-a) <= -a => Bounded(debt[s] + (-a)) <= -a
      BY <3>4, BoundedDebt
    <3>6. debt'[s] \in Int
      BY <1>1, <1>4, MaxDebtType
    <3>7. (~failed => debt[s] >= 0) /\ (~raced => debt[s] <= 0)
      BY <2>2, <3>2 DEF FlowInv, FairInv, Fair
    <3>8. (~failed => debt'[s] + a >= 0) /\ (~raced => debt'[s] + a <= 0)
      BY <1>1, <1>4, <3>5, <3>6, <3>7, FlowAssumption
    <3> QED
      BY <1>2, <2>2, <3>3, <3>8 DEF Fair
  <2>3. CASE t = s /\ ~(reporter[s].pc = "posted" /\ reporter[s].post = p)
    <3>1. failed
      BY <1>1, <2>3 DEF FlowInv, LinkInv, Owned
    <3> DEFINE x == IF reporter[s].pc = "store" THEN bytes[s] - reporter[s].amount
                    ELSE IF Counted(s) THEN reporter[s].amount ELSE 0
    <3>2. x \in Int /\ x <= MaxDebt
      BY <1>1, FlowAssumption, MaxDebtType DEF FlowInv, TypeOK
    <3>3. Counted(s)' = Counted(s)
      BY <1>1, <1>2, <2>3 DEF Counted, FlowInv, LinkInv, Linked
    <3>4. Owed(s) = debt[s] + x /\ Owed(s)' = debt'[s] + x
      BY <1>2, <3>3 DEF Owed
    <3>5. debt[s] + x <= 0 => debt'[s] + x <= 0
      <4> HIDE DEF x
      <4>1. CASE debt[s] + (-a) < -MaxDebt
        BY <1>1, <1>4, <3>2, <4>1, MaxDebtType DEF Bounded
      <4>2. CASE debt[s] + (-a) >= -MaxDebt
        BY <1>1, <1>4, <3>2, <4>2, MaxDebtType, FlowAssumption DEF Bounded
      <4> QED
        BY <1>1, <4>1, <4>2, MaxDebtType
    <3> QED
      BY <1>2, <2>3, <3>1, <3>4, <3>5 DEF Fair, FlowInv, FairInv
  <2> QED
    BY <2>1, <2>2, <2>3
<1> QED
  BY <1>5, <1>6, <1>7 DEF FlowInv

LEMMA CheckKeeps ==
    ASSUME FlowInv, NEW p \in Posts, Check(p)
    PROVE  FlowInv'
<1>1. /\ posts[p].pc = "check"
      /\ posts'[p] = [posts[p] EXCEPT !.pc = "answer"]
      /\ \A q \in Posts \ {p} : posts'[q] = posts[q]
      /\ UNCHANGED <<bytes, updated, reporter, total, debt, raced, failed>>
  BY DEF Check, FlowInv, TypeOK
<1>2. /\ posts'[p].pc = "answer" /\ posts'[p].svc = posts[p].svc
      /\ posts'[p].amount = posts[p].amount
  BY <1>1 DEF FlowInv, TypeOK
<1>3. TypeOK'
  <2>1. posts' \in [Posts -> [pc : {"none", "count", "check", "answer"},
                             svc : Services \cup {None}, amount : 0..MaxBytes]]
    <3>1. posts \in [Posts -> PostType] /\ posts' = [posts EXCEPT ![p].pc = "answer"]
      BY DEF Check, FlowInv, TypeOK, PostType
    <3>2. [posts[p] EXCEPT !.pc = "answer"] \in PostType
      BY <3>1 DEF PostType
    <3>3. posts' \in [Posts -> PostType]
      BY <3>1, <3>2
    <3> QED
      BY <3>3 DEF PostType
  <2>2. running' \subseteq Services /\ active' \subseteq Services /\ failures' \in 0..MaxFailures
    BY FlowAssumption DEF Check, FlowInv, TypeOK
  <2> QED
    BY <1>1, <2>1, <2>2 DEF FlowInv, TypeOK
<1>4. LinkInv'
  <2>1. ASSUME NEW t \in Services PROVE Linked(t)'
    <3>1. Linked(t)
      BY DEF FlowInv, LinkInv
    <3>2. CASE reporter[t].post = p
      BY <1>1, <1>2, <3>1, <3>2 DEF Linked
    <3>3. CASE reporter[t].post # p
      BY <1>1, <3>1, <3>3 DEF Linked
    <3> QED
      BY <3>2, <3>3
  <2>2. ASSUME NEW q \in Posts PROVE Owned(q)'
    <3>1. Owned(q)
      BY DEF FlowInv, LinkInv
    <3>2. CASE q = p
      BY <1>1, <1>2, <3>1, <3>2 DEF Owned
    <3>3. CASE q # p
      BY <1>1, <3>1, <3>3 DEF Owned
    <3> QED
      BY <3>2, <3>3
  <2> QED
    BY <2>1, <2>2 DEF LinkInv
<1>5. \A t \in Services : Counted(t)' = Counted(t)
  BY <1>1, <1>2 DEF Counted, FlowInv, LinkInv, Linked
<1>6. \A t \in Services : Owed(t)' = Owed(t)
  BY <1>1, <1>5 DEF Owed
<1>7. FairInv'
  BY <1>1, <1>6 DEF FlowInv, FairInv, Fair
<1> QED
  BY <1>3, <1>4, <1>7 DEF FlowInv

LEMMA ReplyKeeps ==
    ASSUME FlowInv, NEW p \in Posts, Reply(p)
    PROVE  FlowInv'
<1>1. /\ posts[p].pc = "answer" /\ posts'[p] = Done
      /\ \A q \in Posts \ {p} : posts'[q] = posts[q]
      /\ UNCHANGED <<bytes, updated, total, running, active, debt, raced, failures, failed>>
  BY DEF Reply, FlowInv, TypeOK
<1>2. \A t \in Services :
        /\ reporter[t].post # p => reporter'[t] = reporter[t]
        /\ reporter[t].post = p => /\ reporter'[t].pc = "ok" /\ reporter'[t].post = None
                                   /\ reporter'[t].amount = reporter[t].amount
                                   /\ reporter'[t].added = reporter[t].added
  <2> SUFFICES ASSUME NEW t \in Services
               PROVE  /\ reporter[t].post # p => reporter'[t] = reporter[t]
                      /\ reporter[t].post = p =>
                            /\ reporter'[t].pc = "ok" /\ reporter'[t].post = None
                            /\ reporter'[t].amount = reporter[t].amount
                            /\ reporter'[t].added = reporter[t].added
    OBVIOUS
  <2>1. reporter[t] \in ReporterType
    BY DEF FlowInv, TypeOK, ReporterType
  <2>2. reporter'[t] = IF reporter[t].post = p
                       THEN [reporter[t] EXCEPT !.pc = "ok", !.post = None] ELSE reporter[t]
    BY DEF Reply
  <2> QED
    BY <2>1, <2>2 DEF ReporterType
<1>3. p # None
  BY FlowAssumption
<1>4. \A t \in Services :
        reporter[t].post = p => reporter[t].pc = "posted"
  BY <1>3 DEF FlowInv, LinkInv, Linked
<1>5. TypeOK'
  <2>1. Done \in PostType
    BY FlowAssumption DEF Done, PostType
  <2>2. posts' \in [Posts -> PostType]
    BY <2>1 DEF Reply, FlowInv, TypeOK, PostType
  <2>3. ASSUME NEW t \in Services
        PROVE  (IF reporter[t].post = p
                THEN [reporter[t] EXCEPT !.pc = "ok", !.post = None]
                ELSE reporter[t]) \in ReporterType
    <3>1. reporter[t] \in ReporterType
      BY DEF FlowInv, TypeOK, ReporterType
    <3> QED
      BY <3>1 DEF ReporterType
  <2>4. reporter' \in [Services -> ReporterType]
    BY <2>3 DEF Reply
  <2> QED
    BY <1>1, <2>2, <2>4 DEF FlowInv, TypeOK, ReporterType, PostType
<1>6. LinkInv'
  <2>1. ASSUME NEW t \in Services PROVE Linked(t)'
    BY <1>1, <1>2, <1>4 DEF FlowInv, LinkInv, Linked
  <2>2. ASSUME NEW q \in Posts PROVE Owned(q)'
    BY <1>1, <1>2 DEF FlowInv, LinkInv, Owned, Done
  <2> QED
    BY <2>1, <2>2 DEF LinkInv
<1>7. FairInv'
  <2> SUFFICES ASSUME NEW t \in Services PROVE Fair(t)'
    BY DEF FairInv
  <2>1. Counted(t)' = Counted(t)
    BY <1>1, <1>2, <1>4 DEF Counted, FlowInv, LinkInv, Linked
  <2>2. Owed(t)' = Owed(t)
    BY <1>1, <1>2, <1>4, <2>1 DEF Owed
  <2> QED
    BY <1>1, <1>2, <1>4, <2>2 DEF Fair, FlowInv, FairInv
<1> QED
  BY <1>5, <1>6, <1>7 DEF FlowInv

-----------------------------------------------------------------------------
LEMMA NextFlowInv == FlowInv /\ [Next]_vars => FlowInv'
<1> SUFFICES ASSUME FlowInv, [Next]_vars PROVE FlowInv'
  OBVIOUS
<1>1. ASSUME NEW s \in Services, Add(s) \/ Reporter(s) \/ GiveUp(s)
      PROVE  FlowInv'
  BY <1>1, AddKeeps, ReportKeeps, LoadKeeps, StoreKeeps, GiveUpKeeps DEF Reporter
<1>2. ASSUME NEW p \in Posts, Handler(p)
      PROVE  FlowInv'
  BY <1>2, CountKeeps, CheckKeeps, ReplyKeeps DEF Handler
<1>3. CASE UNCHANGED vars
  BY <1>3 DEF vars, FlowInv, TypeOK, LinkInv, Linked, Owned, FairInv, Fair, Owed, Counted
<1> QED
  BY <1>1, <1>2, <1>3 DEF Next

(* The books of the node and the master agree at every step: no byte of a  *)
(* finished report is charged twice unless a request failed, and none is   *)
(* forgotten unless traffic came into a reset of the counter.              *)
THEOREM FlowInvariant == Spec => []FlowInv
<1>1. Init => FlowInv
  BY InitFlowInv
<1>2. FlowInv /\ [Next]_vars => FlowInv'
  BY NextFlowInv
<1> QED
  BY <1>1, <1>2, PTL DEF Spec

(* Traffic is billed once, for all services, requests, limits and bounds.  *)
THEOREM EveryByteOnce == Spec => []BilledOnce
<1>1. FlowInv => BilledOnce
  <2> SUFFICES ASSUME FlowInv, NEW s \in Services, reporter[s].pc = "idle"
               PROVE  (~failed => debt[s] >= 0) /\ (~raced => debt[s] <= 0)
    BY DEF BilledOnce
  <2>1. debt[s] \in Int
    BY MaxDebtType DEF FlowInv, TypeOK
  <2>2. Owed(s) = debt[s]
    BY <2>1 DEF Owed, Counted
  <2> QED
    BY <2>2 DEF FlowInv, FairInv, Fair
<1> QED
  BY <1>1, FlowInvariant, PTL

-----------------------------------------------------------------------------
(* Handler.  What the server has received, what waits in the buffered      *)
(* reader and what has not been read yet is together what the client has   *)
(* said so far, in this order (Told) — or the handler has left in the      *)
(* reader what it peeked at, and the server hears what follows (Stream).   *)

Told(q, who) ==
    /\ q \in Seq(Nat)
    /\ \A j, k \in DOMAIN q : j < k => q[j] < q[k]
    /\ Handling!ToSet(q) = Handling!Of(who) \cap sent

Over == {"closed", "left", "crashed"}
LeftBehind ==
    /\ ~kind.whole /\ proto = "raw" /\ rest = "in" /\ pc \in {"copy", "closed", "left"}
    /\ Told((br \o server) \o in, "c")
Stream ==
    \/ Told((server \o br) \o in, "c") /\ (pc \in Over \cup {"sniff"} \/ rest = "br" \/ br = <<>>)
    \/ LeftBehind

(* Who speaks has said all before it.                                      *)
InTurn == \A i \in sent : \A j \in 1..i - 1 :
    Handling!Script[j] = Handling!Script[i] => j \in sent

Numbers == 1..Len(Handling!Script)
HandlerTypes ==
    /\ \E c \in HandlerCases :
          kind = Handling!Handler[c.kind] /\ opt = c.opt /\ talk = c.talk
    /\ way \in Obstacles
    /\ pc \in {"limit", "request", "auth", "bypass", "dial", "reply", "sniff", "dial named",
               "refuse", "copy", "leave", "closed", "left", "crashed"}
    /\ dest \in {"none", "asked", "named"} /\ proto \in {"unknown", "http", "tls", "raw"}
    /\ rest \in {"in", "br"} /\ open \subseteq {"c", "s"} /\ replied \in BOOLEAN
    /\ sent \subseteq Numbers
    /\ client \in Seq(Numbers) /\ server \in Seq(Numbers)
    /\ in \in Seq(Numbers) /\ br \in Seq(Numbers) /\ back \in Seq(Numbers)

(* How far the handler has come says what it has looked at.                *)
Looked ==
    /\ pc \notin Over \cup {"copy"} => server = <<>>
    /\ pc \in {"limit", "request", "auth"} => br = <<>>
    /\ pc \in {"bypass", "dial", "reply"} /\ kind.sniff = "after" => br = <<>>
    /\ pc = "sniff" => (opt.sniffing /\ kind.sniff # "never") \/ kind.sniff = "always"

Passed ==
    /\ pc \notin Over \cup {"limit"} => "rate" \notin way
    /\ pc \notin Over \cup {"limit", "request", "auth"} /\ kind.ask => "auth" \notin way
    /\ pc \in {"dial", "reply"} => "asked" \notin kind.bypass \cap way
    /\ pc \in {"dial named", "refuse"} => ~kind.ask
    /\ Handling!BypassedIsNotDialled

HandlerInv ==
    HandlerTypes /\ Looked /\ Passed /\ InTurn /\ Stream /\ Told(client \o back, "s")

-----------------------------------------------------------------------------
(* What the kinds of handlers have in common.                              *)
HandlerRecords == [ask : BOOLEAN, bypass : SUBSET {"asked", "named"}, sniff : {"after", "before", "always", "never"},
                   reply : {"now", "late", "none"}, whole : BOOLEAN, other : {"asked", "none"},
                   log : BOOLEAN]
Common(k) ==
    /\ k \in HandlerRecords
    /\ k.ask => k.sniff \in {"after", "never"}
    /\ ~k.whole => k.sniff = "after"

LEMMA HandlerKinds == ASSUME NEW h \in DOMAIN Handling!Handler PROVE Common(Handling!Handler[h])
<1> USE DEF Common, HandlerRecords, Handling!After, Handling!Before
<1>1. /\ Common(Handling!HttpConnect) /\ Common(Handling!Http2) /\ Common(Handling!Relay)
      /\ Common(Handling!RelayForward) /\ Common(Handling!Shadowsocks)
  BY DEF Handling!HttpConnect, Handling!Http2, Handling!Relay, Handling!RelayForward,
     Handling!Shadowsocks
<1>2. /\ Common(Handling!Sshd) /\ Common(Handling!Redirect) /\ Common(Handling!ForwardLocal)
      /\ Common(Handling!ForwardRemote) /\ Common(Handling!Sni) /\ Common(Handling!Unix)
  BY DEF Handling!Sshd, Handling!Redirect, Handling!ForwardLocal, Handling!ForwardRemote,
     Handling!Sni, Handling!Unix
<1> HIDE DEF Common, HandlerRecords, Handling!After, Handling!Before
<1>3. /\ Handling!Socks4 = Handling!HttpConnect /\ Handling!Socks5 = Handling!HttpConnect
      /\ Handling!RelayNoDelay = Handling!HttpConnect
      /\ Handling!UnixForward = Handling!Unix
  BY DEF Handling!Socks4, Handling!Socks5, Handling!HttpConnect, Handling!RelayNoDelay,
     Handling!UnixForward
<1> QED
  BY <1>1, <1>2, <1>3 DEF Handling!Handler

LEMMA HandlerFacts ==
    ASSUME HandlerTypes
    PROVE  /\ kind.ask => kind.sniff \in {"after", "never"}
           /\ ~kind.whole => kind.sniff = "after"
           /\ kind.bypass \subseteq {"asked", "named"}
           /\ kind.ask \in BOOLEAN /\ kind.whole \in BOOLEAN
           /\ opt.sniffing \in BOOLEAN /\ opt.timeout \in BOOLEAN
           /\ talk.proto \in {"http", "h2c", "tls", "raw"}
           /\ Handling!Class \in {"http", "tls", "raw"}
           /\ Handling!Script \in Seq({"c", "s"})
           /\ Handling!Of("c") \subseteq Numbers
           /\ Handling!Of("s") \subseteq Numbers
           /\ Numbers \subseteq Nat
<1>1. PICK c \in HandlerCases :
        kind = Handling!Handler[c.kind] /\ opt = c.opt /\ talk = c.talk
  BY DEF HandlerTypes
<1>2. /\ c.kind \in DOMAIN Handling!Handler
      /\ c.opt \in [sniffing : BOOLEAN, timeout : BOOLEAN, fallback : BOOLEAN]
      /\ c.talk \in [script : Seq({"c", "s"}), proto : {"http", "h2c", "tls", "raw"},
                     half : {"none", "c", "s"}]
  BY TrafficAssumption DEF Handling!HandlerAssumption
<1>3. /\ kind.ask => kind.sniff \in {"after", "never"}
      /\ ~kind.whole => kind.sniff = "after"
      /\ kind.bypass \subseteq {"asked", "named"}
      /\ kind.ask \in BOOLEAN /\ kind.whole \in BOOLEAN
  BY <1>1, <1>2, HandlerKinds DEF Common, HandlerRecords
<1>4. Handling!Script \in Seq({"c", "s"}) /\ Len(Handling!Script) \in Nat
  BY <1>1, <1>2 DEF Handling!Script
<1> QED
  BY <1>1, <1>2, <1>3, <1>4 DEF Numbers, Handling!Of, Handling!Class

-----------------------------------------------------------------------------
(* A message that is said goes to the end of the line.                     *)
LEMMA SayMore ==
    ASSUME NEW who \in {"c", "s"}, NEW q, Told(q, who), InTurn,
           NEW i \in Handling!Of(who) \ sent,
           sent \subseteq Nat, Handling!Of(who) \subseteq Nat,
           \A j \in 1..i - 1 : Handling!Script[j] = who => j \in sent,
           sent' = sent \cup {i}, talk' = talk
    PROVE  /\ Told(Append(q, i), who)'
           /\ InTurn'
<1>1. /\ q \in Seq(Nat) /\ i \in Nat /\ Handling!Script' = Handling!Script
      /\ Handling!Of(who)' = Handling!Of(who) /\ Handling!Script[i] = who
  BY DEF Told, Handling!Script, Handling!Of
<1>2. /\ Append(q, i) \in Seq(Nat) /\ Len(Append(q, i)) = Len(q) + 1
      /\ \A j \in 1..Len(q) : Append(q, i)[j] = q[j]
      /\ Append(q, i)[Len(q) + 1] = i
      /\ DOMAIN q = 1..Len(q) /\ DOMAIN Append(q, i) = 1..Len(q) + 1 /\ Len(q) \in Nat
  BY <1>1
<1>3. \A j \in DOMAIN q : q[j] \in Handling!Of(who) \cap sent
  BY DEF Told, Handling!ToSet
<1>4. \A j \in DOMAIN q : q[j] < i
  <2> SUFFICES ASSUME NEW j \in DOMAIN q, ~(q[j] < i) PROVE FALSE
    OBVIOUS
  <2>1. q[j] \in Nat /\ q[j] # i /\ q[j] \in sent /\ Handling!Script[q[j]] = who
    BY <1>3 DEF Handling!Of
  <2>2. i \in 1..q[j] - 1
    BY <2>1, <1>1 DEF Handling!Of
  <2> QED
    BY <2>1, <2>2, <1>1 DEF InTurn
<1>5. \A j, k \in DOMAIN Append(q, i) : j < k => Append(q, i)[j] < Append(q, i)[k]
  BY <1>2, <1>4 DEF Told
<1>6. Handling!ToSet(Append(q, i)) = Handling!Of(who) \cap (sent \cup {i})
  <2>1. Handling!ToSet(q) = Handling!Of(who) \cap sent
    BY DEF Told
  <2>2. Handling!ToSet(Append(q, i)) = Handling!ToSet(q) \cup {i}
    BY <1>2 DEF Handling!ToSet
  <2> QED
    BY <2>1, <2>2
<1>7. InTurn'
  BY <1>1 DEF InTurn
<1> QED
  BY <1>1, <1>2, <1>5, <1>6, <1>7 DEF Told

(* ... and the other side's line is what it was.                           *)
LEMMA OtherLine ==
    ASSUME NEW who, NEW other, who # other, NEW q, Told(q, other),
           NEW i \in Handling!Of(who), sent' = sent \cup {i}, talk' = talk
    PROVE  Told(q, other)'
BY DEF Told, Handling!Of, Handling!Script

(* What is heard after b goes on where b ends.                             *)
LEMMA HeardMiddle ==
    ASSUME NEW who, NEW b, NEW s, NEW t, b \in Seq(Nat), s \in Seq(Nat), t \in Seq(Nat),
           Told((b \o s) \o t, who), InTurn, Handling!Of(who) \subseteq Nat
    PROVE  Handling!Begins(s, who, Handling!ToSet(b))
<1>1. /\ Len(b) \in Nat /\ Len(s) \in Nat /\ Len(t) \in Nat
      /\ DOMAIN s = 1..Len(s) /\ DOMAIN b = 1..Len(b)
      /\ b \o s \in Seq(Nat) /\ Len(b \o s) = Len(b) + Len(s)
      /\ \A j \in 1..Len(b) + Len(s) : (b \o s)[j] = IF j <= Len(b) THEN b[j] ELSE s[j - Len(b)]
  BY ConcatProperties
<1> DEFINE a == b \o s
           q == a \o t
<1>2. /\ \A j, k \in DOMAIN q : j < k => q[j] < q[k]
      /\ \A j \in DOMAIN q : q[j] \in Handling!Of(who) \cap sent
      /\ \A x \in Handling!Of(who) \cap sent : \E j \in DOMAIN q : q[j] = x
      /\ \A j \in DOMAIN q : q[j] \in Nat
  BY DEF Told, Handling!ToSet
<1>3. /\ a \in Seq(Nat) /\ Len(a) = Len(b) + Len(s)
      /\ \A j \in 1..Len(b) + Len(s) : a[j] = IF j <= Len(b) THEN b[j] ELSE s[j - Len(b)]
  BY <1>1
<1> HIDE DEF a
<1>4. DOMAIN q = 1..Len(a) + Len(t) /\ \A j \in 1..Len(a) : q[j] = a[j]
  <2>1. /\ Len(q) = Len(a) + Len(t) /\ q \in Seq(Nat)
        /\ \A j \in 1..Len(a) + Len(t) : q[j] = IF j <= Len(a) THEN a[j] ELSE t[j - Len(a)]
    <3>1. a \in Seq(Nat) /\ t \in Seq(Nat)
      BY <1>3
    <3> QED
      BY ONLY <3>1, ConcatProperties
  <2> HIDE DEF q
  <2> QED
    BY <2>1, <1>1, <1>3
<1> HIDE DEF q
<1>5. DOMAIN q = 1..(Len(b) + Len(s)) + Len(t)
  BY <1>3, <1>4
<1>6. ASSUME NEW j \in 1..Len(b) PROVE j \in DOMAIN q /\ q[j] = b[j]
  <2>1. j \in 1..Len(b) + Len(s) /\ j <= Len(b) /\ j \in DOMAIN q
    BY <1>1, <1>5
  <2>2. j \in 1..Len(a)
    BY <2>1, <1>3
  <2> QED
    BY ONLY <2>1, <2>2, <1>3, <1>4
<1>7. ASSUME NEW j \in DOMAIN s PROVE Len(b) + j \in DOMAIN q /\ q[Len(b) + j] = s[j]
  <2>1. Len(b) + j \in 1..Len(b) + Len(s) /\ ~(Len(b) + j <= Len(b)) /\ (Len(b) + j) - Len(b) = j
    BY <1>1
  <2>2. Len(b) + j \in DOMAIN q /\ q[Len(b) + j] = a[Len(b) + j]
    BY <2>1, <1>1, <1>3, <1>4, <1>5
  <2> QED
    BY ONLY <2>1, <2>2, <1>3
<1>8. \A j \in DOMAIN s : s[j] \in Handling!Of(who)
  BY <1>2, <1>7
<1>9. ASSUME NEW j \in DOMAIN s, NEW k \in DOMAIN s, j < k PROVE s[j] < s[k]
  <2>1. Len(b) + j < Len(b) + k
    BY <1>1, <1>9
  <2>2. /\ Len(b) + j \in DOMAIN q /\ q[Len(b) + j] = s[j]
        /\ Len(b) + k \in DOMAIN q /\ q[Len(b) + k] = s[k]
    BY ONLY <1>7
  <2> QED
    BY ONLY <2>1, <2>2, <1>2
<1>10. ASSUME NEW k \in DOMAIN s, NEW x \in Handling!Of(who), x < s[k]
       PROVE  x \in Handling!ToSet(s) \cup Handling!ToSet(b)
  <2>1. Len(b) + k \in DOMAIN q /\ q[Len(b) + k] = s[k]
    BY ONLY <1>7
  <2>2. s[k] \in sent /\ s[k] \in Nat /\ x \in 1..s[k] - 1
        /\ Handling!Script[x] = Handling!Script[s[k]]
    BY <1>2, <2>1, <1>8, <1>10 DEF Handling!Of
  <2>3. x \in sent
    BY <2>2 DEF InTurn
  <2>4. PICK j \in DOMAIN q : q[j] = x
    BY <2>3, <1>2
  <2>5. j < Len(b) + k
    <3>1. Len(b) + k < j => q[Len(b) + k] < q[j]
      BY ONLY <1>2, <2>1, <2>4
    <3>2. j \in Nat /\ k \in Nat /\ Len(b) + k \in Nat /\ x \in Nat
      BY <1>1, <1>5, <2>2
    <3> QED
      BY <3>1, <3>2, <1>10, <2>1, <2>2, <2>4
  <2>6. CASE j <= Len(b)
    <3>1. j \in DOMAIN b
      BY <2>4, <2>6, <1>1, <1>5
    <3>2. b[j] = x
      BY <3>1, <2>4, <1>1, <1>6
    <3> QED
      BY <3>1, <3>2 DEF Handling!ToSet
  <2>7. CASE j > Len(b)
    <3>1. PICK i \in Nat : i = j - Len(b)
      BY <2>4, <2>7, <1>1, <1>5
    <3>2. i \in DOMAIN s /\ Len(b) + i = j
      BY <3>1, <2>4, <2>5, <2>7, <1>1, <1>5
    <3>3. s[i] = x
      BY <3>2, <2>4, <1>7
    <3> QED
      BY <3>2, <3>3 DEF Handling!ToSet
  <2>8. j \in Nat
    BY <2>4, <1>1, <1>5
  <2> QED
    BY <2>6, <2>7, <2>8, <1>1
<1>11. Handling!ToSet(s) \subseteq Handling!Of(who)
  BY <1>8 DEF Handling!ToSet
<1>12. ASSUME NEW y \in Handling!ToSet(s)
       PROVE  {j \in Handling!Of(who) : j < y} \subseteq Handling!ToSet(s) \cup Handling!ToSet(b)
  <2>1. PICK k \in DOMAIN s : y = s[k]
    BY DEF Handling!ToSet
  <2> QED
    BY <2>1, <1>10
<1> QED
  BY <1>9, <1>11, <1>12 DEF Handling!Begins

(* What is heard first is the beginning.                                   *)
LEMMA HeardFirst ==
    ASSUME NEW who, NEW s, NEW t, s \in Seq(Nat), t \in Seq(Nat), Told(s \o t, who), InTurn,
           Handling!Of(who) \subseteq Nat, NEW but
    PROVE  Handling!Begins(s, who, but)
<1>1. <<>> \in Seq(Nat) /\ <<>> \o s = s /\ DOMAIN <<>> = {}
  BY ConcatEmptySeq
<1>2. Handling!Begins(s, who, Handling!ToSet(<<>>))
  <2>1. Told((<<>> \o s) \o t, who)
    BY <1>1
  <2> QED
    BY ONLY <1>1, <2>1, HeardMiddle, InTurn, s \in Seq(Nat), t \in Seq(Nat),
       Handling!Of(who) \subseteq Nat
<1>3. Handling!ToSet(<<>>) = {}
  BY <1>1 DEF Handling!ToSet
<1> QED
  BY <1>2, <1>3 DEF Handling!Begins

(* The first of t goes to the end of s.                                    *)
LEMMA HandOver ==
    ASSUME NEW S, NEW s \in Seq(S), NEW t \in Seq(S), t # <<>>
    PROVE  /\ Append(s, Head(t)) \o Tail(t) = s \o t
           /\ Append(s, Head(t)) \in Seq(S) /\ Tail(t) \in Seq(S) /\ Head(t) \in S
<1>1. /\ Head(t) \in S /\ Tail(t) \in Seq(S) /\ Append(s, Head(t)) \in Seq(S)
      /\ Len(t) \in Nat \ {0} /\ Len(s) \in Nat /\ Len(Tail(t)) = Len(t) - 1
      /\ Head(t) = t[1] /\ \A j \in 1..Len(t) - 1 : Tail(t)[j] = t[j + 1]
  OBVIOUS
<1>2. /\ Append(s, Head(t)) \o Tail(t) \in Seq(S) /\ s \o t \in Seq(S)
      /\ Len(Append(s, Head(t)) \o Tail(t)) = Len(s) + 1 + (Len(t) - 1)
      /\ Len(s \o t) = Len(s) + Len(t)
  BY <1>1
<1>3. \A j \in 1..Len(s) + Len(t) : (Append(s, Head(t)) \o Tail(t))[j] = (s \o t)[j]
  <2> SUFFICES ASSUME NEW j \in 1..Len(s) + Len(t)
               PROVE  (Append(s, Head(t)) \o Tail(t))[j] = (s \o t)[j]
    OBVIOUS
  <2> DEFINE a == Append(s, Head(t))
             b == Tail(t)
  <2>1. a \in Seq(S) /\ b \in Seq(S) /\ Len(a) = Len(s) + 1 /\ Len(b) = Len(t) - 1
        /\ \A i \in 1..Len(s) : a[i] = s[i]
    BY <1>1
  <2>2. a[Len(s) + 1] = t[1] /\ \A i \in 1..Len(t) - 1 : b[i] = t[i + 1]
    BY <1>1
  <2> HIDE DEF a, b
  <2>3. (a \o b)[j] = IF j <= Len(s) + 1 THEN a[j] ELSE b[j - (Len(s) + 1)]
    BY <2>1, <1>1
  <2>4. (s \o t)[j] = IF j <= Len(s) THEN s[j] ELSE t[j - Len(s)]
    BY <1>1
  <2>41. j <= Len(s) \/ j = Len(s) + 1 \/ j > Len(s) + 1
    BY <1>1
  <2>5. (a \o b)[j] = (s \o t)[j]
    <3>1. CASE j <= Len(s)
      BY <3>1, <2>1, <2>3, <2>4, <1>1
    <3>2. CASE j = Len(s) + 1
      BY <3>2, <2>2, <2>3, <2>4, <1>1
    <3>3. CASE j > Len(s) + 1
      <4>1. j - (Len(s) + 1) \in 1..Len(t) - 1 /\ (j - (Len(s) + 1)) + 1 = j - Len(s)
        BY <3>3, <1>1
      <4> QED
        BY <3>3, <4>1, <2>2, <2>3, <2>4, <1>1
    <3> QED
      BY ONLY <3>1, <3>2, <3>3, <2>41, Zenon
  <2> QED
    BY <2>5 DEF a, b
<1>4. Append(s, Head(t)) \o Tail(t) = s \o t
  BY <1>1, <1>2, <1>3, SeqEqual
<1> QED
  BY <1>1, <1>4

LEMMA Split ==
    ASSUME NEW S, NEW s \in Seq(S), NEW t \in Seq(S), NEW k \in 1..Len(t)
    PROVE  /\ SubSeq(t, 1, k) \in Seq(S) /\ SubSeq(t, k + 1, Len(t)) \in Seq(S)
           /\ (s \o SubSeq(t, 1, k)) \o SubSeq(t, k + 1, Len(t)) = s \o t
<1> DEFINE a == SubSeq(t, 1, k)
           b == SubSeq(t, k + 1, Len(t))
<1>1. /\ Len(t) \in Nat /\ k \in Nat /\ Len(s) \in Nat
      /\ a \in Seq(S) /\ Len(a) = k /\ \A j \in 1..k : a[j] = t[j]
  <2>1. /\ Len(t) \in Nat /\ k \in Nat /\ Len(s) \in Nat
    OBVIOUS
  <2>2. \A i \in 1..k : t[i] \in S
    BY <2>1
  <2> QED
    BY <2>1, <2>2, SubSeqProperties
<1>2. /\ b \in Seq(S) /\ Len(b) = Len(t) - k /\ \A j \in 1..Len(t) - k : b[j] = t[k + j]
  <2>1. \A i \in k + 1..Len(t) : t[i] \in S
    BY <1>1
  <2>2. k + 1 \in 1..Len(t) + 1 /\ Len(t) \in k + 1 - 1..Len(t)
    BY <1>1
  <2> QED
    BY <1>1, <2>1, <2>2, SubSeqProperties
<1> HIDE DEF a, b
<1>3. /\ s \o a \in Seq(S) /\ Len(s \o a) = Len(s) + k
      /\ \A j \in 1..Len(s) + k : (s \o a)[j] = IF j <= Len(s) THEN s[j] ELSE a[j - Len(s)]
  BY <1>1
<1>31. /\ Len((s \o a) \o b) = Len(s \o a) + Len(b)
       /\ (s \o a) \o b \in Seq(S)
       /\ \A j \in 1..Len(s \o a) + Len(b) : ((s \o a) \o b)[j] =
             IF j <= Len(s \o a) THEN (s \o a)[j] ELSE b[j - Len(s \o a)]
  BY <1>2, <1>3, ConcatProperties
<1>32. Len(s) + k + (Len(t) - k) = Len(s) + Len(t)
  BY <1>1
<1>4. /\ (s \o a) \o b \in Seq(S) /\ Len((s \o a) \o b) = Len(s) + Len(t)
      /\ \A j \in 1..Len(s) + Len(t) :
            ((s \o a) \o b)[j] = IF j <= Len(s) + k THEN (s \o a)[j] ELSE b[j - (Len(s) + k)]
  BY ONLY <1>2, <1>3, <1>31, <1>32
<1>5. /\ s \o t \in Seq(S) /\ Len(s \o t) = Len(s) + Len(t)
      /\ \A j \in 1..Len(s) + Len(t) : (s \o t)[j] = IF j <= Len(s) THEN s[j] ELSE t[j - Len(s)]
  BY <1>1
<1>6. ASSUME NEW j \in 1..Len(s) + Len(t) PROVE ((s \o a) \o b)[j] = (s \o t)[j]
  <2>1. CASE j <= Len(s)
    BY <2>1, <1>1, <1>3, <1>4, <1>5
  <2>2. CASE j > Len(s) /\ j <= Len(s) + k
    <3>1. j - Len(s) \in 1..k /\ j \in 1..Len(s) + k
      BY <2>2, <1>1
    <3> QED
      BY <2>2, <3>1, <1>1, <1>3, <1>4, <1>5
  <2>3. CASE j > Len(s) + k
    <3>1. /\ j - (Len(s) + k) \in 1..Len(t) - k /\ ~(j <= Len(s))
          /\ k + (j - (Len(s) + k)) = j - Len(s)
      BY <2>3, <1>1
    <3>2. ((s \o a) \o b)[j] = t[k + (j - (Len(s) + k))]
      <4>1. ((s \o a) \o b)[j] = b[j - (Len(s) + k)]
        BY ONLY <2>3, <1>1, <1>4, <1>6
      <4> QED
        BY ONLY <4>1, <3>1, <1>2
    <3>3. (s \o t)[j] = t[j - Len(s)]
      BY <3>1, <1>5
    <3> QED
      BY <3>1, <3>2, <3>3
  <2>4. j <= Len(s) \/ (j > Len(s) /\ j <= Len(s) + k) \/ j > Len(s) + k
    BY <1>1
  <2> QED
    BY ONLY <2>1, <2>2, <2>3, <2>4, Zenon
<1>7. (s \o a) \o b = s \o t
  BY <1>4, <1>5, <1>6, SeqEqual
<1> QED
  BY <1>1, <1>2, <1>7 DEF a, b

LEMMA SeqLast ==
    \A S : \A s, t \in Seq(S), e \in S : Append(s \o t, e) = s \o Append(t, e)
<1> SUFFICES ASSUME NEW S, NEW s \in Seq(S), NEW t \in Seq(S), NEW e \in S
             PROVE  Append(s \o t, e) = s \o Append(t, e)
  OBVIOUS
<1>1. /\ s \o t \in Seq(S) /\ Len(s \o t) = Len(s) + Len(t) /\ Len(s) \in Nat /\ Len(t) \in Nat
      /\ \A j \in 1..Len(s) + Len(t) : (s \o t)[j] = IF j <= Len(s) THEN s[j] ELSE t[j - Len(s)]
  BY ConcatProperties
<1>2. /\ Append(t, e) \in Seq(S) /\ Len(Append(t, e)) = Len(t) + 1
      /\ \A j \in 1..Len(t) : Append(t, e)[j] = t[j]
      /\ Append(t, e)[Len(t) + 1] = e
  OBVIOUS
<1> DEFINE b == Append(t, e)
           a == s \o t
<1>3. /\ s \o b \in Seq(S) /\ Len(s \o b) = Len(s) + (Len(t) + 1)
      /\ \A j \in 1..Len(s) + (Len(t) + 1) : (s \o b)[j] = IF j <= Len(s) THEN s[j] ELSE b[j - Len(s)]
  BY <1>2, ConcatProperties
<1>4. /\ Append(a, e) \in Seq(S) /\ Len(Append(a, e)) = Len(a) + 1
      /\ \A j \in 1..Len(a) : Append(a, e)[j] = a[j]
      /\ Append(a, e)[Len(a) + 1] = e
  BY <1>1
<1>5. Len(a) + 1 = Len(s) + (Len(t) + 1)
  BY <1>1
<1> HIDE DEF a, b
<1>6. ASSUME NEW j \in 1..Len(a) + 1 PROVE Append(a, e)[j] = (s \o b)[j]
  <2>1. CASE j = Len(a) + 1
    <3>1. (s \o b)[j] = b[Len(t) + 1]
      <4>1. j - Len(s) = Len(t) + 1 /\ ~(j <= Len(s)) /\ j \in 1..Len(s) + (Len(t) + 1)
        BY <2>1, <1>1 DEF a
      <4> QED
        BY <4>1, <1>3
    <3> QED
      BY <2>1, <3>1, <1>2, <1>4 DEF b
  <2>2. CASE j \in 1..Len(a)
    <3>1. j \in 1..Len(s) + Len(t) /\ j \in 1..Len(s) + (Len(t) + 1)
      BY <2>2, <1>1 DEF a
    <3>2. ~(j <= Len(s)) => j - Len(s) \in 1..Len(t)
      BY <3>1, <1>1
    <3>3. Append(a, e)[j] = IF j <= Len(s) THEN s[j] ELSE t[j - Len(s)]
      BY <2>2, <3>1, <1>1, <1>4 DEF a
    <3>4. (s \o b)[j] = IF j <= Len(s) THEN s[j] ELSE t[j - Len(s)]
      BY <3>1, <3>2, <1>2, <1>3 DEF b
    <3> QED
      BY <3>3, <3>4
  <2>3. Len(a) \in Nat
    BY <1>1 DEF a
  <2>4. j = Len(a) + 1 \/ j \in 1..Len(a)
    BY <2>3
  <2> QED
    BY <2>1, <2>2, <2>4
<1> QED
  BY <1>3, <1>4, <1>5, <1>6, SeqEqual DEF a, b

LEMMA WiderSeq ==
    ASSUME NEW S, NEW T, S \subseteq T PROVE Seq(S) \subseteq Seq(T)
<1> SUFFICES ASSUME NEW q \in Seq(S) PROVE q \in Seq(T)
  OBVIOUS
<1>1. Len(q) \in Nat /\ q = [i \in 1..Len(q) |-> q[i]] /\ \A i \in 1..Len(q) : q[i] \in T
  OBVIOUS
<1>2. [i \in 1..Len(q) |-> q[i]] \in Seq(T)
  BY <1>1
<1> QED
  BY <1>1, <1>2

(* The same of a name for "\o", which the provers see through less.        *)
Cat(s, t) == s \o t

LEMMA CatLast ==
    ASSUME NEW S, NEW s \in Seq(S), NEW t \in Seq(S), NEW e \in S
    PROVE  Cat(s, Append(t, e)) = Append(Cat(s, t), e)
BY SeqLast DEF Cat

LEMMA CatCat ==
    ASSUME NEW S, NEW a \in Seq(S), NEW b \in Seq(S), NEW c \in Seq(S)
    PROVE  /\ Cat(Cat(a, b), c) = Cat(a, Cat(b, c))
           /\ Cat(b, c) \in Seq(S) /\ Cat(a, b) \in Seq(S)
BY ConcatAssociative, ConcatProperties DEF Cat

-----------------------------------------------------------------------------
LEMMA HandlerInit == Handling!Init => HandlerInv
<1> SUFFICES ASSUME Handling!Init PROVE HandlerInv
  OBVIOUS
<1>1. HandlerTypes
  <2>1. PICK c \in HandlerCases :
          kind = Handling!Handler[c.kind] /\ opt = c.opt /\ talk = c.talk
    BY DEF Handling!Init
  <2>2. Handling!Handler[c.kind].reply = kind.reply
    BY <2>1
  <2> QED
    BY <2>1, <2>2 DEF Handling!Init, HandlerTypes
<1>2. Looked /\ Passed /\ InTurn
  BY DEF Handling!Init, Looked, Passed, InTurn, Handling!BypassedIsNotDialled
<1>3. <<>> \o <<>> = <<>> /\ <<>> \in Seq(Nat) /\ DOMAIN <<>> = {}
  OBVIOUS
<1>4. \A who : Told(<<>>, who)
  BY <1>3 DEF Told, Handling!Init, Handling!ToSet
<1>5. Stream /\ Told(client \o back, "s")
  BY <1>3, <1>4 DEF Stream, Handling!Init
<1> QED
  BY <1>1, <1>2, <1>5 DEF HandlerInv

(* The case does not change.                                               *)
LEMMA GivenRests ==
    ASSUME UNCHANGED Handling!given
    PROVE  /\ UNCHANGED <<kind, opt, talk, way>>
           /\ Handling!Script' = Handling!Script /\ Numbers' = Numbers
           /\ Handling!Of("c")' = Handling!Of("c") /\ Handling!Of("s")' = Handling!Of("s")
BY DEF Handling!given, Handling!Script, Handling!Of, Numbers

(* A step that moves no message.                                           *)
LEMMA NothingMoves ==
    ASSUME Told(client \o back, "s"), InTurn,
           UNCHANGED <<talk, sent, client, back>>
    PROVE  Told(client \o back, "s")' /\ InTurn'
BY DEF Told, InTurn, Handling!Of, Handling!Script

LEMMA StreamRests ==
    ASSUME Stream, UNCHANGED <<kind, talk, sent, server, br, in>>,
           \/ UNCHANGED <<pc, rest, proto>>
           \/ pc \notin Over \cup {"sniff", "copy"} /\ UNCHANGED <<rest, proto>>
           \/ pc' \in {"closed", "left"} /\ UNCHANGED <<rest, proto>>
           \/ br = <<>> /\ pc \notin Over \cup {"copy"}
           \/ pc = "sniff" /\ rest' = "br"
    PROVE  Stream'
<1>1. \A q : Told(q, "c") => Told(q, "c")'
  BY DEF Told, Handling!Of, Handling!Script
<1>2. Told((server \o br) \o in, "c") => Told((server \o br) \o in, "c")'
  BY <1>1
<1>3. Told((br \o server) \o in, "c") => Told((br \o server) \o in, "c")'
  BY <1>1
<1> QED
  BY <1>2, <1>3 DEF Stream, LeftBehind, Over

LEMMA HandlerClientSends ==
    ASSUME HandlerInv, Handling!ClientSends PROVE HandlerInv'
<1> USE DEF HandlerInv
<1>1. PICK i \in Handling!Of("c") \ sent :
        /\ Handling!Heard("c", i) /\ sent' = sent \cup {i} /\ in' = Append(in, i)
        /\ UNCHANGED <<Handling!given, pc, proto, dest, client, server, br, rest, back, replied,
                       open>>
  BY DEF Handling!ClientSends
<1>2. HandlerTypes'
  <2>1. i \in Numbers
    BY DEF Handling!Of, Numbers
  <2>2. in' \in Seq(Numbers) /\ Numbers' = Numbers
    <3>1. in \in Seq(Numbers) /\ Numbers' = Numbers /\ in' = Append(in, i)
      BY <1>1, GivenRests DEF HandlerTypes
    <3> QED
      BY ONLY <3>1, <2>1
  <2> QED
    BY <1>1, <2>1, <2>2 DEF HandlerTypes, Handling!given
<1>3. Looked' /\ Passed'
  BY <1>1 DEF Looked, Passed, Handling!given, Handling!BypassedIsNotDialled,
     Handling!Judged
<1>5. sent \subseteq Nat /\ Handling!Of("c") \subseteq Nat /\ i \in Nat
  BY <1>1, HandlerFacts DEF HandlerTypes
<1>6. \A j \in 1..i - 1 : Handling!Script[j] = "c" => j \in sent
  BY <1>1 DEF Handling!Heard
<1>7. talk' = talk
  BY <1>1 DEF Handling!given
<1>8. ASSUME NEW q, Told(q, "c") PROVE Told(Append(q, i), "c")' /\ InTurn'
  BY ONLY <1>1, <1>5, <1>6, <1>7, <1>8, SayMore, HandlerInv DEF HandlerInv
<1>9. InTurn'
  BY <1>8 DEF Stream, LeftBehind
<1>10. /\ Append((server \o br) \o in, i) = ((server \o br) \o in)'
       /\ Append((br \o server) \o in, i) = ((br \o server) \o in)'
  <2>1. server \in Seq(Numbers) /\ br \in Seq(Numbers) /\ in \in Seq(Numbers)
    BY DEF HandlerTypes
  <2>2. i \in Numbers
    BY DEF Handling!Of, Numbers
  <2>3. Cat(server, br) \in Seq(Numbers) /\ Cat(br, server) \in Seq(Numbers)
    BY ONLY <2>1, CatCat
  <2>4. ASSUME NEW q \in Seq(Numbers) PROVE Cat(q, Append(in, i)) = Append(Cat(q, in), i)
    BY ONLY <2>1, <2>2, <2>4, CatLast
  <2>5. /\ Cat(Cat(server, br), Append(in, i)) = Append(Cat(Cat(server, br), in), i)
        /\ Cat(Cat(br, server), Append(in, i)) = Append(Cat(Cat(br, server), in), i)
    BY ONLY <2>3, <2>4
  <2> QED
    BY <2>5, <1>1 DEF Cat
<1>12. Stream'
  <2>1. CASE Told((server \o br) \o in, "c") /\ (pc \in Over \cup {"sniff"} \/ rest = "br" \/ br = <<>>)
    <3>1. PICK q : q = (server \o br) \o in
      OBVIOUS
    <3>2. Told(Append(q, i), "c")'
      BY <2>1, <3>1, <1>8
    <3>3. Append(q, i) = ((server \o br) \o in)'
      BY <3>1, <1>10
    <3> QED
      BY <3>2, <3>3, <2>1, <1>1 DEF Stream
  <2>2. CASE LeftBehind
    <3>1. PICK q : q = (br \o server) \o in
      OBVIOUS
    <3>2. Told(Append(q, i), "c")'
      BY <2>2, <3>1, <1>8 DEF LeftBehind
    <3>3. Append(q, i) = ((br \o server) \o in)'
      BY <3>1, <1>10
    <3> QED
      BY <3>2, <3>3, <2>2, <1>1 DEF Stream, LeftBehind, Handling!given
  <2> QED
    BY <2>1, <2>2 DEF Stream
<1>13. Told(client \o back, "s")'
  <2>1. PICK r : r = client \o back
    OBVIOUS
  <2>2. Told(r, "s")'
    BY <2>1, <1>1, <1>7, OtherLine
  <2> QED
    BY <2>1, <2>2, <1>1
<1> QED
  BY <1>2, <1>3, <1>9, <1>12, <1>13

LEMMA HandlerServerSends ==
    ASSUME HandlerInv, Handling!ServerSends PROVE HandlerInv'
<1> USE DEF HandlerInv
<1>1. PICK i \in Handling!Of("s") \ sent :
        /\ Handling!Heard("s", i) /\ sent' = sent \cup {i} /\ back' = Append(back, i)
        /\ UNCHANGED <<Handling!given, pc, proto, dest, client, server, in, br, rest, replied,
                       open>>
  BY DEF Handling!ServerSends
<1>2. i \in Numbers
  BY DEF Handling!Of, Numbers
<1>3. HandlerTypes'
  <2>1. back' \in Seq(Numbers) /\ Numbers' = Numbers
    <3>1. back \in Seq(Numbers) /\ Numbers' = Numbers /\ back' = Append(back, i)
      BY <1>1, GivenRests DEF HandlerTypes
    <3> QED
      BY ONLY <3>1, <1>2
  <2> QED
    BY <1>1, <1>2, <2>1 DEF HandlerTypes, Handling!given
<1>4. Looked' /\ Passed'
  BY <1>1 DEF Looked, Passed, Handling!given, Handling!BypassedIsNotDialled,
     Handling!Judged
<1>5. sent \subseteq Nat /\ Handling!Of("s") \subseteq Nat /\ i \in Nat
  BY <1>1, HandlerFacts DEF HandlerTypes
<1>6. \A j \in 1..i - 1 : Handling!Script[j] = "s" => j \in sent
  BY <1>1 DEF Handling!Heard
<1>7. talk' = talk
  BY <1>1 DEF Handling!given
<1>8. PICK q : q = client \o back
  OBVIOUS
<1>9. Told(q, "s")
  BY <1>8
<1>10. Told(Append(q, i), "s")' /\ InTurn'
  BY ONLY <1>1, <1>5, <1>6, <1>7, <1>9, SayMore, HandlerInv DEF HandlerInv
<1>11. Append(q, i) = (client \o back)'
  <2>1. client \in Seq(Numbers) /\ back \in Seq(Numbers)
    BY DEF HandlerTypes
  <2>3. Cat(client, Append(back, i)) = Append(Cat(client, back), i)
    BY ONLY <1>2, <2>1, CatLast
  <2> QED
    BY <2>3, <1>1, <1>8 DEF Cat
<1>12. Stream'
  <2>1. ASSUME NEW r PROVE Told(r, "c") => Told(r, "c")'
    BY <1>1, <1>7, OtherLine
  <2>2. /\ Told((server \o br) \o in, "c") => Told((server \o br) \o in, "c")'
        /\ Told((br \o server) \o in, "c") => Told((br \o server) \o in, "c")'
    BY <2>1, <1>1
  <2> QED
    BY <2>2, <1>1 DEF Stream, LeftBehind, Handling!given
<1> QED
  BY <1>3, <1>4, <1>10, <1>11, <1>12

LEMMA HandlerLeaves ==
    ASSUME HandlerInv, NEW from \in {"limit", "request", "auth", "bypass", "dial", "reply", "sniff",
                                     "dial named", "refuse", "copy", "leave"},
           pc = from, Handling!Leave(from)
    PROVE  HandlerInv'
<1> USE DEF HandlerInv
<1>1. /\ pc' \in {"closed", "left"} /\ open' = {}
      /\ UNCHANGED <<Handling!given, proto, dest, client, server, sent, in, br, rest, back, replied>>
  BY DEF Handling!Leave, Handling!Step
<1>2. HandlerTypes' /\ Looked' /\ Passed'
  BY <1>1, GivenRests DEF HandlerTypes, Looked, Passed, Handling!given, Over,
     Handling!BypassedIsNotDialled, Handling!Judged
<1>3. InTurn' /\ Told(client \o back, "s")'
  BY <1>1, NothingMoves DEF Handling!given
<1>4. Stream'
  BY <1>1, StreamRests DEF Handling!given
<1> QED
  BY <1>2, <1>3, <1>4

(* Steps that move nothing.                                                *)
LEMMA HandlerWalks ==
    ASSUME HandlerInv,
           \/ Handling!LimitRate \/ Handling!Request \/ Handling!Authenticate
           \/ Handling!Bypass \/ Handling!Dial \/ Handling!Reply
    PROVE  HandlerInv'
<1> USE DEF HandlerInv
<1>1. CASE \E from \in {"limit", "auth", "bypass", "dial"} : Handling!Leave(from)
  BY <1>1, HandlerLeaves DEF Handling!Leave, Handling!Step
<1>2. CASE ~(\E from \in {"limit", "auth", "bypass", "dial"} : Handling!Leave(from))
  <2> USE <1>2
  <2> USE DEF Handling!LimitRate, Handling!Request, Handling!Authenticate, Handling!Bypass,
             Handling!Dial, Handling!Reply, Handling!Step, Handling!Same, Handling!Quiet,
             Handling!given
  <2>1. UNCHANGED <<Handling!given, client, server, sent, back, proto, in, br, rest>>
    OBVIOUS
  <2>2. UNCHANGED <<kind, opt, talk, way>>
    BY <2>1
  <2>3. pc' # pc /\ pc \in {"limit", "request", "auth", "bypass", "dial", "reply"}
    OBVIOUS
  <2>4. HandlerTypes'
    BY <2>1, <2>2, GivenRests DEF HandlerTypes
  <2>5. Looked'
    BY <2>1, <2>2, <2>3, HandlerFacts DEF Looked, HandlerTypes, Over
  <2>6. Passed'
    BY <2>1, <2>2, <2>3, HandlerFacts, ZenonT(40)
       DEF Passed, HandlerTypes, Over, Handling!BypassedIsNotDialled, Handling!Judged
  <2>7. Stream'
    BY <2>1, <2>2, <2>3, StreamRests DEF Over
  <2>8. InTurn' /\ Told(client \o back, "s")'
    BY <2>1, <2>2, NothingMoves
  <2> QED
    BY <2>4, <2>5, <2>6, <2>7, <2>8
<1> QED
  BY <1>1, <1>2

(* The sniffer dials, refuses or fails.                                    *)
LEMMA HandlerConnects ==
    ASSUME HandlerInv, NEW to \in {"asked", "named"}, Handling!Connect(to),
           to \in way => to = "named" /\ ~Handling!Judged
    PROVE  HandlerInv'
<1> USE DEF HandlerInv
<1>1. /\ pc = "dial named" /\ pc' = "copy" /\ dest' = to /\ open' = open \cup {"s"}
      /\ UNCHANGED <<Handling!given, client, server, sent, back, proto, in, br, rest, replied>>
  BY DEF Handling!Connect, Handling!Step, Handling!Quiet, Handling!given
<1>2. UNCHANGED <<kind, opt, talk, way>>
  BY <1>1, GivenRests
<1>3. HandlerTypes' /\ Looked'
  BY <1>1, <1>2, GivenRests DEF HandlerTypes, Looked, Over
<1>4. Passed'
  <2>1. "rate" \notin way /\ ~kind.ask
    BY <1>1 DEF Passed, Over
  <2> QED
    BY <2>1, <1>1, <1>2 DEF Passed, Handling!BypassedIsNotDialled, Handling!Judged
<1>5. Stream' /\ InTurn' /\ Told(client \o back, "s")'
  BY <1>1, <1>2, StreamRests, NothingMoves DEF Over
<1> QED
  BY <1>3, <1>4, <1>5

LEMMA HandlerDialNamed ==
    ASSUME HandlerInv, Handling!DialNamed \/ Handling!Unlogged PROVE HandlerInv'
<1>1. CASE Handling!Leave("dial named")
  BY <1>1, HandlerLeaves DEF Handling!Leave, Handling!Step
<1>2. CASE (Handling!Judged => "named" \notin way) /\ Handling!Connect("named")
  BY <1>2, HandlerConnects
<1>3. CASE way \cap {"asked", "noroute"} = {} /\ Handling!Connect("asked")
  BY <1>3, HandlerConnects
<1>4. CASE /\ pc = "dial named" /\ pc' \in {"refuse", "crashed"} /\ open' \in {open, {}}
           /\ UNCHANGED <<Handling!given, proto, dest, client, server, sent, in, br, rest, back,
                          replied>>
  <2>1. UNCHANGED <<kind, opt, talk, way>>
    BY <1>4, GivenRests
  <2>2. HandlerTypes' /\ Looked' /\ Passed'
    BY <1>4, <2>1, GivenRests DEF HandlerInv, HandlerTypes, Looked, Passed, Over,
       Handling!BypassedIsNotDialled, Handling!Judged
  <2>3. Stream' /\ InTurn' /\ Told(client \o back, "s")'
    BY <1>4, <2>1, StreamRests, NothingMoves DEF HandlerInv, Over
  <2> QED
    BY <2>2, <2>3 DEF HandlerInv
<1>5. Handling!Refuse => <1>1!1 \/ <1>4!1
  BY DEF Handling!Refuse, Handling!Step, Handling!Same, Handling!Quiet, Handling!given
<1> QED
  BY <1>1, <1>2, <1>3, <1>4, <1>5
     DEF Handling!DialNamed, Handling!Unlogged, Handling!Step, Handling!given

LEMMA HandlerFound ==
    ASSUME HandlerInv, pc = "sniff", NEW p \in {"http", "tls", "raw"}, Handling!Found(p)
    PROVE  HandlerInv'
<1> USE DEF HandlerInv
<1>1. /\ proto' = p
      /\ rest' = IF kind.whole \/ p # "raw" THEN "br" ELSE "in"
      /\ pc' = IF kind.sniff = "after" THEN "copy" ELSE IF p # "raw" THEN "dial named"
               ELSE IF kind.other = "none" THEN "leave" ELSE "bypass"
      /\ UNCHANGED <<Handling!given, dest, client, server, sent, in, br, back, replied, open>>
  BY DEF Handling!Found
<1>2. UNCHANGED <<kind, opt, talk, way>>
  BY <1>1, GivenRests
<1>3. HandlerTypes'
  BY <1>1, <1>2, GivenRests DEF HandlerTypes
<1>4. Looked'
  BY <1>1, <1>2 DEF Looked, Over
<1>5. Passed'
  <2>1. /\ "rate" \notin way /\ kind.ask => "auth" \notin way
        /\ Handling!BypassedIsNotDialled
    BY DEF Passed, Over
  <2>2. kind.ask => kind.sniff \in {"after", "never"}
    BY HandlerFacts
  <2>3. kind.ask /\ kind.sniff # "after" => FALSE
    BY <2>2 DEF Looked
  <2> QED
    BY <1>1, <1>2, <2>1, <2>2, <2>3 DEF Passed, Over, Handling!BypassedIsNotDialled,
       Handling!Judged
<1>6. Stream'
  <2>1. CASE rest' = "br"
    BY <1>1, <1>2, <2>1, StreamRests
  <2>2. CASE rest' = "in"
    <3>1. ~kind.whole /\ p = "raw" /\ pc' = "copy"
      BY <1>1, <2>2, HandlerFacts
    <3>2. server = <<>> /\ Told((server \o br) \o in, "c")
      BY DEF Looked, Over, Stream, LeftBehind
    <3>3. br \o server = server \o br
      BY <3>2, ConcatEmptySeq DEF HandlerTypes
    <3>4. Told((br \o server) \o in, "c")'
      <4>1. Told((br \o server) \o in, "c")
        BY <3>2, <3>3
      <4> QED
        BY <4>1, <1>1, <1>2, GivenRests DEF Told
    <3> QED
      BY <1>1, <1>2, <2>2, <3>1, <3>4 DEF Stream, LeftBehind
  <2> QED
    BY <1>1, <2>1, <2>2
<1>7. InTurn' /\ Told(client \o back, "s")'
  BY <1>1, <1>2, NothingMoves
<1> QED
  BY <1>3, <1>4, <1>5, <1>6, <1>7

LEMMA HandlerSniff ==
    ASSUME HandlerInv, Handling!Sniff PROVE HandlerInv'
<1>1. HandlerTypes /\ pc = "sniff"
  BY DEF HandlerInv, Handling!Sniff
<1>2. PICK p \in {"http", "tls", "raw"} : Handling!Found(p)
  BY <1>1, HandlerFacts DEF Handling!Sniff
<1> QED
  BY <1>1, <1>2, HandlerFound

(* Steps that move messages.                                               *)
LEMMA HandlerMoves ==
    ASSUME HandlerInv, Handling!Fill \/ Handling!CopyUp
    PROVE  HandlerInv'
<1> USE DEF HandlerInv
<1>1. server \in Seq(Numbers) /\ br \in Seq(Numbers) /\ in \in Seq(Numbers)
  BY DEF HandlerTypes
<1>2. /\ pc \in {"sniff", "copy"}
      /\ UNCHANGED <<Handling!given, pc, proto, dest, client, sent, rest, back, replied, open>>
      /\ pc = "sniff" => UNCHANGED server
  BY DEF Handling!Fill, Handling!CopyUp
<1>3. UNCHANGED <<kind, opt, talk, way>> /\ Numbers' = Numbers
  BY <1>2, GivenRests
<1>4. pc = "sniff" => ~LeftBehind
  BY DEF LeftBehind
<1>5. CASE LeftBehind
  <2>1. /\ pc = "copy" /\ rest = "in" /\ in # <<>>
        /\ server' = Append(server, Head(in)) /\ in' = Tail(in) /\ UNCHANGED br
    BY <1>2, <1>4, <1>5 DEF Handling!Fill, Handling!CopyUp, LeftBehind
  <2>2. /\ Append(server, Head(in)) \o Tail(in) = server \o in
        /\ server' \in Seq(Numbers) /\ in' \in Seq(Numbers)
    BY <1>1, <2>1, HandOver
  <2>3. (br \o server') \o in' = (br \o server) \o in
    <3>1. Cat(Cat(br, server'), in') = Cat(br, Cat(server', in'))
      BY ONLY <1>1, <2>2, CatCat
    <3>2. Cat(Cat(br, server), in) = Cat(br, Cat(server, in))
      BY ONLY <1>1, CatCat
    <3>3. Cat(server', in') = Cat(server, in)
      BY <2>1, <2>2 DEF Cat
    <3>4. Cat(Cat(br, server'), in') = Cat(Cat(br, server), in)
      BY ONLY <3>1, <3>2, <3>3
    <3> QED
      BY <3>4 DEF Cat
  <2>4. HandlerTypes'
    BY <1>1, <1>2, <1>3, <2>1, <2>2 DEF HandlerTypes
  <2>5. Looked' /\ Passed'
    BY <1>2, <1>3, <2>1 DEF Looked, Passed, Over, Handling!BypassedIsNotDialled, Handling!Judged
  <2>6. Stream'
    <3>1. Told((br \o server) \o in, "c")
      BY <1>5 DEF LeftBehind
    <3>2. Told((br \o server) \o in, "c")'
      BY <1>2, <1>3, <2>1, <2>3, <3>1, GivenRests DEF Told
    <3> QED
      BY <1>2, <1>3, <1>5, <3>2 DEF Stream, LeftBehind
  <2>7. InTurn' /\ Told(client \o back, "s")'
    BY <1>2, <1>3, NothingMoves
  <2> QED
    BY <2>4, <2>5, <2>6, <2>7
<1>6. CASE ~LeftBehind
  <2>1. Told((server \o br) \o in, "c") /\ (pc = "sniff" \/ rest = "br" \/ br = <<>>)
    BY <1>2, <1>6 DEF Stream, Over
  <2>2. /\ server' \in Seq(Numbers) /\ br' \in Seq(Numbers) /\ in' \in Seq(Numbers)
        /\ (server' \o br') \o in' = (server \o br) \o in
        /\ pc # "sniff" /\ rest = "in" /\ br = <<>> => br' = <<>>
    <3>1. CASE Handling!Fill
      <4>1. PICK k \in 1..Len(in) :
              br' = br \o SubSeq(in, 1, k) /\ in' = SubSeq(in, k + 1, Len(in)) /\ server' = server
        BY <3>1 DEF Handling!Fill
      <4>2. /\ SubSeq(in, 1, k) \in Seq(Numbers) /\ SubSeq(in, k + 1, Len(in)) \in Seq(Numbers)
            /\ ((server \o br) \o SubSeq(in, 1, k)) \o SubSeq(in, k + 1, Len(in))
                  = (server \o br) \o in
        <5>1. PICK q \in Seq(Numbers) : q = Cat(server, br)
          BY ONLY <1>1, CatCat
        <5>2. /\ SubSeq(in, 1, k) \in Seq(Numbers) /\ SubSeq(in, k + 1, Len(in)) \in Seq(Numbers)
              /\ (q \o SubSeq(in, 1, k)) \o SubSeq(in, k + 1, Len(in)) = q \o in
          <6>1. PICK u \in Seq(Numbers) : u = in
            BY ONLY <1>1
          <6>2. k \in 1..Len(u)
            BY <6>1
          <6> QED
            BY ONLY <6>1, <6>2, Split
        <5> QED
          BY <5>1, <5>2 DEF Cat
      <4>3. (server \o br) \o SubSeq(in, 1, k) = server \o (br \o SubSeq(in, 1, k))
            /\ br \o SubSeq(in, 1, k) \in Seq(Numbers)
        <5>1. PICK t : t = SubSeq(in, 1, k)
          OBVIOUS
        <5>2. t \in Seq(Numbers)
          BY <4>2, <5>1
        <5>3. Cat(Cat(server, br), t) = Cat(server, Cat(br, t)) /\ Cat(br, t) \in Seq(Numbers)
          BY ONLY <1>1, <5>2, CatCat
        <5> QED
          BY <5>1, <5>3 DEF Cat
      <4>4. pc = "sniff"
        BY <3>1 DEF Handling!Fill
      <4> QED
        BY <1>1, <4>1, <4>2, <4>3, <4>4
    <3>2. CASE /\ rest = "br" /\ br # <<>> /\ server' = Append(server, Head(br)) /\ br' = Tail(br)
               /\ UNCHANGED in
      <4>1. /\ Append(server, Head(br)) \o Tail(br) = server \o br
            /\ Append(server, Head(br)) \in Seq(Numbers) /\ Tail(br) \in Seq(Numbers)
        BY <1>1, <3>2, HandOver
      <4> QED
        BY <1>1, <3>2, <4>1
    <3>3. CASE /\ br = <<>> /\ in # <<>> /\ server' = Append(server, Head(in)) /\ in' = Tail(in)
               /\ UNCHANGED br
      <4>1. /\ Append(server, Head(in)) \o Tail(in) = server \o in
            /\ Append(server, Head(in)) \in Seq(Numbers) /\ Tail(in) \in Seq(Numbers)
        BY <1>1, <3>3, HandOver
      <4>2. server \o <<>> = server /\ server' \o <<>> = server'
        BY <1>1, <3>3, <4>1, ConcatEmptySeq
      <4> QED
        BY <1>1, <3>3, <4>1, <4>2
    <3>4. Handling!CopyUp => rest = "br" \/ br = <<>>
      BY <2>1 DEF Handling!CopyUp
    <3> QED
      BY <3>1, <3>2, <3>3, <3>4 DEF Handling!CopyUp
  <2>3. HandlerTypes' /\ Looked' /\ Passed'
    <3>1. HandlerTypes'
      BY <1>2, <1>3, <2>2 DEF HandlerTypes
    <3>2. Looked' /\ Passed'
      BY <1>2, <1>3 DEF Looked, Passed, Over, Handling!BypassedIsNotDialled, Handling!Judged
    <3> QED
      BY <3>1, <3>2
  <2>4. Stream'
    <3>1. Told((server \o br) \o in, "c")'
      BY <1>2, <1>3, <2>1, <2>2, GivenRests DEF Told
    <3> QED
      BY <1>2, <2>1, <2>2, <3>1 DEF Stream, HandlerTypes
  <2>5. InTurn' /\ Told(client \o back, "s")'
    BY <1>2, <1>3, NothingMoves
  <2> QED
    BY <2>3, <2>4, <2>5
<1> QED
  BY <1>5, <1>6

LEMMA HandlerCopyDown ==
    ASSUME HandlerInv, Handling!CopyDown PROVE HandlerInv'
<1> USE DEF HandlerInv
<1>1. /\ pc = "copy" /\ back # <<>>
      /\ client' = Append(client, Head(back)) /\ back' = Tail(back) /\ replied' = TRUE
      /\ UNCHANGED <<Handling!given, pc, proto, dest, server, sent, in, br, rest, open>>
  BY DEF Handling!CopyDown
<1>2. UNCHANGED <<kind, opt, talk, way>> /\ Numbers' = Numbers
  BY <1>1, GivenRests
<1>3. client \in Seq(Numbers) /\ back \in Seq(Numbers)
  BY DEF HandlerTypes
<1>4. client' \in Seq(Numbers) /\ back' \in Seq(Numbers) /\ client' \o back' = client \o back
  BY <1>1, <1>3, HandOver
<1>5. HandlerTypes'
  BY <1>1, <1>2, <1>4 DEF HandlerTypes
<1>6. Looked' /\ Passed'
  BY <1>1, <1>2 DEF Looked, Passed, Handling!BypassedIsNotDialled, Handling!Judged
<1>7. Stream'
  BY <1>1, <1>2, StreamRests
<1>8. InTurn' /\ Told(client \o back, "s")'
  BY <1>1, <1>2, <1>4 DEF InTurn, Told, Handling!Of, Handling!Script
<1> QED
  BY <1>5, <1>6, <1>7, <1>8

LEMMA HandlerNext == HandlerInv /\ [Handling!Next]_handlerVars => HandlerInv'
<1> SUFFICES ASSUME HandlerInv, [Handling!Next]_handlerVars PROVE HandlerInv'
  OBVIOUS
<1>1. CASE Handling!ClientSends \/ Handling!ServerSends
  BY <1>1, HandlerClientSends, HandlerServerSends
<1>2. CASE \/ Handling!LimitRate \/ Handling!Request \/ Handling!Authenticate
           \/ Handling!Bypass \/ Handling!Dial \/ Handling!Reply
  BY <1>2, HandlerWalks
<1>3. CASE Handling!Fill \/ Handling!CopyUp
  BY <1>3, HandlerMoves
<1>4. CASE Handling!Sniff \/ Handling!DialNamed \/ Handling!Unlogged \/ Handling!CopyDown
  BY <1>4, HandlerSniff, HandlerDialNamed, HandlerCopyDown
<1>5. CASE Handling!EndCopy \/ Handling!Return \/ Handling!ReadFails \/ Handling!RefuseEnds
  <2>1. PICK from \in {"request", "sniff", "refuse", "copy", "leave"} :
          pc = from /\ Handling!Leave(from)
    BY <1>5 DEF Handling!EndCopy, Handling!Return, Handling!ReadFails, Handling!RefuseEnds,
       Handling!Leave, Handling!Step
  <2> QED
    BY <2>1, HandlerLeaves
<1>6. CASE Handling!ClientLeaves
  <2>1. /\ open' = open \ {"c"}
        /\ UNCHANGED <<Handling!given, pc, proto, dest, client, server, sent, in, br, rest,
                       back, replied>>
    BY <1>6 DEF Handling!ClientLeaves
  <2>2. UNCHANGED <<kind, opt, talk, way>> /\ Numbers' = Numbers
    BY <2>1, GivenRests
  <2>3. HandlerTypes' /\ Looked' /\ Passed'
    <3>1. HandlerTypes'
      BY <2>1, <2>2 DEF HandlerInv, HandlerTypes
    <3>2. Looked' /\ Passed'
      BY <2>1, <2>2 DEF HandlerInv, Looked, Passed, Handling!BypassedIsNotDialled, Handling!Judged
    <3> QED
      BY <3>1, <3>2
  <2>4. Stream' /\ InTurn' /\ Told(client \o back, "s")'
    BY <2>1, <2>2, StreamRests, NothingMoves DEF HandlerInv
  <2> QED
    BY <2>3, <2>4 DEF HandlerInv
<1>7. CASE UNCHANGED handlerVars
  <2>1. UNCHANGED <<Handling!given, pc, proto, dest, client, server, sent, in, br, rest,
                    back, replied, open>>
    BY <1>7 DEF handlerVars, Handling!given
  <2>2. UNCHANGED <<kind, opt, talk, way>> /\ Numbers' = Numbers
    BY <2>1, GivenRests
  <2>3. HandlerTypes' /\ Looked' /\ Passed'
    <3>1. HandlerTypes'
      BY <2>1, <2>2 DEF HandlerInv, HandlerTypes
    <3>2. Looked' /\ Passed'
      BY <2>1, <2>2 DEF HandlerInv, Looked, Passed, Handling!BypassedIsNotDialled, Handling!Judged
    <3> QED
      BY <3>1, <3>2
  <2>4. Stream' /\ InTurn' /\ Told(client \o back, "s")'
    BY <2>1, <2>2, StreamRests, NothingMoves DEF HandlerInv
  <2> QED
    BY <2>3, <2>4 DEF HandlerInv
<1> QED
  BY <1>1, <1>2, <1>3, <1>4, <1>5, <1>6, <1>7 DEF Handling!Next, Handling!Handle

LEMMA HandlerInvIsRight ==
    HandlerInv => Handling!TypeOK /\ Handling!TalkIsKept /\ Handling!BypassedIsNotDialled
<1> SUFFICES ASSUME HandlerInv
             PROVE  Handling!TypeOK /\ Handling!TalkIsKept /\ Handling!BypassedIsNotDialled
  OBVIOUS
<1>1. HandlerTypes /\ InTurn /\ Stream /\ Told(client \o back, "s") /\ Passed
  BY DEF HandlerInv
<1>2. Handling!TypeOK
  <2>1. /\ client \in Seq(Numbers) /\ server \in Seq(Numbers)
        /\ in \in Seq(Numbers) /\ br \in Seq(Numbers) /\ back \in Seq(Numbers)
        /\ sent \subseteq Numbers
    BY <1>1 DEF HandlerTypes
  <2> QED
    BY <1>1, <2>1 DEF HandlerTypes, Handling!TypeOK, Numbers
<1>3. /\ client \in Seq(Nat) /\ back \in Seq(Nat) /\ server \in Seq(Nat)
      /\ br \in Seq(Nat) /\ in \in Seq(Nat)
      /\ br \o in \in Seq(Nat) /\ (server \o br) \o in = server \o (br \o in)
      /\ Handling!Of("c") \subseteq Nat /\ Handling!Of("s") \subseteq Nat
  <2>1. /\ client \in Seq(Numbers) /\ server \in Seq(Numbers) /\ back \in Seq(Numbers)
        /\ in \in Seq(Numbers) /\ br \in Seq(Numbers) /\ Numbers \subseteq Nat
    BY <1>1, HandlerFacts DEF HandlerTypes
  <2>2. /\ client \in Seq(Nat) /\ server \in Seq(Nat) /\ back \in Seq(Nat)
        /\ in \in Seq(Nat) /\ br \in Seq(Nat)
    <3>1. Seq(Numbers) \subseteq Seq(Nat)
      BY <2>1, WiderSeq
    <3> QED
      BY <2>1, <3>1
  <2>3. br \o in \in Seq(Nat) /\ (server \o br) \o in = server \o (br \o in)
    <3>1. Cat(br, in) \in Seq(Nat) /\ Cat(Cat(server, br), in) = Cat(server, Cat(br, in))
      BY ONLY <2>2, CatCat
    <3> QED
      BY <3>1 DEF Cat
  <2> QED
    BY <1>1, <2>2, <2>3, HandlerFacts
<1>4. Handling!Begins(client, "s", {})
  BY <1>1, <1>3, HeardFirst
<1>5. Handling!Begins(server, "c", Handling!Forgotten)
  <2>1. CASE Told((server \o br) \o in, "c")
    BY <1>1, <1>3, <2>1, HeardFirst
  <2>2. CASE LeftBehind
    <3>1. Told((br \o server) \o in, "c")
      BY <2>2 DEF LeftBehind
    <3>2. br \in Seq(Nat) /\ in \in Seq(Nat) /\ server \in Seq(Nat)
      BY <1>3
    <3>3. Handling!Begins(server, "c", Handling!ToSet(br))
      BY ONLY <3>1, <3>2, <1>1, <1>3, HeardMiddle
    <3> QED
      BY <2>2, <3>3 DEF LeftBehind, Handling!Forgotten
  <2> QED
    BY <1>1, <2>1, <2>2 DEF Stream
<1> QED
  BY <1>1, <1>2, <1>4, <1>5 DEF Passed, Handling!TalkIsKept

-----------------------------------------------------------------------------
(* Relay.  While the client's connection is open, at most one request has  *)
(* not been answered, and it is in one place: with the client's bytes, with*)
(* the handler that is about to send it, with the server, or its answer is *)
(* on the line from the server (Waiting); it may be lost, when the handler *)
(* drops its reader.  Before the answer the line has interim responses     *)
(* only, behind it the frames of a server in a hurry.  After a switch of   *)
(* protocols the line goes on with the frame that follows the last one that*)
(* the client received or was dropped; so it does when the switch itself   *)
(* was dropped, and its client waits.                                      *)
RelayItems == [what : {"interim", "final", "last", "switch", "error", "frame"}, id : Nat]

KindsIn(q, W) == {i \in DOMAIN q : q[i].what \in W}
Matched(q, W, g) == \A i \in KindsIn(q, W) : q[i].id = g + Relaying!Place(KindsIn(q, W), i)
HowMany(q, W) == Cardinality(KindsIn(q, W))

Calm(l) == \A i \in 1..Len(l) : l[i].what = "interim"
Due(l, id, n) == \E j \in 1..Len(l) :
    /\ \A i \in 1..j - 1 : l[i].what = "interim"
    /\ l[j].what \in {"final", "last", "switch"} /\ l[j].id = id
    /\ l[j].what # "switch" => Len(l) = j
    /\ l[j].what = "switch" => /\ n = Len(l) - j
                               /\ \A i \in j + 1..Len(l) : l[i] = Relaying!Item("frame", i - j)
Following(l, g, n) ==
    n = g + Len(l) /\ \A i \in 1..Len(l) : l[i] = Relaying!Item("frame", g + i)

Line == Cat(buf, down)
Given == HowMany(got, Relaying!Answer)
Framed == HowMany(got, {"frame"})
SwitchedIn(q) == \E i \in 1..Len(q) : q[i].what = "switch"

RelayTypes ==
    /\ case \in RelayCases
    /\ relayPc \in {"read", "send", "await", "tunnel", "closed"}
    /\ cur \in Relaying!Requests \cup {Relaying!NoRequest} /\ asked \in 0..MaxRequests
    /\ requests \in Seq(Relaying!Requests) /\ todo \in Seq(Relaying!Requests)
    /\ frames \in -1..MaxFrames
    /\ relayPc = "send" => cur \in Relaying!Requests
    /\ here \in BOOLEAN /\ link \in BOOLEAN /\ lost \in 0..MaxFrames
    /\ down \in Seq(RelayItems) /\ buf \in Seq(RelayItems) /\ got \in Seq(RelayItems)

Unread == requests # <<>> /\ Len(requests) = 1 /\ requests[1].id = asked
Begun == todo # <<>> /\ Len(todo) = 1 /\ todo[1].id = asked
Waiting ==
    \/ Unread /\ relayPc # "send" /\ todo = <<>> /\ Calm(Line)
    \/ requests = <<>> /\ relayPc = "send" /\ cur.id = asked /\ todo = <<>> /\ Calm(Line)
    \/ requests = <<>> /\ relayPc # "send" /\ Begun /\ Calm(Line)
    \/ /\ requests = <<>> /\ relayPc # "send" /\ todo = <<>>
       /\ Calm(Line) \/ Due(Line, asked, frames)
Live ==
    \/ /\ SwitchedIn(got) /\ relayPc = "tunnel" /\ requests = <<>> /\ todo = <<>>
       /\ asked = Given /\ Following(Line, lost + Framed, frames)
    \/ /\ ~SwitchedIn(got) /\ Framed = 0 /\ lost = 0
       /\ asked = Given /\ requests = <<>> /\ todo = <<>> /\ relayPc # "send" /\ Calm(Line)
    \/ ~SwitchedIn(got) /\ Framed = 0 /\ lost = 0 /\ asked = Given + 1 /\ Waiting
    \/ /\ ~SwitchedIn(got) /\ relayPc \in {"read", "tunnel"} /\ requests = <<>> /\ todo = <<>>
       /\ asked = Given + 1 /\ Following(Line, lost + Framed, frames)

RelayInv ==
    /\ RelayTypes
    /\ Matched(got, Relaying!Answer, 0) /\ Matched(got, {"frame"}, lost)
    /\ Relaying!mode.keeps => lost = 0
    /\ here => Live

-----------------------------------------------------------------------------
LEMMA SameCardinality == \A S : Relaying!Cardinality(S) = Cardinality(S)
BY DEF Relaying!Cardinality, Cardinality

LEMMA CatFacts ==
    ASSUME NEW S, NEW l \in Seq(S), NEW m \in Seq(S)
    PROVE  /\ Len(l) \in Nat /\ Len(m) \in Nat
           /\ Cat(l, m) \in Seq(S) /\ Len(Cat(l, m)) = Len(l) + Len(m)
           /\ \A i \in 1..Len(l) + Len(m) :
                 Cat(l, m)[i] = IF i <= Len(l) THEN l[i] ELSE m[i - Len(l)]
BY ConcatProperties DEF Cat

LEMMA OnlyOne ==
    ASSUME NEW S, NEW q \in Seq(S), Len(q) = 1
    PROVE  Tail(q) = <<>> /\ Head(q) = q[1] /\ Head(q) \in S
<1>1. Tail(q) \in Seq(S) /\ Len(Tail(q)) = 0 /\ Head(q) = q[1] /\ Head(q) \in S
  OBVIOUS
<1> QED
  BY <1>1, EmptySeq

LEMMA RelayKinds ==
    ASSUME NEW d \in DOMAIN Relaying!Relay PROVE Relaying!Relay[d].keeps \in BOOLEAN
<1>1. /\ Relaying!Proxy.keeps \in BOOLEAN /\ Relaying!EntryPoint.keeps \in BOOLEAN
      /\ Relaying!Sniffer.keeps \in BOOLEAN /\ Relaying!Forwarder.keeps \in BOOLEAN
      /\ Relaying!Unix.keeps \in BOOLEAN
  BY DEF Relaying!Proxy, Relaying!EntryPoint, Relaying!Sniffer, Relaying!Forwarder, Relaying!Unix
<1>2. d \in {"http", "entrypoint", "sniffer", "forwarder", "unix"}
  BY DEF Relaying!Relay
<1>3. /\ Relaying!Relay["http"] = Relaying!Proxy 
      /\ Relaying!Relay["entrypoint"] = Relaying!EntryPoint
      /\ Relaying!Relay["sniffer"] = Relaying!Sniffer
      /\ Relaying!Relay["forwarder"] = Relaying!Forwarder
      /\ Relaying!Relay["unix"] = Relaying!Unix
  BY DEF Relaying!Relay
<1> QED
  BY <1>1, <1>2, <1>3, Zenon

LEMMA RelayFacts ==
    ASSUME RelayTypes
    PROVE  /\ Line \in Seq(RelayItems) /\ Len(Line) = Len(buf) + Len(down)
           /\ Relaying!mode.keeps \in BOOLEAN
           /\ MaxRequests \in Nat /\ MaxFrames \in Nat
           /\ Relaying!Switched <=> SwitchedIn(got)
<1>1. /\ case \in [mode : DOMAIN Relaying!Relay, interim : BOOLEAN, early : BOOLEAN]
      /\ MaxRequests \in Nat /\ MaxFrames \in Nat
  BY TrafficAssumption DEF RelayTypes, Relaying!RelayAssumption
<1>2. Line \in Seq(RelayItems) /\ Len(Line) = Len(buf) + Len(down)
  BY ConcatProperties DEF RelayTypes, Line, Cat
<1>3. Relaying!mode.keeps \in BOOLEAN
  BY <1>1, RelayKinds DEF Relaying!mode
<1>4. Relaying!Switched <=> SwitchedIn(got)
  BY DEF Relaying!Switched, SwitchedIn, Relaying!ToSet, RelayTypes
<1> QED
  BY <1>1, <1>2, <1>3, <1>4

(* What the client receives next.                                          *)
LEMMA OneMore ==
    ASSUME NEW q \in Seq(RelayItems), NEW e \in RelayItems, NEW W, NEW g \in Nat
    PROVE  /\ HowMany(q, W) \in Nat
           /\ e.what \in W => HowMany(Append(q, e), W) = HowMany(q, W) + 1
           /\ e.what \notin W => HowMany(Append(q, e), W) = HowMany(q, W)
           /\ (e.what \in W => e.id = g + (HowMany(q, W) + 1)) /\ Matched(q, W, g) =>
                 Matched(Append(q, e), W, g)
           /\ SwitchedIn(Append(q, e)) <=> SwitchedIn(q) \/ e.what = "switch"
<1> DEFINE n == Len(q)
           K == KindsIn(q, W)
           L == KindsIn(Append(q, e), W)
<1>1. /\ n \in Nat /\ DOMAIN q = 1..n /\ DOMAIN Append(q, e) = 1..n + 1
      /\ Len(Append(q, e)) = n + 1
      /\ \A i \in 1..n : Append(q, e)[i] = q[i]
      /\ Append(q, e)[n + 1] = e
  OBVIOUS
<1>2. IsFiniteSet(K) /\ K \subseteq 1..n
  <2>1. K \subseteq 1..n /\ IsFiniteSet(1..n)
    BY <1>1, FS_Interval DEF KindsIn
  <2> QED
    BY <2>1, FS_Subset
<1>3. n + 1 \notin K
  BY <1>1, <1>2
<1>4. L = IF e.what \in W THEN K \cup {n + 1} ELSE K
  BY <1>1 DEF KindsIn
<1>5. Cardinality(K) \in Nat /\ Cardinality(K \cup {n + 1}) = Cardinality(K) + 1
  BY <1>2, <1>3, FS_CardinalityType, FS_AddElement
<1>6. ASSUME Matched(q, W, g), e.what \in W => e.id = g + (Cardinality(K) + 1)
      PROVE  Matched(Append(q, e), W, g)
  <2> SUFFICES ASSUME NEW i \in L PROVE Append(q, e)[i].id = g + Relaying!Place(L, i)
    BY DEF Matched
  <2>1. CASE i \in K
    <3>1. {j \in L : j <= i} = {j \in K : j <= i}
      BY <1>1, <1>2, <1>4, <2>1
    <3>2. Append(q, e)[i] = q[i] /\ q[i].id = g + Relaying!Place(K, i)
      BY <1>1, <1>2, <1>6, <2>1 DEF Matched
    <3> QED
      BY <3>1, <3>2 DEF Relaying!Place
  <2>2. CASE i = n + 1 /\ e.what \in W
    <3>1. {j \in L : j <= i} = L
      BY <1>1, <1>2, <1>4, <2>2
    <3>2. Relaying!Place(L, i) = Cardinality(K) + 1
      <4>1. L = K \cup {n + 1}
        BY <1>4, <2>2
      <4> HIDE DEF K, L
      <4>2. Relaying!Place(L, i) = Cardinality(L)
        BY <3>1, SameCardinality DEF Relaying!Place
      <4> QED
        BY <1>5, <4>1, <4>2
    <3>3. Append(q, e)[i] = e /\ e.id = g + (Cardinality(K) + 1)
      BY <1>1, <1>6, <2>2
    <3> QED
      BY <3>2, <3>3
  <2> QED
    BY <1>4, <2>1, <2>2
<1>7. SwitchedIn(Append(q, e)) <=> SwitchedIn(q) \/ e.what = "switch"
  BY <1>1 DEF SwitchedIn
<1> QED
  BY <1>4, <1>5, <1>6, <1>7 DEF HowMany

(* What is taken from the line.                                            *)
LEMMA LessLine ==
    ASSUME NEW l \in Seq(RelayItems), NEW m \in Seq(RelayItems), NEW k \in 0..Len(l),
           Len(m) = Len(l) - k, \A i \in 1..Len(m) : m[i] = l[i + k],
           NEW n, NEW g \in Nat
    PROVE  /\ Calm(l) => Calm(m)
           /\ k = 1 /\ Following(l, g, n) =>
                 l[1] = Relaying!Item("frame", g + 1) /\ Following(m, g + 1, n)
<1>1. Len(l) \in Nat /\ Len(m) \in Nat /\ k \in Nat /\ \A i \in 1..Len(m) : i + k \in 1..Len(l)
  OBVIOUS
<1>2. Calm(l) => Calm(m)
  BY <1>1 DEF Calm
<1>3. k = 1 /\ Following(l, g, n) =>
        l[1] = Relaying!Item("frame", g + 1) /\ Following(m, g + 1, n)
  <2> SUFFICES ASSUME k = 1, Following(l, g, n)
               PROVE  l[1] = Relaying!Item("frame", g + 1) /\ Following(m, g + 1, n)
    OBVIOUS
  <2>1. \A i \in 1..Len(m) : g + (i + k) = (g + 1) + i
    BY <1>1
  <2>2. \A i \in 1..Len(m) : m[i] = Relaying!Item("frame", (g + 1) + i)
    BY <1>1, <2>1 DEF Following
  <2> QED
    BY <1>1, <2>2 DEF Following
<1> QED
  BY <1>2, <1>3

LEMMA NoFrames ==
    ASSUME NEW c, \A i \in DOMAIN c : c[i].what # "frame"
    PROVE  HowMany(c, {"frame"}) = 0
<1>1. KindsIn(c, {"frame"}) = {}
  BY DEF KindsIn
<1> QED
  BY <1>1, FS_EmptySet DEF HowMany

LEMMA CountFrames ==
    ASSUME NEW c \in Seq(RelayItems), NEW j \in 1..Len(c) + 1,
           \A i \in 1..Len(c) : c[i].what = "frame" <=> i >= j
    PROVE  HowMany(c, {"frame"}) = Len(c) - j + 1
<1>1. Len(c) \in Nat /\ DOMAIN c = 1..Len(c)
  OBVIOUS
<1>2. KindsIn(c, {"frame"}) = j..Len(c)
  BY <1>1 DEF KindsIn
<1>3. Cardinality(j..Len(c)) = IF j > Len(c) THEN 0 ELSE Len(c) - j + 1
  <2>1. j \in Int /\ Len(c) \in Int
    BY <1>1
  <2> QED
    BY ONLY <2>1, FS_Interval
<1> QED
  BY <1>1, <1>2, <1>3 DEF HowMany

(* c: what is dropped after the head.                                      *)
LEMMA LessDue ==
    ASSUME NEW l \in Seq(RelayItems), NEW m \in Seq(RelayItems), NEW c \in Seq(RelayItems),
           Len(l) = (Len(c) + 1) + Len(m), \A i \in 1..Len(m) : m[i] = l[i + (Len(c) + 1)],
           \A i \in 1..Len(c) : c[i] = l[i + 1],
           NEW id, NEW n, Due(l, id, n)
    PROVE  \/ /\ l[1].what = "interim" /\ (Calm(m) \/ Due(m, id, n))
              /\ HowMany(c, {"frame"}) = 0
           \/ /\ l[1].what \in {"final", "last"} /\ l[1].id = id /\ Calm(m)
              /\ HowMany(c, {"frame"}) = 0
           \/ /\ l[1].what = "switch" /\ l[1].id = id
              /\ Following(m, HowMany(c, {"frame"}), n)
           \/ /\ l[1].what = "interim" /\ Len(c) # 0
              /\ Following(m, HowMany(c, {"frame"}), n)
<1>0. PICK k \in 1..Len(l) :
        /\ k = Len(c) + 1 /\ Len(m) = Len(l) - k /\ Len(c) = k - 1
        /\ \A i \in 1..Len(m) : m[i] = l[i + k]
  <2>1. /\ Len(l) \in Nat /\ Len(m) \in Nat /\ Len(c) \in Nat /\ Len(c) + 1 \in 1..Len(l)
        /\ Len(m) = Len(l) - (Len(c) + 1) /\ Len(c) = (Len(c) + 1) - 1
    OBVIOUS
  <2> QED
    BY <2>1
<1>1. /\ Len(l) \in Nat /\ Len(m) \in Nat /\ k \in Nat /\ Len(c) \in Nat
      /\ \A i \in 1..Len(m) : i + k \in 1..Len(l)
      /\ \A i \in 1..Len(c) : i + 1 \in 1..Len(l) /\ i + 1 <= k
      /\ DOMAIN c = 1..Len(c)
  BY <1>0
<1>2. PICK j \in 1..Len(l) :
        /\ \A i \in 1..j - 1 : l[i].what = "interim"
        /\ l[j].what \in {"final", "last", "switch"} /\ l[j].id = id
        /\ l[j].what # "switch" => Len(l) = j
        /\ l[j].what = "switch" => /\ n = Len(l) - j
                                   /\ \A i \in j + 1..Len(l) : l[i] = Relaying!Item("frame", i - j)
  BY DEF Due
<1>3. CASE k < j
  <2>1. l[1].what = "interim"
    BY <1>0, <1>1, <1>2, <1>3
  <2>2. j - k \in 1..Len(m) /\ (j - k) + k = j /\ Len(l) - j = Len(m) - (j - k)
    BY <1>0, <1>1, <1>3
  <2>3. \A i \in 1..(j - k) - 1 : m[i].what = "interim"
    BY <1>0, <1>1, <1>2, <1>3
  <2>4. m[j - k] = l[j]
    BY <1>0, <2>2
  <2>5. Len(l) = j => Len(m) = j - k
    BY <1>0, <1>1, <2>2
  <2>6. ASSUME l[j].what = "switch", NEW i \in (j - k) + 1..Len(m)
        PROVE  m[i] = Relaying!Item("frame", i - (j - k))
    <3>1. i + k \in j + 1..Len(l) /\ (i + k) - j = i - (j - k) /\ i \in 1..Len(m)
      BY <1>0, <1>1, <1>3
    <3> QED
      BY <1>0, <1>2, <2>6, <3>1
  <2>7. Due(m, id, n)
    BY <1>2, <2>2, <2>3, <2>4, <2>5, <2>6 DEF Due
  <2>8. \A i \in DOMAIN c : c[i].what = "interim"
    <3> SUFFICES ASSUME NEW i \in 1..Len(c) PROVE c[i].what = "interim"
      BY <1>0, <1>1
    <3>1. i + 1 \in 1..j - 1
      BY <1>0, <1>1, <1>3
    <3> QED
      BY <1>2, <3>1
  <2>9. HowMany(c, {"frame"}) = 0
    BY <2>8, NoFrames
  <2> QED
    BY <2>1, <2>7, <2>9
<1>4. CASE k >= j /\ l[j].what = "switch"
  <2>1. ASSUME NEW i \in 1..Len(c) PROVE c[i].what = "frame" <=> i >= j
    <3>1. CASE i + 1 > j
      <4>1. i + 1 \in j + 1..Len(l) /\ i >= j
        BY <1>0, <1>1, <3>1
      <4>2. c[i] = Relaying!Item("frame", (i + 1) - j)
        BY <1>2, <1>4, <4>1
      <4>3. c[i].what = "frame"
        BY <4>2 DEF Relaying!Item
      <4> QED
        BY <4>1, <4>3
    <3>2. CASE i + 1 = j
      BY <1>0, <1>1, <1>4, <3>2
    <3>3. CASE i + 1 < j
      <4>1. i + 1 \in 1..j - 1 /\ ~(i >= j)
        BY <1>0, <1>1, <3>3
      <4> QED
        BY <1>2, <4>1
    <3> QED
      BY <1>0, <1>1, <3>1, <3>2, <3>3
  <2>2. j \in 1..Len(c) + 1
    BY <1>0, <1>1, <1>4
  <2>3. HowMany(c, {"frame"}) = Len(c) - j + 1
    BY ONLY <2>1, <2>2, CountFrames, c \in Seq(RelayItems)
  <2>4. HowMany(c, {"frame"}) = k - j
    BY <1>0, <1>1, <2>3
  <2>5. n = (k - j) + Len(m)
    BY <1>0, <1>1, <1>2, <1>4
  <2>6. \A i \in 1..Len(m) : m[i] = Relaying!Item("frame", (k - j) + i)
    <3> SUFFICES ASSUME NEW i \in 1..Len(m) PROVE m[i] = Relaying!Item("frame", (k - j) + i)
      OBVIOUS
    <3>1. i + k \in j + 1..Len(l) /\ (i + k) - j = (k - j) + i
      BY <1>0, <1>1, <1>4
    <3> QED
      BY <1>0, <1>2, <1>4, <3>1
  <2>7. Following(m, HowMany(c, {"frame"}), n)
    BY <2>4, <2>5, <2>6 DEF Following
  <2>8. CASE j = 1
    BY <1>2, <1>4, <2>7, <2>8
  <2>9. CASE j # 1
    <3>1. 1 \in 1..j - 1 /\ k # 1
      BY <1>4, <2>9
    <3> QED
      BY <1>0, <1>1, <1>2, <2>7, <3>1
  <2> QED
    BY <2>8, <2>9
<1>5. CASE k >= j /\ l[j].what # "switch"
  <2>1. Len(l) = j /\ k = j /\ Len(m) = 0
    BY <1>0, <1>1, <1>2, <1>5
  <2>2. ASSUME NEW i \in DOMAIN c PROVE c[i].what # "frame"
    <3>1. i \in 1..Len(c) /\ (i + 1 \in 1..j - 1 \/ i + 1 = j)
      BY <1>0, <1>1, <2>1
    <3> QED
      BY <1>2, <3>1
  <2>3. HowMany(c, {"frame"}) = 0 /\ Calm(m)
    BY <2>1, <2>2, NoFrames DEF Calm
  <2>4. CASE j = 1
    BY <1>2, <1>5, <2>3, <2>4
  <2>5. CASE j # 1
    <3>1. 1 \in 1..j - 1
      BY <2>5
    <3> QED
      BY <1>2, <2>3, <3>1
  <2> QED
    BY <2>4, <2>5
<1> QED
  BY <1>0, <1>1, <1>3, <1>4, <1>5

(* What is put on the line.                                                *)
LEMMA MoreLine ==
    ASSUME NEW l \in Seq(RelayItems), NEW m \in Seq(RelayItems),
           NEW n \in Int, NEW id
    PROVE  LET q == Cat(l, m) IN
           /\ Calm(l) /\ Calm(m) => Calm(q)
           /\ /\ Calm(l) /\ Len(m) = 1
              /\ m[1].what \in {"final", "last"} /\ m[1].id = id
              => Due(q, id, n)
           /\ /\ Calm(l) /\ Len(m) = n + 1 /\ n \in Nat
              /\ m[1].what = "switch" /\ m[1].id = id
              /\ \A i \in 2..Len(m) : m[i] = Relaying!Item("frame", i - 1)
              => Due(q, id, n)
<1> DEFINE q == Cat(l, m)
<1>1. /\ Len(l) \in Nat /\ Len(m) \in Nat /\ q \in Seq(RelayItems) /\ Len(q) = Len(l) + Len(m)
      /\ \A i \in 1..Len(l) + Len(m) : q[i] = IF i <= Len(l) THEN l[i] ELSE m[i - Len(l)]
  BY ConcatProperties DEF Cat
<1> HIDE DEF q
<1>2. Calm(l) /\ Calm(m) => Calm(q)
  BY <1>1 DEF Calm
<1> DEFINE j == Len(l) + 1
<1>3. ASSUME Len(m) \in Nat \ {0}
      PROVE  j \in 1..Len(q) /\ q[j] = m[1]
  <2>1. j \in 1..Len(l) + Len(m) /\ ~(j <= Len(l)) /\ j - Len(l) = 1
    BY <1>1, <1>3
  <2> QED
    BY <1>1, <2>1
<1>4. Calm(l) /\ Len(m) # 0 => \A i \in 1..j - 1 : q[i].what = "interim"
  BY <1>1 DEF Calm
<1>5. /\ Calm(l) /\ Len(m) = 1
      /\ m[1].what \in {"final", "last"} /\ m[1].id = id
      => Due(q, id, n)
  BY <1>1, <1>3, <1>4 DEF Due
<1>6. ASSUME /\ Calm(l) /\ Len(m) = n + 1 /\ n \in Nat
             /\ m[1].what = "switch" /\ m[1].id = id
             /\ \A i \in 2..Len(m) : m[i] = Relaying!Item("frame", i - 1)
      PROVE  Due(q, id, n)
  <2>1. Len(m) \in Nat \ {0} /\ n = Len(q) - j
    BY <1>1, <1>6
  <2>2. ASSUME NEW i \in j + 1..Len(q) PROVE q[i] = Relaying!Item("frame", i - j)
    <3>1. /\ i \in 1..Len(l) + Len(m) /\ ~(i <= Len(l)) /\ i - Len(l) \in 2..Len(m)
          /\ (i - Len(l)) - 1 = i - j
      BY <1>1
    <3> QED
      BY <1>1, <1>6, <3>1
  <2> QED
    BY <1>3, <1>4, <1>6, <2>1, <2>2 DEF Due
<1> QED
  BY <1>2, <1>5, <1>6 DEF q

-----------------------------------------------------------------------------

LEMMA RelayInit == Relaying!Init => RelayInv
<1> SUFFICES ASSUME Relaying!Init PROVE RelayInv
  OBVIOUS
<1>1. MaxRequests \in Nat /\ MaxFrames \in Nat
  BY TrafficAssumption DEF Relaying!RelayAssumption
<1>2. /\ <<>> \in Seq(RelayItems) /\ <<>> \in Seq(Relaying!Requests) /\ Len(<<>>) = 0
      /\ \A W : KindsIn(<<>>, W) = {}
  BY DEF KindsIn
<1>3. RelayTypes
  BY <1>1, <1>2 DEF Relaying!Init, RelayTypes
<1>4. \A W, g : Matched(<<>>, W, g) /\ HowMany(<<>>, W) = 0
  BY <1>2, FS_EmptySet DEF Matched, HowMany
<1>5. Line = <<>> /\ Calm(<<>>) /\ ~SwitchedIn(<<>>)
  BY <1>2 DEF Relaying!Init, Line, Cat, Calm, SwitchedIn
<1>6. Live
  BY <1>4, <1>5 DEF Relaying!Init, Live, Given, Framed
<1> QED
  BY <1>3, <1>4, <1>6 DEF RelayInv, Relaying!Init

(* Once the client is gone, what it has received stays.                    *)
LEMMA GoneForGood ==
    ASSUME RelayInv, UNCHANGED <<case, got, lost>>, here' = FALSE, RelayTypes'
    PROVE  RelayInv'
BY DEF RelayInv, Matched, KindsIn, Relaying!Place, Relaying!mode

LEMMA RelayClientSends ==
    ASSUME RelayInv, Relaying!ClientSends PROVE RelayInv'
<1>1. /\ here /\ ~Relaying!Switched /\ asked < MaxRequests
      /\ Cardinality(Relaying!Answers) = asked
      /\ asked' = asked + 1
      /\ UNCHANGED <<case, relayPc, cur, link, todo, down, buf, frames, got, here, lost>>
  BY SameCardinality DEF Relaying!ClientSends
<1>11. PICK upgrade \in BOOLEAN : requests' = Append(requests, [id |-> asked + 1, up |-> upgrade])
  BY DEF Relaying!ClientSends
<1>2. RelayTypes /\ Live
  BY <1>1 DEF RelayInv
<1>3. [id |-> asked + 1, up |-> upgrade] \in Relaying!Requests
  BY <1>1, <1>2, RelayFacts DEF RelayTypes, Relaying!Requests
<1>4. RelayTypes'
  BY <1>1, <1>11, <1>2, <1>3, RelayFacts DEF RelayTypes
<1>5. Given = asked /\ ~SwitchedIn(got) /\ asked # asked + 1
  BY <1>1, <1>2, RelayFacts DEF Given, HowMany, KindsIn, Relaying!Answers, RelayTypes
<1>6. requests = <<>> /\ todo = <<>> /\ relayPc # "send" /\ Calm(Line) /\ Framed = 0 /\ lost = 0
  BY <1>2, <1>5 DEF Live
<1>7. Unread'
  BY <1>1, <1>11, <1>3, <1>6 DEF Unread
<1>8. Live'
  BY <1>1, <1>5, <1>6, <1>7 DEF Live, Waiting, Line, Given, Framed
<1> QED
  BY <1>1, <1>4, <1>8 DEF RelayInv, Matched, KindsIn, Relaying!Place, Relaying!mode

LEMMA RelayLeaves ==
    ASSUME RelayInv, Relaying!Leave, UNCHANGED got PROVE RelayInv'
<1>1. RelayTypes'
  BY DEF RelayInv, Relaying!Leave, RelayTypes
<1> QED
  BY <1>1, GoneForGood DEF Relaying!Leave

LEMMA RelayClientLeaves ==
    ASSUME RelayInv, Relaying!ClientLeaves PROVE RelayInv'
<1>1. RelayTypes'
  BY DEF RelayInv, Relaying!ClientLeaves, RelayTypes
<1> QED
  BY <1>1, GoneForGood DEF Relaying!ClientLeaves

(* The server's steps.                                                     *)
LEMMA CalmBoth ==
    ASSUME NEW l \in Seq(RelayItems), NEW m \in Seq(RelayItems), Calm(l), Calm(m)
    PROVE  Calm(Cat(l, m))
<1>1. 0 \in Int /\ FALSE \in BOOLEAN
  OBVIOUS
<1> QED
  BY <1>1, MoreLine

LEMMA RelayInterim ==
    ASSUME RelayInv, Relaying!ServerInterim PROVE RelayInv'
<1>1. /\ todo # <<>> /\ down' = down \o <<Relaying!Item("interim", Head(todo).id)>>
      /\ UNCHANGED <<case, relayPc, cur, asked, requests, link, todo, buf, frames, got, here, lost>>
  BY DEF Relaying!ServerInterim, Relaying!Says
<1>2. RelayTypes
  BY DEF RelayInv
<1>3. PICK m : m = <<Relaying!Item("interim", Head(todo).id)>>
  OBVIOUS
<1>4. m \in Seq(RelayItems) /\ Calm(m)
  <2>1. Head(todo) \in Relaying!Requests
    BY <1>1, <1>2 DEF RelayTypes
  <2>2. Relaying!Item("interim", Head(todo).id) \in RelayItems
    BY <2>1, RelayFacts, <1>2 DEF Relaying!Item, RelayItems, Relaying!Requests
  <2> QED
    BY <1>3, <2>2 DEF Calm, Relaying!Item
<1>5. down' = Cat(down, m) /\ Line' = Cat(Line, m)
  <2>1. Cat(Cat(buf, down), m) = Cat(buf, Cat(down, m))
    BY <1>2, <1>4, CatCat DEF RelayTypes
  <2> QED
    BY <1>1, <1>3, <2>1 DEF Line, Cat
<1>6. down' \in Seq(RelayItems)
  BY <1>2, <1>4, <1>5, CatCat DEF RelayTypes
<1>7. RelayTypes'
  BY <1>1, <1>2, <1>6 DEF RelayTypes
<1>8. Calm(Line) => Calm(Line)'
  <2>1. PICK l \in Seq(RelayItems) : l = Line
    BY <1>2, RelayFacts
  <2>2. Calm(l) => Calm(Cat(l, m))
    BY <1>4, CalmBoth
  <2> QED
    BY <1>5, <2>1, <2>2
<1>9. here => Live'
  BY <1>1, <1>8 DEF RelayInv, Live, Waiting, Begun, Given, Framed
<1> QED
  BY <1>1, <1>7, <1>9 DEF RelayInv, Matched, KindsIn, Relaying!Place, Relaying!mode

LEMMA RelayAnswers ==
    ASSUME RelayInv, Relaying!ServerAnswers PROVE RelayInv'
<1>1. /\ todo # <<>> /\ todo' = Tail(todo) /\ link \in BOOLEAN
      /\ UNCHANGED <<case, relayPc, cur, asked, requests, buf, got, here, lost>>
  BY DEF Relaying!ServerAnswers, RelayInv, RelayTypes
<1>2. RelayTypes
  BY DEF RelayInv
<1>3. PICK r : r = Head(todo)
  OBVIOUS
<1>4. r \in Relaying!Requests /\ r.id \in Nat /\ Tail(todo) \in Seq(Relaying!Requests)
      /\ link' \in BOOLEAN
  <2>1. r \in Relaying!Requests /\ Tail(todo) \in Seq(Relaying!Requests)
    BY <1>1, <1>2, <1>3 DEF RelayTypes
  <2>2. link' \in {link, FALSE}
    BY DEF Relaying!ServerAnswers
  <2>3. r.id \in 1..MaxRequests
    BY <2>1 DEF Relaying!Requests
  <2>4. r.id \in Nat
    BY ONLY <2>3
  <2> QED
    BY <1>1, <2>1, <2>2, <2>4
<1>5. PICK n \in 0..MaxFrames, m \in Seq(RelayItems) :
        /\ down' = Cat(down, m) /\ frames' \in {frames, n}
        /\ Len(m) \in Nat \ {0} /\ m[1].id = r.id
        /\ \/ m[1].what \in {"final", "last"} /\ Len(m) = 1
           \/ /\ m[1].what = "switch" /\ Len(m) = n + 1
              /\ \A i \in 2..Len(m) : m[i] = Relaying!Item("frame", i - 1)
              /\ frames' = n
  <2>1. CASE \E w \in {"final", "last"} :
               down' = down \o <<Relaying!Item(w, r.id)>> /\ UNCHANGED frames
    <3>1. PICK w \in {"final", "last"} :
            down' = down \o <<Relaying!Item(w, r.id)>> /\ UNCHANGED frames
      BY <2>1
    <3>2. Relaying!Item(w, r.id) \in RelayItems /\ Relaying!Item(w, r.id).what = w
          /\ Relaying!Item(w, r.id).id = r.id
      BY <1>4 DEF Relaying!Item, RelayItems
    <3>3. PICK m : m = <<Relaying!Item(w, r.id)>>
      OBVIOUS
    <3>4. m \in Seq(RelayItems) /\ Len(m) = 1 /\ m[1] = Relaying!Item(w, r.id)
      BY <3>2, <3>3
    <3>5. down' = Cat(down, m) /\ frames' = frames
      BY <3>1, <3>3 DEF Cat
    <3>6. 0 \in 0..MaxFrames
      BY <1>2, RelayFacts
    <3> QED
      BY <3>2, <3>4, <3>5, <3>6
  <2>2. CASE \E n \in 0..(IF case.early THEN MaxFrames ELSE 0) :
               /\ down' = down \o (<<Relaying!Item("switch", r.id)>>
                                     \o [f \in 1..n |-> Relaying!Item("frame", f)])
               /\ frames' = n
    <3>1. PICK n \in 0..(IF case.early THEN MaxFrames ELSE 0) :
            /\ down' = down \o (<<Relaying!Item("switch", r.id)>>
                                  \o [f \in 1..n |-> Relaying!Item("frame", f)])
            /\ frames' = n
      BY <2>2
    <3>2. n \in 0..MaxFrames
      BY <1>2, RelayFacts
    <3>3. PICK a, b : a = <<Relaying!Item("switch", r.id)>>
                      /\ b = [f \in 1..n |-> Relaying!Item("frame", f)]
      OBVIOUS
    <3>4. /\ a \in Seq(RelayItems) /\ Len(a) = 1 /\ a[1].what = "switch" /\ a[1].id = r.id
      <4>1. Relaying!Item("switch", r.id) \in RelayItems
        BY <1>4 DEF Relaying!Item, RelayItems
      <4> QED
        BY <3>3, <4>1 DEF Relaying!Item
    <3>5. b \in Seq(RelayItems) /\ Len(b) = n /\ \A i \in 1..n : b[i] = Relaying!Item("frame", i)
      <4>1. \A f \in 1..n : Relaying!Item("frame", f) \in RelayItems
        BY DEF Relaying!Item, RelayItems
      <4>2. n \in Nat
        BY <3>2, <1>2, RelayFacts
      <4> QED
        BY <3>3, <4>1, <4>2
    <3>6. PICK m : m = a \o b
      OBVIOUS
    <3>7. /\ m \in Seq(RelayItems) /\ Len(m) = 1 + n
          /\ \A i \in 1..1 + n : m[i] = IF i <= 1 THEN a[i] ELSE b[i - 1]
      <4>1. m = Cat(a, b)
        BY <3>6 DEF Cat
      <4>2. a \in Seq(RelayItems) /\ b \in Seq(RelayItems)
        BY ONLY <3>4, <3>5
      <4>3. /\ m \in Seq(RelayItems) /\ Len(m) = Len(a) + Len(b)
            /\ \A i \in 1..Len(a) + Len(b) :
                  m[i] = IF i <= Len(a) THEN a[i] ELSE b[i - Len(a)]
        BY ONLY <4>1, <4>2, CatFacts
      <4> QED
        BY ONLY <3>4, <3>5, <4>3
    <3>8. m[1] = a[1] /\ \A i \in 2..Len(m) : m[i] = Relaying!Item("frame", i - 1)
      BY <3>2, <3>5, <3>7, <1>2, RelayFacts
    <3>9. down' = Cat(down, m)
      BY <3>1, <3>3, <3>6 DEF Cat
    <3>10. n \in Nat
      BY <3>2, <1>2, RelayFacts
    <3>11. m[1].what = "switch" /\ m[1].id = r.id /\ Len(m) = n + 1 /\ Len(m) \in Nat \ {0}
      BY <3>4, <3>7, <3>8, <3>10
    <3> QED
      BY ONLY <3>1, <3>2, <3>7, <3>8, <3>9, <3>11
  <2> QED
    BY <2>1, <2>2, <1>3 DEF Relaying!ServerAnswers, Relaying!Says
<1>6. Line' = Cat(Line, m) /\ down' \in Seq(RelayItems)
  <2>1. buf \in Seq(RelayItems) /\ down \in Seq(RelayItems) /\ m \in Seq(RelayItems)
    BY <1>2, <1>5 DEF RelayTypes
  <2>2. /\ Cat(Cat(buf, down), m) = Cat(buf, Cat(down, m))
        /\ Cat(down, m) \in Seq(RelayItems)
    BY ONLY <2>1, CatCat
  <2> QED
    BY <1>1, <1>5, <2>2 DEF Line
<1>7. RelayTypes'
  <2>1. frames' \in -1..MaxFrames
    BY <1>2, <1>5, RelayFacts DEF RelayTypes
  <2> QED
    BY <1>1, <1>2, <1>4, <1>6, <2>1 DEF RelayTypes
<1>8. ASSUME here PROVE Live'
  <2>1. /\ ~SwitchedIn(got) /\ Framed = 0 /\ lost = 0 /\ asked = Given + 1
        /\ requests = <<>> /\ relayPc # "send" /\ Begun /\ Calm(Line)
    BY <1>1, <1>8 DEF RelayInv, Live, Waiting
  <2>2. todo' = <<>> /\ r.id = asked
    <3>1. todo \in Seq(Relaying!Requests) /\ Len(todo) = 1 /\ todo[1].id = asked
      BY <1>2, <2>1 DEF RelayTypes, Begun
    <3> QED
      BY <1>1, <1>3, <3>1
  <2>3. n \in Nat /\ Line \in Seq(RelayItems)
    BY <1>2, <1>5, RelayFacts
  <2>4. PICK l, q, a : l = Line /\ q = Cat(l, m) /\ a = asked
    OBVIOUS
  <2>5. Due(q, a, frames')
    <3>1. PICK k \in Int : k = frames'
      BY <1>2, <1>7, RelayFacts DEF RelayTypes
    <3>2. /\ Calm(l) /\ l \in Seq(RelayItems) /\ m[1].id = a
          /\ \/ m[1].what \in {"final", "last"} /\ Len(m) = 1
             \/ /\ m[1].what = "switch" /\ Len(m) = n + 1
                /\ \A i \in 2..Len(m) : m[i] = Relaying!Item("frame", i - 1)
                /\ k = n /\ k \in Nat
      BY <1>5, <2>1, <2>2, <2>3, <2>4, <3>1
    <3>3. CASE m[1].what \in {"final", "last"} /\ Len(m) = 1
      <4>1. Due(q, a, k)
        BY ONLY <2>4, <3>2, <3>3, MoreLine, m \in Seq(RelayItems), k \in Int
      <4> QED
        BY <3>1, <4>1
    <3>4. CASE /\ m[1].what = "switch" /\ Len(m) = n + 1
               /\ \A i \in 2..Len(m) : m[i] = Relaying!Item("frame", i - 1)
               /\ k = n /\ k \in Nat
      <4>1. Due(q, a, k)
        BY ONLY <2>4, <3>2, <3>4, MoreLine, m \in Seq(RelayItems), k \in Int
      <4> QED
        BY <3>1, <3>4, <4>1
    <3> QED
      BY <3>2, <3>3, <3>4
  <2>6. Due(Line, asked, frames)'
    BY <1>1, <1>6, <2>4, <2>5
  <2> QED
    BY <1>1, <2>1, <2>2, <2>6 DEF Live, Waiting, Given, Framed
<1> QED
  BY <1>1, <1>7, <1>8 DEF RelayInv, Matched, KindsIn, Relaying!Place, Relaying!mode

LEMMA RelayFrames ==
    ASSUME RelayInv, Relaying!ServerFrame PROVE RelayInv'
<1>1. /\ frames \in 0..MaxFrames - 1 /\ Relaying!Switched
      /\ frames' = frames + 1
      /\ down' = down \o <<Relaying!Item("frame", frames + 1)>>
      /\ UNCHANGED <<case, relayPc, cur, asked, requests, link, todo, buf, got, here, lost>>
  BY DEF Relaying!ServerFrame, Relaying!Says
<1>2. RelayTypes
  BY DEF RelayInv
<1>3. PICK m : m = <<Relaying!Item("frame", frames + 1)>>
  OBVIOUS
<1>31. frames \in Nat /\ frames + 1 \in -1..MaxFrames
  BY <1>1, <1>2, RelayFacts
<1>4. m \in Seq(RelayItems) /\ Len(m) = 1 /\ m[1] = Relaying!Item("frame", frames + 1)
  <2>1. Relaying!Item("frame", frames + 1) \in RelayItems
    BY <1>31 DEF Relaying!Item, RelayItems
  <2> QED
    BY <1>3, <2>1
<1>5. down' = Cat(down, m) /\ Line' = Cat(Line, m) /\ down' \in Seq(RelayItems)
  <2>1. /\ Cat(Cat(buf, down), m) = Cat(buf, Cat(down, m))
        /\ Cat(down, m) \in Seq(RelayItems)
    BY <1>2, <1>4, CatCat DEF RelayTypes
  <2> QED
    BY <1>1, <1>3, <2>1 DEF Line, Cat
<1>7. RelayTypes'
  BY <1>1, <1>2, <1>31, <1>5 DEF RelayTypes
<1>8. ASSUME here PROVE Live'
  <2>1. /\ SwitchedIn(got) /\ relayPc = "tunnel" /\ requests = <<>> /\ todo = <<>>
        /\ asked = Given /\ Following(Line, lost + Framed, frames)
    BY <1>1, <1>2, <1>8, RelayFacts DEF RelayInv, Live
  <2>2. lost + Framed \in Nat /\ Line \in Seq(RelayItems)
    <3>1. HowMany(got, {"frame"}) \in Nat
      <4>1. Relaying!Item("frame", 1) \in RelayItems /\ got \in Seq(RelayItems) /\ 0 \in Nat
        BY <1>2 DEF Relaying!Item, RelayItems, RelayTypes
      <4> QED
        BY <4>1, OneMore
    <3> QED
      BY <3>1, <1>2, RelayFacts DEF Framed, RelayTypes
  <2>3. PICK l, q, g, n : l = Line /\ q = Cat(l, m) /\ g = lost + Framed /\ n = frames
    OBVIOUS
  <2>4. Following(q, g, n + 1)
    <3>1. /\ l \in Seq(RelayItems) /\ g \in Nat /\ Following(l, g, n) /\ n \in Nat
          /\ m[1] = Relaying!Item("frame", n + 1)
      BY <1>31, <1>4, <2>1, <2>2, <2>3
    <3>2. /\ Len(l) \in Nat /\ Len(q) = Len(l) + 1
          /\ \A i \in 1..Len(l) + 1 : q[i] = IF i <= Len(l) THEN l[i] ELSE m[i - Len(l)]
      <4>1. /\ Len(l) \in Nat /\ Len(Cat(l, m)) = Len(l) + Len(m)
            /\ \A i \in 1..Len(l) + Len(m) :
                  Cat(l, m)[i] = IF i <= Len(l) THEN l[i] ELSE m[i - Len(l)]
        BY <1>4, <3>1, CatFacts
      <4>2. q = Cat(l, m) /\ Len(m) = 1
        BY <1>4, <2>3
      <4> QED
        BY ONLY <4>1, <4>2
    <3>3. n + 1 = g + Len(q)
      BY <3>1, <3>2 DEF Following
    <3>4. ASSUME NEW i \in 1..Len(q) PROVE q[i] = Relaying!Item("frame", g + i)
      <4>1. CASE i <= Len(l)
        BY <3>1, <3>2, <4>1 DEF Following
      <4>2. CASE i = Len(l) + 1
        <5>1. i - Len(l) = 1 /\ ~(i <= Len(l)) /\ n + 1 = g + i
          BY <3>1, <3>2, <3>3, <4>2
        <5> QED
          BY <3>1, <3>2, <5>1
      <4>3. i <= Len(l) \/ i = Len(l) + 1
        BY <3>2
      <4> QED
        BY <4>1, <4>2, <4>3
    <3> QED
      BY <3>3, <3>4 DEF Following
  <2>5. Following(Line, lost + Framed, frames)'
    BY <1>1, <1>5, <2>3, <2>4 DEF Framed
  <2> QED
    BY <1>1, <2>1, <2>5 DEF Live, Given
<1> QED
  BY <1>1, <1>7, <1>8 DEF RelayInv, Matched, KindsIn, Relaying!Place, Relaying!mode

(* Steps that change neither the line nor what was received.               *)
LEMMA RelayLineRests ==
    ASSUME RelayInv, UNCHANGED <<got, lost, frames>>, Line' = Line,
           Relaying!ServerCloses \/ Relaying!ReadRequest \/ Relaying!Fetch \/ Relaying!TunnelUp,
           RelayTypes'
    PROVE  RelayInv'
<1>1. RelayTypes
  BY DEF RelayInv
<1>2. Matched(got, Relaying!Answer, 0)' /\ Matched(got, {"frame"}, lost)'
  BY DEF RelayInv, Matched, KindsIn, Relaying!Place, Relaying!mode
<1>3. ASSUME here PROVE Live'
  <2>1. CASE Relaying!ServerCloses \/ Relaying!Fetch
    <3>1. UNCHANGED <<relayPc, requests, todo, asked, cur, case>>
      BY <2>1 DEF Relaying!ServerCloses, Relaying!Fetch
    <3> QED
      BY <1>3, <3>1 DEF RelayInv, Live, Waiting, Unread, Begun, Given, Framed
  <2>2. CASE Relaying!ReadRequest
    <3>1. /\ relayPc = "read" /\ relayPc' = "send" /\ requests # <<>>
          /\ cur' = Head(requests) /\ requests' = Tail(requests)
          /\ UNCHANGED <<todo, asked, case>>
      BY <2>2 DEF Relaying!ReadRequest
    <3>2. /\ ~SwitchedIn(got) /\ Framed = 0 /\ lost = 0 /\ asked = Given + 1
          /\ Unread /\ todo = <<>> /\ Calm(Line)
      BY <1>3, <3>1 DEF RelayInv, Live, Waiting
    <3>3. requests' = <<>> /\ cur'.id = asked
      <4>1. requests \in Seq(Relaying!Requests) /\ Len(requests) = 1 /\ requests[1].id = asked
        BY <1>1, <3>2 DEF RelayTypes, Unread
      <4> QED
        BY <3>1, <4>1, OnlyOne
    <3> QED
      BY <3>1, <3>2, <3>3 DEF Live, Waiting, Given, Framed
  <2>3. CASE Relaying!TunnelUp
    <3>1. /\ relayPc = "tunnel" /\ relayPc' = "tunnel" /\ requests # <<>>
          /\ todo' = Append(todo, Head(requests)) /\ requests' = Tail(requests)
          /\ UNCHANGED <<cur, asked, case>>
      BY <2>3 DEF Relaying!TunnelUp
    <3>2. /\ ~SwitchedIn(got) /\ Framed = 0 /\ lost = 0 /\ asked = Given + 1
          /\ Unread /\ todo = <<>> /\ Calm(Line)
      BY <1>3, <3>1 DEF RelayInv, Live, Waiting
    <3>3. requests' = <<>> /\ Begun'
      <4>1. requests \in Seq(Relaying!Requests) /\ Len(requests) = 1 /\ requests[1].id = asked
        BY <1>1, <3>2 DEF RelayTypes, Unread
      <4>2. /\ requests' = <<>> /\ Head(requests).id = asked
            /\ Head(requests) \in Relaying!Requests
        BY <3>1, <4>1, OnlyOne
      <4>3. PICK h \in Relaying!Requests : h = Head(requests)
        BY <4>2
      <4>4. todo' = <<h>>
        BY <3>1, <3>2, <4>3
      <4>5. <<h>> # <<>> /\ Len(<<h>>) = 1 /\ <<h>>[1] = h
        OBVIOUS
      <4>6. h.id = asked
        BY <4>2, <4>3
      <4> QED
        BY <3>1, <4>2, <4>4, <4>5, <4>6 DEF Begun
    <3> QED
      BY <3>1, <3>2, <3>3 DEF Live, Waiting, Given, Framed
  <2> QED
    BY <2>1, <2>2, <2>3
<1>4. here' = here /\ case' = case
  BY DEF Relaying!ServerCloses, Relaying!ReadRequest, Relaying!Fetch, Relaying!TunnelUp
<1> QED
  BY <1>2, <1>3, <1>4 DEF RelayInv, Relaying!mode

LEMMA FetchKeepsLine ==
    ASSUME RelayTypes, Relaying!Fetch
    PROVE  Line' = Line /\ buf' \in Seq(RelayItems) /\ down' \in Seq(RelayItems)
<1>1. PICK k \in 1..Len(down) :
        buf' = SubSeq(down, 1, k) /\ down' = SubSeq(down, k + 1, Len(down)) /\ buf = <<>>
  BY DEF Relaying!Fetch
<1>2. PICK d \in Seq(RelayItems) : d = down
  BY DEF RelayTypes
<1>3. <<>> \in Seq(RelayItems)
  OBVIOUS
<1>4. PICK a, b : a = SubSeq(d, 1, k) /\ b = SubSeq(d, k + 1, Len(d))
  OBVIOUS
<1>5. /\ a \in Seq(RelayItems) /\ b \in Seq(RelayItems)
      /\ (<<>> \o a) \o b = <<>> \o d
  BY <1>1, <1>2, <1>3, <1>4, Split
<1>6. <<>> \o a = a
  BY <1>5, ConcatEmptySeq
<1>7. a \o b = <<>> \o d
  BY <1>5, <1>6
<1> QED
  BY <1>1, <1>2, <1>4, <1>5, <1>7 DEF Line, Cat

LEMMA RelayRests ==
    ASSUME RelayInv,
           Relaying!ServerCloses \/ Relaying!ReadRequest \/ Relaying!Fetch \/ Relaying!TunnelUp
    PROVE  RelayInv'
<1>1. RelayTypes
  BY DEF RelayInv
<1>2. CASE Relaying!ServerCloses
  <2>1. RelayTypes' /\ Line' = Line
    BY <1>1, <1>2 DEF Relaying!ServerCloses, RelayTypes, Line
  <2> QED
    BY <1>2, <2>1, RelayLineRests DEF Relaying!ServerCloses
<1>3. CASE Relaying!ReadRequest
  <2>1. RelayTypes' /\ Line' = Line
    <3>1. Tail(requests) \in Seq(Relaying!Requests) /\ Head(requests) \in Relaying!Requests
      BY <1>1, <1>3 DEF RelayTypes, Relaying!ReadRequest
    <3> QED
      BY <1>1, <1>3, <3>1 DEF Relaying!ReadRequest, RelayTypes, Line
  <2> QED
    BY <1>3, <2>1, RelayLineRests DEF Relaying!ReadRequest
<1>4. CASE Relaying!Fetch
  <2>1. RelayTypes' /\ Line' = Line
    BY <1>1, <1>4, FetchKeepsLine DEF Relaying!Fetch, RelayTypes
  <2> QED
    BY <1>4, <2>1, RelayLineRests DEF Relaying!Fetch
<1>5. CASE Relaying!TunnelUp
  <2>1. RelayTypes' /\ Line' = Line
    <3>1. Tail(requests) \in Seq(Relaying!Requests)
          /\ Append(todo, Head(requests)) \in Seq(Relaying!Requests)
      BY <1>1, <1>5 DEF RelayTypes, Relaying!TunnelUp
    <3> QED
      BY <1>1, <1>5, <3>1 DEF Relaying!TunnelUp, RelayTypes, Line
  <2> QED
    BY <1>5, <2>1, RelayLineRests DEF Relaying!TunnelUp
<1> QED
  BY <1>2, <1>3, <1>4, <1>5

LEMMA RelaySend ==
    ASSUME RelayInv, Relaying!Send PROVE RelayInv'
<1>1. /\ relayPc = "send" /\ relayPc' = "await" /\ link' = TRUE
      /\ todo' = IF link THEN Append(todo, cur) ELSE <<cur>>
      /\ down' = IF link THEN down ELSE <<>>
      /\ buf' = IF link /\ Relaying!mode.keeps THEN buf ELSE <<>>
      /\ UNCHANGED <<case, cur, asked, requests, frames, got, here, lost>>
  BY DEF Relaying!Send
<1>2. RelayTypes
  BY DEF RelayInv
<1>3. ASSUME NEW S, NEW q \in Seq(S) PROVE <<>> \o q = q
  BY <1>3, ConcatEmptySeq
<1>4. Calm(Line) => Calm(Line)'
  <2>1. PICK b, d \in Seq(RelayItems) : b = buf /\ d = down
    BY <1>2 DEF RelayTypes
  <2>2. Line' \in {Cat(b, d), <<>>, d}
    <3>1. Cat(<<>>, d) = d /\ Cat(<<>>, <<>>) = <<>>
      BY <1>3 DEF Cat
    <3>2. /\ ~link => buf' = <<>> /\ down' = <<>>
          /\ link => buf' \in {b, <<>>} /\ down' = d
      BY <1>1, <2>1
    <3>3. Line' = Cat(buf', down')
      BY DEF Line
    <3> QED
      BY <3>1, <3>2, <3>3
  <2>3. Calm(Cat(b, d)) => Calm(d)
    <3>1. /\ Len(b) \in Nat /\ Len(d) \in Nat /\ Len(Cat(b, d)) = Len(b) + Len(d)
          /\ \A i \in 1..Len(b) + Len(d) :
                Cat(b, d)[i] = IF i <= Len(b) THEN b[i] ELSE d[i - Len(b)]
      BY CatFacts
    <3>2. \A i \in 1..Len(d) : /\ i + Len(b) \in 1..Len(b) + Len(d)
                               /\ ~(i + Len(b) <= Len(b)) /\ (i + Len(b)) - Len(b) = i
      BY <3>1
    <3> QED
      BY <3>1, <3>2 DEF Calm
  <2>4. Calm(<<>>)
    BY DEF Calm
  <2>5. Line = Cat(b, d)
    BY <2>1 DEF Line
  <2> QED
    BY <2>2, <2>3, <2>4, <2>5
<1>5. ASSUME here PROVE cur \in Relaying!Requests /\ Live'
  <2>1. /\ ~SwitchedIn(got) /\ Framed = 0 /\ lost = 0 /\ asked = Given + 1
        /\ requests = <<>> /\ cur.id = asked /\ todo = <<>> /\ Calm(Line)
    BY <1>1, <1>5 DEF RelayInv, Live, Waiting
  <2>2. cur \in Relaying!Requests
    <3>1. Given \in Nat
      <4>1. Relaying!Item("frame", 1) \in RelayItems /\ got \in Seq(RelayItems) /\ 0 \in Nat
        BY <1>2 DEF Relaying!Item, RelayItems, RelayTypes
      <4> QED
        BY <4>1, OneMore DEF Given
    <3>2. Relaying!NoRequest.id = 0
      BY DEF Relaying!NoRequest
    <3> QED
      BY <1>2, <2>1, <3>1, <3>2 DEF RelayTypes
  <2>3. todo' = <<cur>>
    BY <1>1, <2>1
  <2>4. Begun'
    BY <1>1, <2>1, <2>3 DEF Begun
  <2> QED
    BY <1>1, <1>4, <2>1, <2>2, <2>4 DEF Live, Waiting, Given, Framed
<1>6. RelayTypes'
  <2>1. cur \in Relaying!Requests
    BY <1>1, <1>2 DEF RelayTypes
  <2>2. todo' \in Seq(Relaying!Requests) /\ <<>> \in Seq(RelayItems)
    BY <1>1, <1>2, <2>1 DEF RelayTypes
  <2>3. down' \in Seq(RelayItems) /\ buf' \in Seq(RelayItems)
    BY <1>1, <1>2, <2>2 DEF RelayTypes
  <2> QED
    BY <1>1, <1>2, <2>2, <2>3 DEF RelayTypes
<1> QED
  BY <1>1, <1>5, <1>6 DEF RelayInv, Matched, KindsIn, Relaying!Place, Relaying!mode

-----------------------------------------------------------------------------
(* The head of the line is what the client gets.                           *)
HeadFits(q, item) ==
    /\ item.what \in Relaying!Answer => item.id = HowMany(q, Relaying!Answer) + 1
    /\ item.what = "frame" => item.id = lost + (HowMany(q, {"frame"}) + 1)

LEMMA NoneOfThem ==
    ASSUME NEW q \in Seq(RelayItems), NEW W, HowMany(q, W) = 0 PROVE KindsIn(q, W) = {}
<1>1. KindsIn(q, W) \subseteq 1..Len(q) /\ IsFiniteSet(1..Len(q))
  <2>1. 1 \in Int /\ Len(q) \in Int /\ DOMAIN q = 1..Len(q)
    OBVIOUS
  <2>2. IsFiniteSet(1..Len(q))
    BY ONLY <2>1, FS_Interval
  <2> QED
    BY <2>1, <2>2 DEF KindsIn
<1>2. IsFiniteSet(KindsIn(q, W))
  BY <1>1, FS_Subset
<1> QED
  BY <1>2, FS_EmptySet DEF HowMany

LEMMA Handed ==
    ASSUME RelayInv, NEW item \in RelayItems, HeadFits(got, item), got' = Append(got, item)
    PROVE  /\ Matched(got, Relaying!Answer, 0)'
           /\ (lost' = lost \/ (Framed = 0 /\ item.what # "frame")) =>
                 Matched(got, {"frame"}, lost)'
           /\ Given' = IF item.what \in Relaying!Answer THEN Given + 1 ELSE Given
           /\ Framed' = IF item.what = "frame" THEN Framed + 1 ELSE Framed
           /\ SwitchedIn(got)' <=> SwitchedIn(got) \/ item.what = "switch"
           /\ got' \in Seq(RelayItems)
<1>1. PICK q, g : q = got /\ g = lost
  OBVIOUS
<1>2. /\ q \in Seq(RelayItems) /\ Matched(q, Relaying!Answer, 0) /\ Matched(q, {"frame"}, g)
      /\ HeadFits(q, item) /\ g \in Nat /\ 0 \in Nat
  BY <1>1, RelayFacts DEF RelayInv, RelayTypes
<1>3. /\ HowMany(q, Relaying!Answer) \in Nat
      /\ Matched(Append(q, item), {"frame"}, g)
      /\ HowMany(Append(q, item), Relaying!Answer)
            = IF item.what \in Relaying!Answer THEN HowMany(q, Relaying!Answer) + 1
              ELSE HowMany(q, Relaying!Answer)
      /\ HowMany(Append(q, item), {"frame"})
            = IF item.what = "frame" THEN HowMany(q, {"frame"}) + 1 ELSE HowMany(q, {"frame"})
      /\ SwitchedIn(Append(q, item)) <=> SwitchedIn(q) \/ item.what = "switch"
      /\ Append(q, item) \in Seq(RelayItems)
  BY <1>1, <1>2, OneMore DEF HeadFits
<1>4. Matched(Append(q, item), Relaying!Answer, 0)
  BY <1>2, <1>3, OneMore DEF HeadFits
<1>5. got' = Append(q, item)
  BY <1>1
<1>6. ASSUME HowMany(q, {"frame"}) = 0, item.what # "frame", NEW f
      PROVE  Matched(Append(q, item), {"frame"}, f)
  <2>1. KindsIn(Append(q, item), {"frame"}) = {}
    <3>1. Append(q, item) \in Seq(RelayItems) /\ HowMany(Append(q, item), {"frame"}) = 0
      BY <1>3, <1>6
    <3> QED
      BY ONLY <3>1, NoneOfThem
  <2> QED
    BY <2>1 DEF Matched
<1>7. lost' = lost => Matched(got, {"frame"}, lost)'
  BY <1>1, <1>3, <1>5
<1>8. Framed = 0 /\ item.what # "frame" => Matched(got, {"frame"}, lost)'
  BY <1>1, <1>5, <1>6 DEF Framed
<1> QED
  BY <1>1, <1>3, <1>4, <1>5, <1>7, <1>8 DEF Given, Framed

LEMMA HeadOfLine ==
    ASSUME RelayInv, buf # <<>>
    PROVE  /\ Head(buf) \in RelayItems /\ Tail(buf) \in Seq(RelayItems)
           /\ Head(buf) = Line[1] /\ Len(Line) \in Nat \ {0}
           /\ Len(Tail(buf)) = Len(buf) - 1 /\ Len(buf) \in 1..Len(Line)
           /\ \A i \in 1..Len(buf) - 1 : Tail(buf)[i] = buf[i + 1]
           /\ Given \in Nat /\ Framed \in Nat /\ lost \in Nat
<1>1. PICK b, d \in Seq(RelayItems) : b = buf /\ d = down
  BY DEF RelayInv, RelayTypes
<1>2. /\ Len(b) \in Nat \ {0} /\ Head(b) = b[1] /\ Head(b) \in RelayItems
      /\ Tail(b) \in Seq(RelayItems) /\ Len(Tail(b)) = Len(b) - 1
      /\ \A i \in 1..Len(b) - 1 : Tail(b)[i] = b[i + 1]
  BY <1>1
<1>3. /\ Len(Cat(b, d)) = Len(b) + Len(d) /\ Len(d) \in Nat
      /\ \A i \in 1..Len(b) + Len(d) :
            Cat(b, d)[i] = IF i <= Len(b) THEN b[i] ELSE d[i - Len(b)]
  BY CatFacts
<1>4. Cat(b, d)[1] = b[1] /\ Len(Cat(b, d)) \in Nat \ {0} /\ Len(b) \in 1..Len(Cat(b, d))
  BY <1>2, <1>3
<1>5. Line = Cat(b, d)
  BY <1>1 DEF Line
<1>6. Given \in Nat /\ Framed \in Nat /\ lost \in Nat
  <2>1. got \in Seq(RelayItems) /\ Head(b) \in RelayItems /\ 0 \in Nat /\ lost \in Nat
    BY <1>2, RelayFacts DEF RelayInv, RelayTypes
  <2> QED
    BY <2>1, OneMore DEF Given, Framed
<1> QED
  BY <1>1, <1>2, <1>4, <1>5, <1>6

LEMMA HeadIsDue ==
    ASSUME RelayInv, here, buf # <<>>
    PROVE  HeadFits(got, Head(buf))
<1>1. PICK l \in Seq(RelayItems) : l = Line
  BY RelayFacts DEF RelayInv
<1>2. Head(buf) = l[1] /\ Len(l) \in Nat \ {0} /\ Framed \in Nat /\ lost \in Nat
  BY <1>1, HeadOfLine
<1>3. CASE Following(Line, lost + Framed, frames)
  <2>1. l[1] = Relaying!Item("frame", lost + (Framed + 1))
    <3>1. 1 \in 1..Len(l) /\ (lost + Framed) + 1 = lost + (Framed + 1)
      BY <1>2
    <3> QED
      BY <1>1, <1>3, <3>1 DEF Following
  <2> QED
    BY <1>2, <2>1 DEF HeadFits, Relaying!Item, Relaying!Answer, Framed
<1>4. CASE Calm(Line)
  <2>1. l[1].what = "interim"
    BY <1>1, <1>2, <1>4 DEF Calm
  <2> QED
    BY <1>2, <2>1 DEF HeadFits, Relaying!Answer
<1>5. CASE asked = Given + 1 /\ Due(Line, asked, frames)
  <2>1. \/ l[1].what = "interim"
        \/ l[1].what \in {"final", "last", "switch"} /\ l[1].id = asked
    BY <1>1, <1>2, <1>5 DEF Due
  <2> QED
    BY <1>2, <1>5, <2>1 DEF HeadFits, Relaying!Answer, Given
<1> QED
  BY <1>3, <1>4, <1>5 DEF RelayInv, Live, Waiting

(* The head leaves the line, and with it the reader if it is not kept.     *)
Drops(k) ==
    \/ k = 1 /\ buf' = Tail(buf) /\ UNCHANGED <<down, lost>>
    \/ /\ k = Len(buf) /\ buf' = <<>> /\ UNCHANGED down
       /\ relayPc = "await" /\ ~Relaying!mode.keeps
       /\ lost' = IF here THEN lost + HowMany(Tail(buf), {"frame"}) ELSE lost

LEMMA LineShortens ==
    ASSUME RelayInv, buf # <<>>, NEW k, Drops(k)
    PROVE  /\ k \in 1..Len(Line) /\ Line' \in Seq(RelayItems) /\ Len(Line') = Len(Line) - k
           /\ \A i \in 1..Len(Line') : Line'[i] = Line[i + k]
           /\ \E c \in Seq(RelayItems) :
                 /\ Len(c) = k - 1 /\ \A i \in 1..Len(c) : c[i] = Line[i + 1]
                 /\ here => lost' = lost + HowMany(c, {"frame"})
           /\ buf' \in Seq(RelayItems) /\ down' \in Seq(RelayItems)
<1>1. PICK b, d, c \in Seq(RelayItems) : b = buf /\ d = down /\ c = Tail(buf)
  BY HeadOfLine DEF RelayInv, RelayTypes
<1>2. /\ Len(b) \in Nat \ {0} /\ Len(c) = Len(b) - 1 /\ Len(d) \in Nat
      /\ \A i \in 1..Len(b) - 1 : c[i] = b[i + 1]
  BY <1>1, HeadOfLine
<1>3. /\ Len(Cat(b, d)) = Len(b) + Len(d) /\ Cat(b, d) \in Seq(RelayItems)
      /\ \A i \in 1..Len(b) + Len(d) :
            Cat(b, d)[i] = IF i <= Len(b) THEN b[i] ELSE d[i - Len(b)]
  BY CatFacts
<1>4. Line = Cat(b, d)
  BY <1>1 DEF Line
<1>41. lost \in Nat
  BY HeadOfLine
<1>5. CASE k = 1 /\ buf' = Tail(buf) /\ UNCHANGED <<down, lost>>
  <2>1. Line' = Cat(c, d) /\ buf' = c /\ down' = d
    BY <1>1, <1>5 DEF Line
  <2>2. /\ Len(Cat(c, d)) = Len(c) + Len(d) /\ Cat(c, d) \in Seq(RelayItems)
        /\ \A i \in 1..Len(c) + Len(d) :
              Cat(c, d)[i] = IF i <= Len(c) THEN c[i] ELSE d[i - Len(c)]
    BY CatFacts
  <2>3. ASSUME NEW i \in 1..Len(Cat(c, d)) PROVE Cat(c, d)[i] = Cat(b, d)[i + 1]
    <3>1. i \in 1..Len(c) + Len(d) /\ i + 1 \in 1..Len(b) + Len(d)
      BY <1>2, <2>2
    <3>2. CASE i <= Len(c)
      <4>1. i \in 1..Len(b) - 1 /\ i + 1 <= Len(b)
        BY <1>2, <3>1, <3>2
      <4> QED
        BY <1>2, <1>3, <2>2, <3>1, <3>2, <4>1
    <3>3. CASE ~(i <= Len(c))
      <4>1. ~(i + 1 <= Len(b)) /\ (i + 1) - Len(b) = i - Len(c)
        BY <1>2, <3>1, <3>3
      <4> QED
        BY <1>3, <2>2, <3>1, <3>3, <4>1
    <3> QED
      BY <3>2, <3>3
  <2>4. Len(Cat(c, d)) = Len(Cat(b, d)) - 1 /\ 1 \in 1..Len(Cat(b, d))
    BY <1>2, <1>3, <2>2
  <2>5. /\ <<>> \in Seq(RelayItems) /\ Len(<<>>) = 0 /\ HowMany(<<>>, {"frame"}) = 0
        /\ \A i \in 1..0 : <<>>[i] = Line[i + 1]
    BY NoFrames
  <2>6. lost' = lost + HowMany(<<>>, {"frame"}) /\ Len(<<>>) = k - 1
    BY <1>5, <1>41, <2>5
  <2> QED
    BY <1>4, <1>5, <2>1, <2>2, <2>3, <2>4, <2>5, <2>6
<1>6. CASE /\ k = Len(buf) /\ buf' = <<>> /\ UNCHANGED down
           /\ lost' = IF here THEN lost + HowMany(Tail(buf), {"frame"}) ELSE lost
  <2>1. Line' = d /\ buf' = <<>> /\ down' = d /\ <<>> \in Seq(RelayItems) /\ k = Len(b)
    BY <1>1, <1>6, ConcatEmptySeq DEF Line, Cat
  <2>2. \A i \in 1..Len(d) : /\ i + Len(b) \in 1..Len(b) + Len(d)
                             /\ ~(i + Len(b) <= Len(b)) /\ (i + Len(b)) - Len(b) = i
    BY <1>2
  <2>3. \A i \in 1..Len(d) : d[i] = Cat(b, d)[i + Len(b)]
    BY <1>3, <2>2
  <2>4. Len(b) \in 1..Len(Cat(b, d)) /\ Len(d) = Len(Cat(b, d)) - Len(b)
    BY <1>2, <1>3
  <2>5. Len(c) = k - 1 /\ \A i \in 1..Len(c) : c[i] = Cat(b, d)[i + 1]
    <3>1. \A i \in 1..Len(c) : i + 1 \in 1..Len(b) + Len(d) /\ i + 1 <= Len(b)
      BY <1>2
    <3> QED
      BY <1>2, <1>3, <2>1, <3>1
  <2>6. here => lost' = lost + HowMany(c, {"frame"})
    BY <1>1, <1>6
  <2> QED
    BY <1>4, <1>6, <2>1, <2>3, <2>4, <2>5, <2>6
<1> QED
  BY <1>5, <1>6 DEF Drops

LEMMA HeadGoes ==
    ASSUME RelayInv, here, buf # <<>>, relayPc \in {"await", "tunnel"},
           NEW k, Drops(k), got' = Append(got, Head(buf)),
           relayPc' \in {"read", "tunnel"}, relayPc = "tunnel" => relayPc' = "tunnel",
           Head(buf).what = "switch" => relayPc' = "tunnel",
           UNCHANGED <<case, asked, requests, todo, frames>>
    PROVE  Live' /\ ((lost' = lost) \/ (Framed = 0 /\ Head(buf).what # "frame"))
<1>1. /\ Given' = IF Head(buf).what \in Relaying!Answer THEN Given + 1 ELSE Given
      /\ Framed' = IF Head(buf).what = "frame" THEN Framed + 1 ELSE Framed
      /\ SwitchedIn(got)' <=> SwitchedIn(got) \/ Head(buf).what = "switch"
  <2>1. PICK item \in RelayItems : item = Head(buf)
    BY HeadOfLine
  <2> QED
    BY <2>1, HeadIsDue, Handed
<1>2. PICK l \in Seq(RelayItems) : l = Line /\ Head(buf) = l[1] /\ Len(l) \in Nat \ {0}
  BY HeadOfLine, RelayFacts DEF RelayInv
<1>3. PICK j \in 1..Len(l) : j = k
  BY <1>2, LineShortens
<1>4. PICK m \in Seq(RelayItems) :
        m = Line' /\ Len(m) = Len(l) - j /\ \A i \in 1..Len(m) : m[i] = l[i + j]
  BY <1>2, <1>3, LineShortens
<1>5. PICK c \in Seq(RelayItems) :
        /\ Len(c) = j - 1 /\ \A i \in 1..Len(c) : c[i] = l[i + 1]
        /\ lost' = lost + HowMany(c, {"frame"})
  BY <1>2, <1>3, LineShortens
<1>6. PICK a, n, g : a = asked /\ n = frames /\ g = lost + Framed
  OBVIOUS
<1>7. /\ g \in Nat /\ lost \in Nat /\ Framed \in Nat /\ Given \in Nat
      /\ HowMany(c, {"frame"}) \in Nat
  <2>1. /\ lost \in Nat /\ Framed \in Nat /\ Given \in Nat
        /\ Relaying!Item("frame", 1) \in RelayItems /\ 0 \in Nat
    BY HeadOfLine DEF Relaying!Item, RelayItems
  <2>2. HowMany(c, {"frame"}) \in Nat
    BY ONLY <2>1, OneMore, c \in Seq(RelayItems)
  <2> QED
    BY <1>6, <2>1, <2>2
<1>8. /\ (Calm(Line))' <=> Calm(m)
      /\ (Due(Line, asked, frames))' <=> Due(m, a, n)
      /\ \A f : f = (lost + Framed)' => ((Following(Line, lost + Framed, frames))' <=> Following(m, f, n))
  BY <1>4, <1>6
<1>9. k # 1 => relayPc = "await"
  BY DEF Drops
<1>10. k = 1 => lost' = lost
  <2>1. k = 1 => HowMany(c, {"frame"}) = 0
    <3> SUFFICES ASSUME k = 1 PROVE HowMany(c, {"frame"}) = 0
      OBVIOUS
    <3>1. Len(c) = 0
      BY <1>3, <1>5
    <3>2. DOMAIN c = {}
      BY <3>1
    <3> QED
      BY <3>2, NoFrames
  <2> QED
    BY <1>5, <1>7, <2>1
<1>11. CASE Following(l, g, n) /\ relayPc = "tunnel"
  <2>1. relayPc = "tunnel" /\ requests = <<>> /\ todo = <<>> /\ k = 1 /\ j = 1
        /\ ((SwitchedIn(got) /\ asked = Given) \/ (~SwitchedIn(got) /\ asked = Given + 1))
    <3>1. 1 \in 1..Len(l) /\ l[1].what = "frame"
      <4>1. 1 \in 1..Len(l)
        BY <1>2
      <4>2. l[1] = Relaying!Item("frame", g + 1)
        BY <1>11, <4>1 DEF Following
      <4> QED
        BY <4>1, <4>2 DEF Relaying!Item
    <3>2. ~Calm(Line) /\ ~Due(Line, asked, frames)
      BY <1>2, <3>1 DEF Calm, Due
    <3> QED
      BY <1>3, <1>9, <1>11, <3>2 DEF RelayInv, Live, Waiting
  <2>2. l[1] = Relaying!Item("frame", g + 1) /\ Following(m, g + 1, n)
    <3>1. PICK y \in 0..Len(l) : y = 1
      BY <1>2
    <3>2. Len(m) = Len(l) - y /\ \A i \in 1..Len(m) : m[i] = l[i + y]
      BY <1>4, <2>1, <3>1
    <3>3. y = 1 /\ Following(l, g, n) =>
              l[1] = Relaying!Item("frame", g + 1) /\ Following(m, g + 1, n)
      BY ONLY <3>2, <1>7, LessLine
    <3> QED
      BY <1>11, <3>1, <3>3
  <2>3. Head(buf).what = "frame" /\ "frame" \notin Relaying!Answer
    BY <1>2, <2>2 DEF Relaying!Item, Relaying!Answer
  <2>4. (lost + Framed)' = g + 1 /\ Given' = Given /\ (SwitchedIn(got)' <=> SwitchedIn(got))
    BY <1>1, <1>6, <1>7, <1>10, <2>1, <2>3
  <2> QED
    BY <1>8, <1>10, <2>1, <2>2, <2>4 DEF Live
<1>12. CASE Calm(l)
  <2>1. l[1].what = "interim" /\ l[1].what \notin Relaying!Answer
    BY <1>2, <1>12 DEF Calm, Relaying!Answer
  <2>2. Calm(m) /\ lost' = lost
    <3>1. PICK y \in 0..Len(l) : y = j
      OBVIOUS
    <3>2. Len(m) = Len(l) - y /\ \A i \in 1..Len(m) : m[i] = l[i + y]
      BY <1>4, <3>1
    <3>3. Calm(m)
      BY ONLY <1>12, <3>2, LessLine, 0 \in Nat
    <3>4. ASSUME NEW i \in DOMAIN c PROVE c[i].what # "frame"
      <4>1. i \in 1..Len(c) /\ i + 1 \in 1..Len(l)
        BY <1>3, <1>5
      <4> QED
        BY <1>5, <1>12, <4>1 DEF Calm
    <3>5. HowMany(c, {"frame"}) = 0
      BY <3>4, NoFrames
    <3> QED
      BY <1>5, <1>7, <3>3, <3>5
  <2>3. Given' = Given /\ Framed' = Framed /\ (SwitchedIn(got)' <=> SwitchedIn(got))
    BY <1>1, <1>2, <2>1
  <2>4. ~Following(l, g, n)
    <3>1. 1 \in 1..Len(l)
      BY <1>2
    <3>2. Relaying!Item("frame", g + 1).what = "frame"
      BY DEF Relaying!Item
    <3> QED
      BY <2>1, <3>1, <3>2 DEF Following
  <2>5. /\ ~SwitchedIn(got) /\ Framed = 0 /\ lost = 0
        /\ \/ asked = Given /\ requests = <<>> /\ todo = <<>>
           \/ /\ asked = Given + 1
              /\ \/ Unread /\ todo = <<>>
                 \/ requests = <<>> /\ Begun
                 \/ requests = <<>> /\ todo = <<>>
    BY <1>2, <1>6, <2>4 DEF RelayInv, Live, Waiting
  <2>6. (Unread <=> Unread') /\ (Begun <=> Begun') /\ relayPc' # "send"
    BY DEF Unread, Begun
  <2> QED
    BY <1>8, <2>2, <2>3, <2>5, <2>6 DEF Live, Waiting
<1>13. CASE ~Calm(l) /\ ~(Following(l, g, n) /\ relayPc = "tunnel")
  <2>1. /\ requests = <<>> /\ todo = <<>> /\ asked = Given + 1 /\ Framed = 0 /\ lost = 0
        /\ Due(l, a, n) /\ ~SwitchedIn(got)
    BY <1>2, <1>6, <1>13 DEF RelayInv, Live, Waiting
  <2>2. PICK h \in Nat : h = HowMany(c, {"frame"}) /\ lost' = h
    BY <1>5, <1>7, <2>1
  <2>3. \/ l[1].what = "interim" /\ (Calm(m) \/ Due(m, a, n)) /\ h = 0
        \/ l[1].what \in {"final", "last"} /\ l[1].id = a /\ Calm(m) /\ h = 0
        \/ l[1].what = "switch" /\ l[1].id = a /\ Following(m, h, n)
        \/ l[1].what = "interim" /\ j # 1 /\ Following(m, h, n)
    <3>1. \/ /\ l[1].what = "interim" /\ (Calm(m) \/ Due(m, a, n))
             /\ HowMany(c, {"frame"}) = 0
          \/ /\ l[1].what \in {"final", "last"} /\ l[1].id = a /\ Calm(m)
             /\ HowMany(c, {"frame"}) = 0
          \/ /\ l[1].what = "switch" /\ l[1].id = a
             /\ Following(m, HowMany(c, {"frame"}), n)
          \/ /\ l[1].what = "interim" /\ Len(c) # 0
             /\ Following(m, HowMany(c, {"frame"}), n)
      <4>1. /\ Len(l) = (Len(c) + 1) + Len(m)
            /\ \A i \in 1..Len(m) : m[i] = l[i + (Len(c) + 1)]
        <5>1. j = Len(c) + 1 /\ Len(l) = j + Len(m)
          BY <1>2, <1>3, <1>4, <1>5
        <5> QED
          BY <1>4, <5>1
      <4> QED
        BY ONLY <1>5, <2>1, <4>1, LessDue, l \in Seq(RelayItems), m \in Seq(RelayItems),
           c \in Seq(RelayItems)
    <3>2. Len(c) # 0 => j # 1
      BY <1>3, <1>5
    <3> QED
      BY ONLY <2>2, <3>1, <3>2
  <2>4. Head(buf).what # "frame"
    BY <1>2, <2>3
  <2>5. CASE l[1].what = "interim" /\ (Calm(m) \/ Due(m, a, n)) /\ h = 0
    <3>1. Given' = Given /\ Framed' = Framed /\ ~SwitchedIn(got)'
      BY <1>1, <1>2, <2>1, <2>5 DEF Relaying!Answer
    <3> QED
      BY <1>8, <2>1, <2>2, <2>4, <2>5, <3>1 DEF Live, Waiting
  <2>6. CASE l[1].what \in {"final", "last"} /\ Calm(m) /\ h = 0
    <3>1. Given' = Given + 1 /\ Framed' = Framed /\ ~SwitchedIn(got)'
      BY <1>1, <1>2, <2>1, <2>6 DEF Relaying!Answer
    <3> QED
      BY <1>8, <2>1, <2>2, <2>4, <2>6, <3>1 DEF Live
  <2>7. CASE l[1].what = "switch" /\ Following(m, h, n)
    <3>1. Given' = Given + 1 /\ (lost + Framed)' = h /\ SwitchedIn(got)' /\ relayPc' = "tunnel"
      BY <1>1, <1>2, <2>1, <2>2, <2>7 DEF Relaying!Answer
    <3> QED
      BY <1>8, <2>1, <2>4, <2>7, <3>1 DEF Live
  <2>8. CASE l[1].what = "interim" /\ Following(m, h, n)
    <3>1. Given' = Given /\ (lost + Framed)' = h /\ ~SwitchedIn(got)'
      BY <1>1, <1>2, <2>1, <2>2, <2>8 DEF Relaying!Answer
    <3> QED
      BY <1>8, <2>1, <2>4, <2>8, <3>1 DEF Live
  <2> QED
    BY <2>3, <2>5, <2>6, <2>7, <2>8
<1> QED
  BY <1>11, <1>12, <1>13

(* Interim responses that are passed over.                                 *)
LEMMA RelaySkip ==
    ASSUME RelayInv, Relaying!Skip PROVE RelayInv'
<1>1. /\ relayPc = "await" /\ buf # <<>> /\ Head(buf).what = "interim" /\ buf' = Tail(buf)
      /\ UNCHANGED <<case, relayPc, cur, asked, requests, link, todo, down, frames, got, here, lost>>
  BY DEF Relaying!Skip
<1>2. Drops(1)
  BY <1>1 DEF Drops
<1>3. RelayTypes'
  BY <1>1, <1>2, LineShortens DEF RelayInv, RelayTypes
<1>4. PICK l \in Seq(RelayItems) : l = Line /\ Head(buf) = l[1] /\ Len(l) \in Nat \ {0}
  BY <1>1, HeadOfLine, RelayFacts DEF RelayInv
<1>5. PICK m \in Seq(RelayItems) :
        m = Line' /\ Len(m) = Len(l) - 1 /\ \A i \in 1..Len(m) : m[i] = l[i + 1]
  BY <1>1, <1>2, <1>4, LineShortens
<1>6. PICK a, n : a = asked /\ n = frames
  OBVIOUS
<1>7. Calm(l) => Calm(m)
  <2>1. PICK y \in 0..Len(l) : y = 1
    BY <1>4
  <2>2. Len(m) = Len(l) - y /\ \A i \in 1..Len(m) : m[i] = l[i + y]
    BY <1>5, <2>1
  <2> QED
    BY ONLY <2>2, LessLine, 0 \in Nat
<1>8. Due(l, a, n) => Calm(m) \/ Due(m, a, n)
  <2> SUFFICES ASSUME Due(l, a, n) PROVE Calm(m) \/ Due(m, a, n)
    OBVIOUS
  <2>1. PICK c \in Seq(RelayItems) : Len(c) = 0 /\ \A i \in 1..Len(c) : c[i] = l[i + 1]
    <3>1. <<>> \in Seq(RelayItems) /\ Len(<<>>) = 0 /\ \A i \in 1..0 : <<>>[i] = l[i + 1]
      OBVIOUS
    <3> QED
      BY <3>1
  <2>2. /\ Len(l) = (Len(c) + 1) + Len(m)
        /\ \A i \in 1..Len(m) : m[i] = l[i + (Len(c) + 1)]
    <3>1. Len(c) + 1 = 1 /\ Len(l) = 1 + Len(m)
      BY <1>4, <1>5, <2>1
    <3> QED
      BY <1>5, <3>1
  <2>3. \/ l[1].what = "interim" /\ (Calm(m) \/ Due(m, a, n)) /\ HowMany(c, {"frame"}) = 0
        \/ l[1].what \in {"final", "last"} /\ l[1].id = a /\ Calm(m) /\ HowMany(c, {"frame"}) = 0
        \/ l[1].what = "switch" /\ l[1].id = a /\ Following(m, HowMany(c, {"frame"}), n)
        \/ l[1].what = "interim" /\ Len(c) # 0 /\ Following(m, HowMany(c, {"frame"}), n)
    BY ONLY <2>1, <2>2, LessDue, Due(l, a, n), l \in Seq(RelayItems), m \in Seq(RelayItems)
  <2> QED
    BY <1>1, <1>4, <2>1, <2>3
<1>9. /\ (Calm(Line))' <=> Calm(m)
      /\ (Due(Line, asked, frames))' <=> Due(m, a, n)
      /\ Calm(Line) <=> Calm(l)
      /\ Due(Line, asked, frames) <=> Due(l, a, n)
  BY <1>1, <1>4, <1>5, <1>6
<1>10. here => Live'
  BY <1>1, <1>7, <1>8, <1>9 DEF RelayInv, Live, Waiting, Unread, Begun, Given, Framed
<1> QED
  BY <1>1, <1>3, <1>10 DEF RelayInv, Matched, KindsIn, Relaying!Place, Relaying!mode

(* A response or a frame, and the handler goes on.                         *)
LEMMA RelayGives ==
    ASSUME RelayInv, buf # <<>>, relayPc \in {"await", "tunnel"},
           NEW k, Drops(k), Relaying!Give(Head(buf)),
           relayPc' \in {"read", "tunnel"}, relayPc = "tunnel" => relayPc' = "tunnel",
           Head(buf).what = "switch" => relayPc' = "tunnel",
           UNCHANGED <<case, cur, asked, requests, link, todo, frames, here>>
    PROVE  RelayInv'
<1>1. got' = IF here THEN Append(got, Head(buf)) ELSE got
  BY DEF Relaying!Give
<1>2. CASE here
  <2>1. PICK item \in RelayItems : item = Head(buf)
    BY HeadOfLine
  <2>2. Live' /\ ((lost' = lost) \/ (Framed = 0 /\ Head(buf).what # "frame"))
    BY <1>1, <1>2, HeadGoes
  <2>3. /\ Matched(got, Relaying!Answer, 0)' /\ Matched(got, {"frame"}, lost)'
        /\ got' \in Seq(RelayItems)
    BY <1>1, <1>2, <2>1, <2>2, HeadIsDue, Handed
  <2>4. Relaying!mode.keeps => lost' = 0
    BY DEF RelayInv, Drops
  <2>5. lost' \in 0..MaxFrames
    <3>1. CASE lost' = lost
      BY <3>1 DEF RelayInv, RelayTypes
    <3>2. CASE lost' = 0
      BY <3>2, RelayFacts DEF RelayInv
    <3>3. CASE (Following(Line, lost + Framed, frames))' /\ lost' # lost
      <4>1. /\ lost \in Nat /\ Framed \in Nat /\ Line' \in Seq(RelayItems)
            /\ frames \in -1..MaxFrames /\ MaxFrames \in Nat
        BY HeadOfLine, LineShortens, RelayFacts DEF RelayInv, RelayTypes
      <4>2. Framed' = 0 /\ Framed = 0
        BY <1>1, <1>2, <2>1, <2>2, <3>3, HeadIsDue, Handed
      <4>3. lost' \in Nat
        <5>1. PICK c \in Seq(RelayItems) : lost' = lost + HowMany(c, {"frame"})
          BY <1>2, LineShortens
        <5>2. HowMany(c, {"frame"}) \in Nat
          <6>1. item \in RelayItems /\ 0 \in Nat
            BY <2>1
          <6> QED
            BY <6>1, OneMore
        <5> QED
          BY <4>1, <5>1, <5>2
      <4>4. PICK m \in Seq(RelayItems), z \in Nat, x \in -1..MaxFrames :
              m = Line' /\ z = lost' /\ x = frames
        BY <4>1, <4>3
      <4>5. x = z + Len(m) /\ Len(m) \in Nat
        <5>1. frames' = (lost' + Framed') + Len(Line') /\ frames' = frames
          BY <3>3 DEF Following
        <5> QED
          BY <4>2, <4>4, <5>1
      <4> QED
        BY <4>1, <4>4, <4>5
    <3> QED
      BY <2>2, <3>1, <3>2, <3>3 DEF Live
  <2>6. RelayTypes'
    BY <2>3, <2>5, LineShortens DEF RelayInv, RelayTypes
  <2> QED
    BY <2>2, <2>3, <2>4, <2>6 DEF RelayInv, Relaying!mode
<1>3. CASE ~here
  <2>1. RelayTypes' /\ here' = FALSE /\ UNCHANGED <<got, lost>>
    BY <1>1, <1>3, LineShortens DEF RelayInv, RelayTypes, Drops
  <2> QED
    BY <2>1, GoneForGood
<1> QED
  BY <1>2, <1>3

(* The last response, or the error, and the handler returns.               *)
LEMMA LastWords ==
    ASSUME RelayInv, NEW item \in RelayItems, here => HeadFits(got, item),
           got' \in {got, IF here THEN Append(got, item) ELSE got}, Relaying!Leave
    PROVE  RelayInv'
<1>1. CASE got' = got
  BY <1>1, RelayLeaves
<1>2. CASE here /\ got' = Append(got, item)
  <2>1. lost' = lost /\ case' = case
    BY DEF Relaying!Leave
  <2>2. /\ Matched(got, Relaying!Answer, 0)' /\ Matched(got, {"frame"}, lost)'
        /\ got' \in Seq(RelayItems)
    BY <1>2, <2>1, Handed
  <2>3. RelayTypes' /\ here' = FALSE
    BY <2>2 DEF RelayInv, Relaying!Leave, RelayTypes
  <2> QED
    BY <2>1, <2>2, <2>3 DEF RelayInv, Relaying!mode
<1> QED
  BY <1>1, <1>2

LEMMA RelayFails ==
    ASSUME RelayInv, Relaying!Fail PROVE RelayInv'
<1>1. relayPc = "send" /\ Relaying!Leave
      /\ got' \in {got, IF here THEN Append(got, Relaying!Item("error", cur.id)) ELSE got}
  BY DEF Relaying!Fail
<1>2. cur \in Relaying!Requests
  BY <1>1 DEF RelayInv, RelayTypes
<1>3. cur.id \in Nat
  <2>1. cur.id \in 1..MaxRequests
    BY <1>2 DEF Relaying!Requests
  <2> QED
    BY ONLY <2>1
<1>4. PICK item \in RelayItems : item = Relaying!Item("error", cur.id)
  BY <1>3 DEF RelayItems, Relaying!Item
<1>5. here => HeadFits(got, item)
  <2>1. here => cur.id = asked /\ asked = Given + 1
    BY <1>1 DEF RelayInv, Live, Waiting
  <2> QED
    BY <1>4, <2>1 DEF HeadFits, Given, Relaying!Item, Relaying!Answer
<1> QED
  BY <1>1, <1>4, <1>5, LastWords

LEMMA RelayResponds ==
    ASSUME RelayInv, Relaying!Respond PROVE RelayInv'
<1>1. relayPc = "await" /\ buf # <<>> /\ Relaying!Give(Head(buf))
  BY DEF Relaying!Respond
<1>2. PICK item \in RelayItems : item = Head(buf)
  BY <1>1, HeadOfLine
<1>3. CASE Relaying!Leave
  <2>1. got' \in {got, IF here THEN Append(got, item) ELSE got}
    BY <1>1, <1>2 DEF Relaying!Give
  <2>2. here => HeadFits(got, item)
    BY <1>1, <1>2, HeadIsDue
  <2> QED
    BY <1>3, <2>1, <2>2, LastWords
<1>4. CASE ~Relaying!Leave
  <2>1. /\ relayPc' \in {"read", "tunnel"}
        /\ Head(buf).what = "switch" => relayPc' = "tunnel"
        /\ buf' = IF Relaying!mode.keeps THEN Tail(buf) ELSE <<>>
        /\ lost' = IF Relaying!mode.keeps \/ ~here THEN lost
                   ELSE lost + Relaying!FramesIn(Tail(buf))
        /\ UNCHANGED <<case, cur, asked, requests, link, todo, down, frames, here>>
    BY <1>4 DEF Relaying!Respond
  <2>2. PICK k : Drops(k)
    <3>1. Relaying!FramesIn(Tail(buf)) = HowMany(Tail(buf), {"frame"})
      <4>1. {i \in DOMAIN Tail(buf) : Tail(buf)[i].what = "frame"} = KindsIn(Tail(buf), {"frame"})
        BY DEF KindsIn
      <4> QED
        BY <4>1, SameCardinality DEF Relaying!FramesIn, HowMany
    <3> QED
      BY <1>1, <2>1, <3>1 DEF Drops
  <2> QED
    BY <1>1, <2>1, <2>2, RelayGives
<1> QED
  BY <1>3, <1>4

LEMMA RelayFrame ==
    ASSUME RelayInv, Relaying!Frame PROVE RelayInv'
<1>1. /\ relayPc = "tunnel" /\ buf # <<>> /\ Relaying!Give(Head(buf)) /\ buf' = Tail(buf)
      /\ UNCHANGED <<case, relayPc, cur, asked, requests, link, todo, down, frames, here, lost>>
  BY DEF Relaying!Frame
<1>2. Drops(1)
  BY <1>1 DEF Drops
<1> QED
  BY <1>1, <1>2, RelayGives

LEMMA RelayNext == RelayInv /\ [Relaying!Next]_relayVars => RelayInv'
<1> SUFFICES ASSUME RelayInv, [Relaying!Next]_relayVars PROVE RelayInv'
  OBVIOUS
<1>1. CASE \/ Relaying!ClientSends \/ Relaying!ClientLeaves
           \/ Relaying!ServerInterim \/ Relaying!ServerAnswers \/ Relaying!ServerFrame
  BY <1>1, RelayClientSends, RelayClientLeaves, RelayInterim, RelayAnswers, RelayFrames
<1>2. CASE \/ Relaying!ServerCloses \/ Relaying!ReadRequest \/ Relaying!Fetch \/ Relaying!TunnelUp
  BY <1>2, RelayRests
<1>3. CASE Relaying!ClientGone \/ Relaying!TunnelEnds
  BY <1>3, RelayLeaves DEF Relaying!ClientGone, Relaying!TunnelEnds
<1>4. CASE \/ Relaying!Send \/ Relaying!Fail \/ Relaying!Skip \/ Relaying!Respond
           \/ Relaying!Frame
  BY <1>4, RelaySend, RelayFails, RelaySkip, RelayResponds, RelayFrame
<1>5. CASE UNCHANGED relayVars
  BY <1>5 DEF relayVars, RelayInv, RelayTypes, Matched, KindsIn, Relaying!Place, Live, Waiting,
     Unread, Begun, Line, Given, Framed, Relaying!mode
<1> QED
  BY <1>1, <1>2, <1>3, <1>4, <1>5 DEF Relaying!Next, Relaying!Handle

LEMMA RelayInvIsRight == RelayInv => Relaying!TypeOK /\ Relaying!AnswersMatch
<1> SUFFICES ASSUME RelayInv PROVE Relaying!TypeOK /\ Relaying!AnswersMatch
  OBVIOUS
<1>1. Relaying!TypeOK
  BY DEF RelayInv, RelayTypes, Relaying!TypeOK
<1>2. /\ Relaying!Answers = KindsIn(got, Relaying!Answer)
      /\ Relaying!Frames = KindsIn(got, {"frame"})
  BY DEF Relaying!Answers, Relaying!Frames, KindsIn
<1>3. \A i \in Relaying!Answers : 0 + Relaying!Place(Relaying!Answers, i) = Relaying!Place(Relaying!Answers, i)
  <2> SUFFICES ASSUME NEW i \in Relaying!Answers
               PROVE  Relaying!Place(Relaying!Answers, i) \in Nat
    OBVIOUS
  <2>1. Relaying!Answers \subseteq 1..Len(got) /\ IsFiniteSet(1..Len(got))
    <3>1. 1 \in Int /\ Len(got) \in Int /\ DOMAIN got = 1..Len(got)
      BY DEF RelayInv, RelayTypes
    <3>2. IsFiniteSet(1..Len(got))
      BY ONLY <3>1, FS_Interval
    <3> QED
      BY <1>2, <3>1, <3>2 DEF KindsIn
  <2>2. IsFiniteSet({j \in Relaying!Answers : j <= i})
    BY <2>1, FS_Subset
  <2> QED
    BY <2>2, FS_CardinalityType, SameCardinality DEF Relaying!Place
<1> QED
  BY <1>1, <1>2, <1>3 DEF RelayInv, Matched, Relaying!AnswersMatch

LEMMA LeastNumber ==
    ASSUME NEW T, T \subseteq Nat, T # {}
    PROVE  \E x \in T : \A y \in T : x <= y
<1>1. PICK R : R = OpToRel(<, Nat)
  OBVIOUS
<1>2. IsWellFoundedOn(R, Nat)
  BY <1>1, NatLessThanWellFounded
<1>3. \A x, y \in Nat : <<y, x>> \in R <=> y < x
  BY <1>1 DEF OpToRel
<1>4. PICK x \in T : \A y \in T : ~(<<y, x>> \in R)
  BY ONLY <1>2, WFMin, T \subseteq Nat, T # {}
<1>5. \A y \in T : ~(y < x)
  BY <1>3, <1>4
<1> QED
  BY <1>5

-----------------------------------------------------------------------------
(* Tables.  The names under which a host is looked up are the patterns that*)
(* cover it, the most specific one first.                                  *)
Patterns == [dot : BOOLEAN, labels : Seq(STRING)]

TailFrom(h, k) == SubSeq(h, k, Len(h))

LEMMA TableIsSeq ==
    ASSUME NEW S, NEW m \in Nat, NEW f \in [1..m -> S]
    PROVE  f \in Seq(S) /\ Len(f) = m
OBVIOUS

LEMMA TailOfHost ==
    ASSUME NEW h \in Seq(STRING), NEW k \in 0..Len(h)
    PROVE  /\ TailFrom(h, k + 1) \in Seq(STRING)
           /\ Len(TailFrom(h, k + 1)) = Len(h) - k
           /\ k = 0 => TailFrom(h, k + 1) = h
<1>1. Len(h) \in Nat
  OBVIOUS
<1>2. \A i \in k + 1..Len(h) : h[i] \in STRING
  BY <1>1
<1>3. k + 1 \in 1..Len(h) + 1 /\ Len(h) \in (k + 1) - 1..Len(h)
  BY <1>1
<1>4. /\ SubSeq(h, k + 1, Len(h)) \in Seq(STRING)
      /\ Len(SubSeq(h, k + 1, Len(h))) = Len(h) - k
      /\ \A i \in 1..Len(h) - k : SubSeq(h, k + 1, Len(h))[i] = h[k + i]
  BY <1>1, <1>2, <1>3, SubSeqProperties
<1>5. k = 0 => SubSeq(h, k + 1, Len(h)) = h
  <2> SUFFICES ASSUME k = 0 PROVE SubSeq(h, k + 1, Len(h)) = h
    OBVIOUS
  <2>1. PICK s : s = SubSeq(h, k + 1, Len(h))
    OBVIOUS
  <2>2. s \in Seq(STRING) /\ Len(s) = Len(h) /\ \A i \in 1..Len(h) : s[i] = h[i]
    BY <1>1, <1>4, <2>1
  <2> QED
    BY <2>1, <2>2, SeqEqual
<1> QED
  BY <1>4, <1>5 DEF TailFrom

LEMMA NamesOfHost ==
    ASSUME NEW h \in Seq(STRING), h # <<>>
    PROVE  LET names == Tables!Candidates(h)
               n == Len(h) IN
           /\ n \in Nat \ {0} /\ DOMAIN names = 1..n + 1 /\ Len(names) = n + 1
           /\ names[1] = Tables!Plain(h) /\ names[2] = Tables!Dotted(h)
           /\ \A i \in 3..n + 1 : names[i] = Tables!Dotted(TailFrom(h, i - 1))
<1> DEFINE n == Len(h)
<1>1. n \in Nat \ {0}
  BY EmptySeq
<1>2. PICK tails \in Seq(Patterns) :
        /\ tails = [i \in 1..(n - 1) |-> Tables!Dotted(SubSeq(h, i + 1, n))]
        /\ Len(tails) = n - 1
  <2>1. ASSUME NEW i \in 1..(n - 1) PROVE Tables!Dotted(SubSeq(h, i + 1, n)) \in Patterns
    <3>1. TailFrom(h, i + 1) \in Seq(STRING)
      <4>1. i \in 0..Len(h)
        BY <1>1
      <4> QED
        BY <4>1, TailOfHost
    <3> QED
      BY <3>1 DEF Tables!Dotted, Patterns, TailFrom
  <2>2. PICK f : f = [i \in 1..(n - 1) |-> Tables!Dotted(SubSeq(h, i + 1, n))]
    OBVIOUS
  <2>3. f \in [1..(n - 1) -> Patterns]
    BY <2>1, <2>2
  <2>4. n - 1 \in Nat
    BY <1>1
  <2>5. f \in Seq(Patterns) /\ Len(f) = n - 1
    BY ONLY <2>3, <2>4, TableIsSeq
  <2> QED
    BY <2>2, <2>5
<1>3. PICK front \in Seq(Patterns) :
        /\ front = <<Tables!Plain(h), Tables!Dotted(h)>> /\ Len(front) = 2
        /\ front[1] = Tables!Plain(h) /\ front[2] = Tables!Dotted(h)
  <2>1. PICK a \in Patterns, b \in Patterns : a = Tables!Plain(h) /\ b = Tables!Dotted(h)
    BY DEF Tables!Plain, Tables!Dotted, Patterns
  <2>2. <<a, b>> \in Seq(Patterns) /\ Len(<<a, b>>) = 2 /\ <<a, b>>[1] = a /\ <<a, b>>[2] = b
    OBVIOUS
  <2> QED
    BY <2>1, <2>2
<1>4. Tables!Candidates(h) = Cat(front, tails)
  BY <1>2, <1>3 DEF Tables!Candidates, Cat
<1>5. \A i \in 1..n - 1 : tails[i] = Tables!Dotted(TailFrom(h, i + 1))
  BY <1>2 DEF TailFrom
<1>6. /\ Cat(front, tails) \in Seq(Patterns) /\ Len(Cat(front, tails)) = 2 + (n - 1)
      /\ \A i \in 1..2 + (n - 1) : Cat(front, tails)[i] = IF i <= 2 THEN front[i] ELSE tails[i - 2]
  <2>1. /\ Cat(front, tails) \in Seq(Patterns)
        /\ Len(Cat(front, tails)) = Len(front) + Len(tails)
        /\ \A i \in 1..Len(front) + Len(tails) :
              Cat(front, tails)[i] = IF i <= Len(front) THEN front[i] ELSE tails[i - Len(front)]
    BY CatFacts
  <2>2. Len(front) = 2 /\ Len(tails) = n - 1
    BY <1>2, <1>3
  <2> QED
    BY ONLY <2>1, <2>2
<1>7. DOMAIN Cat(front, tails) = 1..n + 1 /\ Len(Cat(front, tails)) = n + 1
  BY <1>1, <1>6
<1>8. Cat(front, tails)[1] = front[1] /\ Cat(front, tails)[2] = front[2]
  BY <1>1, <1>6
<1>9. ASSUME NEW i \in 3..n + 1
      PROVE  Cat(front, tails)[i] = Tables!Dotted(TailFrom(h, i - 1))
  <2>1. /\ i \in 1..2 + (n - 1) /\ ~(i <= 2) /\ i - 2 \in 1..n - 1 /\ (i - 2) + 1 = i - 1
    BY <1>1
  <2> QED
    BY <1>5, <1>6, <2>1
<1> QED
  BY <1>1, <1>3, <1>4, <1>7, <1>8, <1>9

(* How long a name is, and that it covers the host.                        *)
LEMMA NamesCover ==
    ASSUME NEW h \in Seq(STRING), h # <<>>, NEW i \in DOMAIN Tables!Candidates(h)
    PROVE  LET k == Tables!Candidates(h)[i] IN
           /\ k \in Patterns /\ k.labels # <<>> /\ Tables!Covers(k, h)
           /\ Len(k.labels) = IF i = 1 THEN Len(h) ELSE Len(h) + 2 - i
           /\ k.dot <=> i # 1
<1>1. /\ Len(h) \in Nat \ {0} /\ i \in 1..Len(h) + 1
      /\ i = 1 => Tables!Candidates(h)[i] = Tables!Plain(h)
      /\ i = 2 => Tables!Candidates(h)[i] = Tables!Dotted(h)
      /\ i > 2 => Tables!Candidates(h)[i] = Tables!Dotted(TailFrom(h, i - 1))
  BY NamesOfHost
<1>2. CASE i = 1
  <2>1. /\ Tables!Plain(h).labels = h /\ Tables!Plain(h).dot = FALSE
        /\ Tables!Plain(h) \in Patterns /\ Tables!Covers(Tables!Plain(h), h)
    BY DEF Tables!Plain, Patterns, Tables!Covers
  <2> QED
    BY <1>1, <1>2, <2>1
<1>3. CASE i > 1
  <2>1. i - 2 \in 0..Len(h) /\ (i - 2) + 1 = i - 1 /\ Len(h) - (i - 2) = Len(h) + 2 - i
    BY <1>1, <1>3
  <2>2. PICK s : s = TailFrom(h, (i - 2) + 1)
    OBVIOUS
  <2>3. s = TailFrom(h, i - 1)
    BY <2>1, <2>2
  <2>31. s \in Seq(STRING) /\ Len(s) = Len(h) - (i - 2)
    BY <2>1, <2>2, TailOfHost
  <2>32. i = 2 => s = h
    BY <2>1, <2>2, TailOfHost
  <2>4. Tables!Candidates(h)[i] = Tables!Dotted(s)
    BY <1>1, <1>3, <2>3, <2>32
  <2>5. Tables!IsTail(s, h)
    BY <2>1, <2>2 DEF Tables!IsTail, TailFrom
  <2>6. s # <<>>
    BY <1>1, <2>1, <2>31
  <2>7. /\ Tables!Dotted(s).labels = s /\ Tables!Dotted(s).dot = TRUE
        /\ Tables!Dotted(s) \in Patterns
    BY <2>31 DEF Tables!Dotted, Patterns
  <2> QED
    BY <1>3, <2>1, <2>31, <2>4, <2>5, <2>6, <2>7 DEF Tables!Covers
<1> QED
  BY <1>1, <1>2, <1>3

LEMMA CoveredByName ==
    ASSUME NEW h \in Seq(STRING), h # <<>>, NEW k \in Patterns, k.labels # <<>>,
           Tables!Covers(k, h)
    PROVE  \E i \in DOMAIN Tables!Candidates(h) : Tables!Candidates(h)[i] = k
<1>1. /\ Len(h) \in Nat \ {0} /\ DOMAIN Tables!Candidates(h) = 1..Len(h) + 1
      /\ Tables!Candidates(h)[1] = Tables!Plain(h)
      /\ Tables!Candidates(h)[2] = Tables!Dotted(h)
      /\ \A i \in 3..Len(h) + 1 :
            Tables!Candidates(h)[i] = Tables!Dotted(TailFrom(h, i - 1))
  BY NamesOfHost
<1>2. k = [dot |-> k.dot, labels |-> k.labels] /\ k.dot \in BOOLEAN
  BY DEF Patterns
<1>3. CASE k.dot = FALSE
  <2>1. k = Tables!Plain(h)
    BY <1>2, <1>3 DEF Tables!Covers, Tables!Plain
  <2> QED
    BY <1>1, <2>1
<1>4. CASE k.dot = TRUE
  <2>1. PICK j \in 0..Len(h) : k.labels = TailFrom(h, j + 1)
    BY <1>4 DEF Tables!Covers, Tables!IsTail, TailFrom
  <2>2. Len(k.labels) = Len(h) - j /\ k.labels \in Seq(STRING) /\ (j = 0 => k.labels = h)
    BY <2>1, TailOfHost
  <2>3. j # Len(h)
    BY <1>1, <2>2, EmptySeq
  <2>4. k = Tables!Dotted(k.labels)
    BY <1>2, <1>4 DEF Tables!Dotted
  <2>5. CASE j = 0
    BY <1>1, <2>2, <2>4, <2>5
  <2>6. CASE j > 0
    <3>1. j + 2 \in 3..Len(h) + 1 /\ (j + 2) - 1 = j + 1
      BY <1>1, <2>3, <2>6
    <3>2. TailFrom(h, (j + 2) - 1) = k.labels
      BY <2>1, <3>1
    <3>3. Tables!Candidates(h)[j + 2] = Tables!Dotted(TailFrom(h, (j + 2) - 1))
      BY <1>1, <3>1
    <3> QED
      BY <1>1, <2>4, <3>1, <3>2, <3>3
  <2> QED
    BY <2>5, <2>6
<1> QED
  BY <1>2, <1>3, <1>4

LEMMA FirstIsMostSpecific ==
    ASSUME NEW t, DOMAIN t \subseteq Patterns, NEW h \in Seq(STRING), h # <<>>
    PROVE  Tables!First(t, Tables!Candidates(h)) = Tables!MostSpecific(t, h)
<1>1. PICK names : names = Tables!Candidates(h)
  OBVIOUS
<1>2. DOMAIN names \subseteq Nat
  BY <1>1, NamesOfHost
<1> DEFINE known == {i \in DOMAIN names : names[i] \in DOMAIN t}
           covering == {k \in DOMAIN t : k.labels # <<>> /\ Tables!Covers(k, h)}
<1>3. /\ \A i \in known : names[i] \in covering
      /\ \A k \in covering : \E i \in known : names[i] = k
  <2>1. \A i \in known : names[i] \in covering
    BY <1>1, NamesCover
  <2>2. ASSUME NEW k \in covering PROVE \E i \in known : names[i] = k
    <3>1. k \in Patterns /\ k.labels # <<>> /\ Tables!Covers(k, h) /\ k \in DOMAIN t
      OBVIOUS
    <3>2. PICK i \in DOMAIN names : names[i] = k
      BY <1>1, <3>1, CoveredByName
    <3> QED
      BY <3>1, <3>2
  <2> QED
    BY <2>1, <2>2
<1>4. \A i, j \in DOMAIN names : i < j =>
        Tables!MoreSpecific(names[i], names[j]) /\ ~Tables!MoreSpecific(names[j], names[i])
  <2> SUFFICES ASSUME NEW i \in DOMAIN names, NEW j \in DOMAIN names, i < j
               PROVE  /\ Tables!MoreSpecific(names[i], names[j])
                      /\ ~Tables!MoreSpecific(names[j], names[i])
    OBVIOUS
  <2>1. /\ Len(names[i].labels) = IF i = 1 THEN Len(h) ELSE Len(h) + 2 - i
        /\ names[i].dot <=> i # 1
    BY <1>1, NamesCover
  <2>2. /\ Len(names[j].labels) = IF j = 1 THEN Len(h) ELSE Len(h) + 2 - j
        /\ names[j].dot <=> j # 1
    BY <1>1, NamesCover
  <2>3. i \in Nat /\ j \in Nat /\ Len(h) \in Nat /\ i >= 1
    BY <1>1, NamesOfHost
  <2> QED
    BY <2>1, <2>2, <2>3 DEF Tables!MoreSpecific
<1>5. Tables!First(t, names) =
        IF known = {} THEN Tables!Nothing
        ELSE t[names[CHOOSE i \in known : \A j \in known : i <= j]]
  BY DEF Tables!First
<1>6. Tables!MostSpecific(t, h) =
        IF covering = {} THEN Tables!Nothing
        ELSE t[CHOOSE k \in covering : \A l \in covering : l = k \/ Tables!MoreSpecific(k, l)]
  BY DEF Tables!MostSpecific
<1> HIDE DEF known, covering
<1>7. CASE known = {}
  BY <1>1, <1>3, <1>5, <1>6, <1>7
<1>8. CASE known # {}
  <2>1. known \subseteq DOMAIN names /\ known \subseteq Nat
    BY <1>2 DEF known
  <2>2. PICK m \in known : \A j \in known : m <= j
    BY ONLY <2>1, <1>8, LeastNumber
  <2>3. (CHOOSE i \in known : \A j \in known : i <= j) = m
    BY <2>1, <2>2
  <2>4. \A i \in known : i # m => m < i
    BY <2>1, <2>2
  <2>5. \A l \in covering : l = names[m] \/ Tables!MoreSpecific(names[m], l)
    BY <1>3, <1>4, <2>1, <2>4
  <2>6. ASSUME NEW k \in covering,
               \A l \in covering : l = k \/ Tables!MoreSpecific(k, l)
        PROVE  k = names[m]
    <3>1. PICK i \in known : names[i] = k
      BY <1>3
    <3>2. names[m] = k \/ Tables!MoreSpecific(k, names[m])
      BY <1>3, <2>6
    <3> QED
      BY <1>4, <2>1, <2>4, <3>1, <3>2
  <2>7. (CHOOSE k \in covering : \A l \in covering : l = k \/ Tables!MoreSpecific(k, l))
          = names[m]
    BY <1>3, <2>5, <2>6
  <2>8. covering # {}
    BY <1>3, <2>2
  <2> QED
    BY <1>1, <1>5, <1>6, <1>8, <2>3, <2>7, <2>8
<1> QED
  BY <1>7, <1>8

-----------------------------------------------------------------------------
(* The sequences joined one after the other, and what becomes of them.     *)
Joins(g, n, L) == g[0] = <<>> /\ \A i \in 1..n : g[i] = Cat(g[i - 1], L[i])

LEMMA JoinExists ==
    ASSUME NEW S, NEW n \in Nat, NEW L \in [1..n -> Seq(S)]
    PROVE  \E g \in [0..n -> Seq(S)] : Joins(g, n, L)
<1> DEFINE Bad == {k \in 0..n : ~\E g \in [0..k -> Seq(S)] : Joins(g, k, L)}
<1>1. SUFFICES ASSUME Bad # {} PROVE FALSE
  <2>1. n \in 0..n
    OBVIOUS
  <2> QED
    BY <2>1
<1>2. Bad \subseteq Nat
  OBVIOUS
<1>3. PICK m \in Bad : \A k \in Bad : m <= k
  <2> HIDE DEF Bad
  <2> QED
    BY <1>1, <1>2, LeastNumber
<1>4. <<>> \in Seq(S)
  OBVIOUS
<1>5. m # 0
  <2>1. [i \in 0..0 |-> <<>>] \in [0..0 -> Seq(S)]
    BY <1>4
  <2>2. Joins([i \in 0..0 |-> <<>>], 0, L)
    BY DEF Joins
  <2> QED
    BY <2>1, <2>2
<1>6. m \in Nat /\ m - 1 \in 0..n /\ m \in 1..n /\ m - 1 \notin Bad
  BY <1>3, <1>5
<1>7. PICK g \in [0..m - 1 -> Seq(S)] : Joins(g, m - 1, L)
  BY <1>6
<1>8. PICK e \in Seq(S) : e = Cat(g[m - 1], L[m])
  <2>1. g[m - 1] \in Seq(S) /\ L[m] \in Seq(S)
    BY <1>6, <1>7
  <2> QED
    BY <2>1, CatFacts
<1>9. PICK h : h = [i \in 0..m |-> IF i < m THEN g[i] ELSE e]
  OBVIOUS
<1>10. h \in [0..m -> Seq(S)]
  <2>1. \A i \in 0..m : (IF i < m THEN g[i] ELSE e) \in Seq(S)
    BY <1>6, <1>7, <1>8
  <2> QED
    BY <1>9, <2>1
<1>11. Joins(h, m, L)
  <2>1. h[0] = <<>>
    BY <1>6, <1>7, <1>9 DEF Joins
  <2>2. ASSUME NEW i \in 1..m PROVE h[i] = Cat(h[i - 1], L[i])
    <3>1. h[i - 1] = g[i - 1]
      BY <1>6, <1>9
    <3>2. CASE i < m
      <4>1. i \in 1..m - 1 /\ i \in 0..m
        BY <1>6, <3>2
      <4> QED
        BY <1>7, <1>9, <3>1, <3>2, <4>1 DEF Joins
    <3>3. CASE i = m
      BY <1>6, <1>8, <1>9, <3>1, <3>3
    <3> QED
      BY <1>6, <3>2, <3>3
  <2> QED
    BY <2>1, <2>2 DEF Joins
<1> QED
  BY <1>3, <1>10, <1>11

LEMMA JoinIsSeq ==
    ASSUME NEW S, NEW n \in Nat, NEW L \in [1..n -> Seq(S)], NEW g, Joins(g, n, L)
    PROVE  g[n] \in Seq(S)
<1> DEFINE Bad == {k \in 0..n : g[k] \notin Seq(S)}
<1>1. SUFFICES ASSUME Bad # {} PROVE FALSE
  BY DEF Bad
<1>2. Bad \subseteq Nat
  OBVIOUS
<1>3. PICK m \in Bad : \A k \in Bad : m <= k
  <2> HIDE DEF Bad
  <2> QED
    BY <1>1, <1>2, LeastNumber
<1>4. m # 0
  <2>1. <<>> \in Seq(S) /\ g[m] \notin Seq(S)
    BY <1>3
  <2> QED
    BY <2>1 DEF Joins
<1>5. m - 1 \in 0..n /\ m \in 1..n /\ m - 1 \notin Bad
  BY <1>3, <1>4
<1>6. g[m - 1] \in Seq(S) /\ L[m] \in Seq(S)
  BY <1>5
<1>7. Cat(g[m - 1], L[m]) \in Seq(S)
  BY <1>6, CatFacts
<1> QED
  BY <1>3, <1>5, <1>7 DEF Joins

LEMMA LoadedIsSeq ==
    ASSUME content \in [Tables!ToSet(Sources) -> Contents \cup {Unreadable}],
           NEW i \in 1..Len(Sources)
    PROVE  Tables!Loaded(Sources[i]) \in Seq(Tables!RuleRecords)
<1>1. /\ Sources \in Seq(STRING) /\ Contents \subseteq Seq(Tables!RuleRecords)
  BY TrafficAssumption DEF Tables!ReloadAssumption
<1>2. Sources[i] \in Tables!ToSet(Sources)
  BY <1>1 DEF Tables!ToSet
<1>3. content[Sources[i]] \in Contents \cup {Unreadable}
  BY <1>2
<1> QED
  BY <1>1, <1>3 DEF Tables!Loaded, Tables!Readable

LEMMA SourcesAreSeq == Sources \in Seq(STRING) /\ Len(Sources) \in Nat
<1>1. Tables!ReloadAssumption
  BY TrafficAssumption
<1>2. Sources \in Seq(STRING)
  BY ONLY <1>1 DEF Tables!ReloadAssumption
<1> QED
  BY ONLY <1>2

LEMMA InitialLoadIsSeq ==
    ASSUME content \in [Tables!ToSet(Sources) -> Contents \cup {Unreadable}]
    PROVE  Tables!InitialLoad \in Seq(Tables!RuleRecords)
<1>1. PICK n \in Nat : n = Len(Sources)
  BY SourcesAreSeq
<1>2. PICK L \in [1..n -> Seq(Tables!RuleRecords)] : \A i \in 1..n : L[i] = Tables!Loaded(Sources[i])
  <2>1. [i \in 1..n |-> Tables!Loaded(Sources[i])] \in [1..n -> Seq(Tables!RuleRecords)]
    BY <1>1, LoadedIsSeq
  <2> QED
    BY <2>1
<1> DEFINE Longer(g) == [i \in 0..Len(Sources) |->
                         IF i = 0 THEN <<>> ELSE g[i - 1] \o Tables!Loaded(Sources[i])]
<1>3. PICK g \in [0..n -> Seq(Tables!RuleRecords)] : Joins(g, n, L)
  BY JoinExists
<1>4. g = Longer(g)
  <2>1. \A i \in 0..n : g[i] = IF i = 0 THEN <<>> ELSE g[i - 1] \o Tables!Loaded(Sources[i])
    <3> TAKE i \in 0..n
    <3>1. i # 0 => i \in 1..n
      OBVIOUS
    <3>2. i # 0 => g[i] = Cat(g[i - 1], L[i]) /\ L[i] = Tables!Loaded(Sources[i])
      BY <1>2, <1>3, <3>1 DEF Joins
    <3>3. i = 0 => g[i] = <<>>
      BY <1>3 DEF Joins
    <3> QED
      BY <3>2, <3>3 DEF Cat
  <2> QED
    BY <1>1, <1>3, <2>1
<1>5. PICK h : h = CHOOSE load : load = Longer(load)
  OBVIOUS
<1>6. h = Longer(h)
  <2> HIDE DEF Longer
  <2> QED
    BY <1>4, <1>5, Zenon
<1>7. Joins(h, n, L)
  <2>1. \A i \in 0..n : h[i] = IF i = 0 THEN <<>> ELSE h[i - 1] \o Tables!Loaded(Sources[i])
    BY <1>1, <1>6
  <2>2. h[0] = <<>>
    BY <2>1
  <2>3. ASSUME NEW i \in 1..n PROVE h[i] = Cat(h[i - 1], L[i])
    <3>1. i \in 0..n /\ i # 0
      OBVIOUS
    <3> QED
      BY <1>2, <2>1, <3>1 DEF Cat
  <2> QED
    BY <2>2, <2>3 DEF Joins
<1>8. h[n] \in Seq(Tables!RuleRecords)
  BY <1>7, JoinIsSeq
<1>9. Tables!InitialLoad = h[n]
  BY <1>1, <1>5, Zenon DEF Tables!InitialLoad
<1> QED
  BY <1>8, <1>9

-----------------------------------------------------------------------------
(* While the loop reloads and the look-ups go on.  What the last reload    *)
(* made is installed, but for a list into whose array a reload writes; what*)
(* it has written there is what it has loaded.  A look-up of a list that is*)
(* not torn has seen the beginning of a list made while it went on; one of *)
(* a host has passed no name that all tables made meanwhile know.          *)
RuleSeqs == Seq(Tables!RuleRecords)
Cells == Tables!RuleRecords \cup {Tables!NoRule}
LookFields == {"pc", "host", "i", "list", "seen", "torn", "valid"}

ReloadOK ==
    /\ DOMAIN reload = {"pc", "source", "loaded", "i"}
    /\ reload.pc \in {"idle", "load"} /\ reload.source \in 1..(Len(Sources) + 1)
    /\ reload.loaded \in RuleSeqs /\ reload.i \in Nat \ {0}
Written ==
    reload.i > 1 => /\ reload.pc = "load" /\ reload.source > Len(Sources)
                    /\ Tables!IsList /\ Tables!Fits(reload.loaded)
                    /\ reload.i <= Len(reload.loaded) + 1
                    /\ \A j \in 1..(reload.i - 1) : spare[j] = reload.loaded[j]

TableTypes ==
    /\ tableKind \in TableKinds /\ room \in Nat
    /\ spare \in [1..room -> Cells]
    /\ content \in [Tables!ToSet(Sources) -> Contents \cup {Unreadable}]
    /\ Tables!IsList => table.own \in BOOLEAN /\ table.len \in 0..room
    /\ ReloadOK
    /\ DOMAIN lookup = Lookups
    /\ \A g \in Lookups : /\ DOMAIN lookup[g] = LookFields
                          /\ lookup[g].pc \in {"idle", "names", "read", "done"}
                          /\ lookup[g].torn \in BOOLEAN

TableIs ==
    /\ Tables!IsList => /\ made \in RuleSeqs
                        /\ table.own \/ reload.i = 1 => Tables!Items(table) = made
    /\ ~Tables!IsList => table = made
    /\ tableKind \in {"hosts", "ingress"} => DOMAIN table \subseteq Patterns

Beginning(s, t) == s \in RuleSeqs /\ t \in RuleSeqs /\ Len(s) <= Len(t) /\ \A j \in 1..Len(s) : s[j] = t[j]
Sees(u) == Tables!Items(u.list) \in u.valid /\ Beginning(u.seen, Tables!Items(u.list))
RuledOut(u) ==
    \A j \in 1..(u.i - 1) : \E t \in u.valid : Tables!Candidates(u.host)[j] \notin DOMAIN t
Looks(u) ==
    /\ u.pc = "names" => /\ tableKind \in Tables!Hosted /\ u.host \in Probes
                         /\ u.i \in Nat \ {0} /\ made \in u.valid /\ RuledOut(u)
    /\ u.pc = "read" => /\ Tables!IsList /\ u.list.own \in BOOLEAN
                        /\ u.torn = FALSE => Sees(u)
    /\ u.pc = "done" => IF tableKind \in Tables!Hosted THEN Tables!HostAnswer(u)
                        ELSE u.torn = FALSE => u.seen \in u.valid

TableInv == TableTypes /\ Written /\ TableIs /\ \A g \in Lookups : Looks(lookup[g])

LEMMA TableFacts ==
    /\ Sources \in Seq(STRING) /\ Len(Sources) \in Nat
    /\ Static \in RuleSeqs /\ Contents \subseteq RuleSeqs
    /\ Probes \subseteq Seq(STRING) \ {<<>>} /\ Rooms \subseteq Nat
    /\ <<>> \in RuleSeqs
<1>1. Tables!ReloadAssumption
  BY TrafficAssumption
<1>2. /\ {Static} \cup Contents \subseteq Seq(Tables!RuleRecords)
      /\ Probes \subseteq Seq(STRING) \ {<<>>} /\ Rooms \subseteq Nat
  BY ONLY <1>1 DEF Tables!ReloadAssumption
<1>3. <<>> \in Seq(Tables!RuleRecords)
  OBVIOUS
<1> QED
  BY SourcesAreSeq, <1>2, <1>3 DEF RuleSeqs

LEMMA KindFacts ==
    /\ Tables!IsList <=> tableKind \in {"router", "hop"}
    /\ Tables!Hosted = {"hosts", "ingress"}
BY DEF Tables!IsList, Tables!Lists, Tables!Hosted

(* The array has what was written into it.                                 *)
LEMMA ArrayHas ==
    ASSUME NEW loaded \in RuleSeqs, NEW n \in Nat, NEW a \in [1..n -> Cells],
           Len(loaded) <= n, \A j \in 1..Len(loaded) : a[j] = loaded[j]
    PROVE  SubSeq(a, 1, Len(loaded)) = loaded
<1>1. a \in Seq(Cells) /\ Len(a) = n
  BY TableIsSeq
<1>2. PICK m \in Nat : m = Len(loaded)
  BY DEF RuleSeqs
<1>3. 1 \in 1..Len(a) + 1 /\ m \in 1 - 1..Len(a) /\ \A i \in 1..m : a[i] \in Cells
  BY <1>1, <1>2
<1>4. /\ SubSeq(a, 1, m) \in Seq(Cells)
      /\ Len(SubSeq(a, 1, m)) = m - 1 + 1
      /\ \A i \in 1..(m - 1 + 1) : SubSeq(a, 1, m)[i] = a[1 + i - 1]
  BY <1>1, <1>2, <1>3, SubSeqProperties
<1>5. PICK s : s = SubSeq(a, 1, m)
  OBVIOUS
<1>6. Len(s) = m /\ \A i \in 1..m : s[i] = loaded[i]
  BY <1>2, <1>4, <1>5
<1>7. s \in Seq(Cells) /\ loaded \in Seq(Cells)
  <2>1. Seq(Tables!RuleRecords) \subseteq Seq(Cells)
    BY WiderSeq DEF Cells
  <2> QED
    BY <1>4, <1>5, <2>1 DEF RuleSeqs
<1>8. s = loaded
  BY <1>2, <1>6, <1>7, SeqEqual
<1> QED
  BY <1>2, <1>5, <1>8

(* A table that is new shows what was made of the rules.                   *)
LEMMA NewTableIs ==
    ASSUME NEW loaded \in RuleSeqs, room \in Nat, spare \in [1..room -> Cells],
           Tables!IsList /\ Tables!Fits(loaded) => \A j \in 1..Len(loaded) : spare[j] = loaded[j]
    PROVE  LET t == Tables!NewTable(loaded)
               r == Tables!Reload(tableKind, Static, loaded) IN
           /\ Tables!IsList => /\ t.own \in BOOLEAN /\ t.len \in 0..room
                               /\ r \in RuleSeqs /\ Tables!Items(t) = r
           /\ ~Tables!IsList => t = r
           /\ tableKind \in {"hosts", "ingress"} => DOMAIN t \subseteq Patterns
<1>1. PICK k, r : k = tableKind /\ r = Tables!Reload(k, Static, loaded)
  OBVIOUS
<1>2. Static \o loaded \in RuleSeqs
  BY TableFacts DEF RuleSeqs
<1>3. k \in {"router", "hop"} => r = Static \o loaded
  BY <1>1 DEF Tables!Reload, Tables!ReloadRouter, Tables!ReloadHop
<1>4. k \in {"hosts", "ingress"} => DOMAIN r = Tables!Keys(Static \o loaded)
  BY <1>1 DEF Tables!Reload, Tables!ReloadHosts, Tables!ReloadIngress
<1>5. Tables!Keys(Static \o loaded) \subseteq Patterns
  <2>1. PICK q \in RuleSeqs : q = Static \o loaded
    BY <1>2
  <2>2. \A i \in DOMAIN q : q[i].key \in Patterns
    <3>1. \A i \in DOMAIN q : q[i] \in Tables!RuleRecords
      BY DEF RuleSeqs
    <3> QED
      BY <3>1 DEF Tables!RuleRecords, Patterns
  <2> QED
    BY <2>1, <2>2 DEF Tables!Keys
<1>6. Len(loaded) \in Nat
  BY DEF RuleSeqs
<1>7. Tables!IsList <=> k \in {"router", "hop"}
  BY <1>1, KindFacts
<1>8. Tables!NewTable(loaded) =
        IF ~Tables!IsList THEN r
        ELSE IF Tables!Fits(loaded) THEN [own |-> FALSE, len |-> Len(loaded), items |-> <<>>]
        ELSE [own |-> TRUE, len |-> 0, items |-> r]
  BY <1>1 DEF Tables!NewTable
<1>9. Tables!Fits(loaded) <=> room > 0 /\ Len(loaded) <= room
  BY DEF Tables!Fits
<1>10. PICK t : t = Tables!NewTable(loaded)
  OBVIOUS
<1>11. CASE ~Tables!IsList
  <2>1. t = r
    BY <1>8, <1>10, <1>11
  <2>2. tableKind \in {"hosts", "ingress"} => DOMAIN t \subseteq Patterns
    BY <1>1, <1>4, <1>5, <2>1
  <2> QED
    BY <1>1, <1>10, <1>11, <2>1, <2>2
<1>12. CASE Tables!IsList /\ Tables!Fits(loaded)
  <2>1. t.own = FALSE /\ t.len = Len(loaded)
    BY <1>8, <1>10, <1>12
  <2>2. t.own \in BOOLEAN
    BY ONLY <2>1
  <2>3. t.len \in 0..room
    BY <1>6, <1>9, <1>12, <2>1
  <2>4. SubSeq(spare, 1, Len(loaded)) = loaded
    BY <1>9, <1>12, ArrayHas
  <2>5. Tables!Items(t) = Static \o SubSeq(spare, 1, Len(loaded))
    BY <2>1 DEF Tables!Items
  <2>6. Tables!Items(t) = r /\ r \in RuleSeqs
    BY <1>2, <1>3, <1>7, <1>12, <2>4, <2>5
  <2>7. ~(tableKind \in {"hosts", "ingress"})
    BY <1>12, KindFacts
  <2> HIDE DEF RuleSeqs
  <2> QED
    BY <1>1, <1>10, <1>12, <2>2, <2>3, <2>6, <2>7
<1>13. CASE Tables!IsList /\ ~Tables!Fits(loaded)
  <2>1. t.own = TRUE /\ t.len = 0 /\ t.items = r
    BY <1>8, <1>10, <1>13
  <2>2. t.own \in BOOLEAN
    BY ONLY <2>1
  <2>3. t.len \in 0..room
    BY <2>1
  <2>6. Tables!Items(t) = r /\ r \in RuleSeqs
    BY <1>2, <1>3, <1>7, <1>13, <2>1 DEF Tables!Items
  <2>7. ~(tableKind \in {"hosts", "ingress"})
    BY <1>13, KindFacts
  <2> HIDE DEF RuleSeqs
  <2> QED
    BY <1>1, <1>10, <1>13, <2>2, <2>3, <2>6, <2>7
<1> QED
  BY <1>11, <1>12, <1>13

LEMMA TableInit == Tables!Init => TableInv
<1> SUFFICES ASSUME Tables!Init PROVE TableInv
  OBVIOUS
<1>1. /\ tableKind \in TableKinds /\ room \in Nat
      /\ content \in [Tables!ToSet(Sources) -> Contents \cup {Unreadable}]
      /\ table = Tables!NewTable(Tables!InitialLoad)
      /\ spare = [i \in 1..room |->
                    IF i \in DOMAIN Tables!InitialLoad /\ Tables!Fits(Tables!InitialLoad)
                    THEN Tables!InitialLoad[i] ELSE Tables!NoRule]
      /\ made = Tables!Reload(tableKind, Static, Tables!InitialLoad)
      /\ reload = Tables!NoReload
      /\ lookup = [g \in Lookups |-> Tables!NoLookup]
  BY TableFacts DEF Tables!Init
<1>2. PICK l \in RuleSeqs : l = Tables!InitialLoad
  BY <1>1, InitialLoadIsSeq DEF RuleSeqs
<1>3. /\ spare \in [1..room -> Cells]
      /\ Tables!Fits(l) => \A j \in 1..Len(l) : spare[j] = l[j]
  <2>1. Tables!NoRule \in Cells
    BY DEF Cells
  <2>11. Tables!RuleRecords \subseteq Cells
    BY DEF Cells
  <2>2. DOMAIN l = 1..Len(l) /\ Len(l) \in Nat /\ \A i \in DOMAIN l : l[i] \in Tables!RuleRecords
    BY DEF RuleSeqs
  <2>3. Tables!Fits(l) => Len(l) <= room
    BY DEF Tables!Fits
  <2>4. spare = [i \in 1..room |-> IF i \in DOMAIN l /\ Tables!Fits(l) THEN l[i] ELSE Tables!NoRule]
    BY <1>1, <1>2
  <2> QED
    BY <1>1, <2>1, <2>11, <2>2, <2>3, <2>4
<1>4. /\ Tables!IsList => table.own \in BOOLEAN /\ table.len \in 0..room
      /\ TableIs
  BY <1>1, <1>2, <1>3, NewTableIs DEF TableIs
<1>5. ReloadOK /\ reload.i = 1
  BY <1>1, TableFacts DEF ReloadOK, Tables!NoReload
<1>6. \A g \in Lookups : /\ DOMAIN lookup[g] = LookFields
                         /\ lookup[g].pc = "idle" /\ lookup[g].torn = FALSE
  BY <1>1 DEF Tables!NoLookup, LookFields
<1>7. DOMAIN lookup = Lookups
  BY <1>1
<1>8. TableTypes /\ Written
  <2>1. \A g \in Lookups : /\ DOMAIN lookup[g] = LookFields
                           /\ lookup[g].pc \in {"idle", "names", "read", "done"}
                           /\ lookup[g].torn \in BOOLEAN
    BY <1>6
  <2>2. TableTypes
    BY <1>1, <1>3, <1>4, <1>5, <1>7, <2>1 DEF TableTypes
  <2>3. Written
    BY <1>5 DEF Written
  <2> QED
    BY <2>2, <2>3
<1>9. \A g \in Lookups : Looks(lookup[g])
  BY <1>6 DEF Looks
<1> QED
  BY <1>4, <1>8, <1>9 DEF TableInv

(* Steps of the loop and of the sources that write no rule.                *)
LEMMA LookStays ==
    ASSUME NEW u, Looks(u), UNCHANGED <<tableKind, made, spare>>
    PROVE  Looks(u)'
BY DEF Looks, Sees, RuledOut, Tables!Items, Tables!IsList, Tables!HostAnswer

LEMMA TableLoads ==
    ASSUME TableInv,
           \/ Tables!Tick \/ Tables!LoadSource \/ Tables!Close
           \/ Tables!Stop \/ \E s \in Tables!ToSet(Sources) : Tables!Change(s)
    PROVE  TableInv'
<1>1. UNCHANGED <<tableKind, room, table, lookup, spare, made>>
  BY DEF Tables!Tick, Tables!LoadSource, Tables!Close, Tables!Stop, Tables!Change
<1>2. ReloadOK' /\ Written' /\ reload'.i = reload.i
  <2>1. CASE Tables!Tick
    <3>1. reload.i = 1 /\ reload' = [Tables!NoReload EXCEPT !.pc = "load"]
      BY <2>1 DEF Tables!Tick, TableInv, TableTypes, ReloadOK, Written
    <3> QED
      BY <3>1, TableFacts DEF ReloadOK, Written, Tables!NoReload
  <2>2. CASE Tables!LoadSource
    <3>1. /\ reload.source <= Len(Sources) /\ reload.source \in 1..Len(Sources) + 1
          /\ content \in [Tables!ToSet(Sources) -> Contents \cup {Unreadable}]
      BY <2>2 DEF Tables!LoadSource, TableInv, TableTypes, ReloadOK
    <3>2. PICK k \in 1..Len(Sources) : k = reload.source
      BY <3>1, TableFacts
    <3>3. PICK t \in RuleSeqs : t = Tables!Loaded(Sources[reload.source])
      BY <3>1, <3>2, LoadedIsSeq DEF RuleSeqs
    <3>4. reload.loaded \o t \in RuleSeqs
      BY DEF TableInv, TableTypes, ReloadOK, RuleSeqs
    <3>5. reload' = [reload EXCEPT !.loaded = @ \o t, !.source = @ + 1]
      BY <2>2, <3>3 DEF Tables!LoadSource
    <3>6. k + 1 \in 1..(Len(Sources) + 1)
      BY TableFacts
    <3>7. reload.i = 1
      BY <3>2, TableFacts DEF TableInv, TableTypes, ReloadOK, Written
    <3>8. ReloadOK' /\ reload'.i = 1
      BY <3>2, <3>4, <3>5, <3>6, <3>7 DEF TableInv, TableTypes, ReloadOK
    <3> QED
      BY <3>7, <3>8 DEF Written
  <2>3. CASE UNCHANGED reload
    BY <1>1, <2>3 DEF TableInv, TableTypes, ReloadOK, Written, Tables!IsList, Tables!Fits
  <2> QED
    BY <2>1, <2>2, <2>3 DEF Tables!Close, Tables!Stop, Tables!Change
<1>3. content' \in [Tables!ToSet(Sources) -> Contents \cup {Unreadable}]
  <2>1. CASE UNCHANGED content
    BY <2>1 DEF TableInv, TableTypes
  <2>2. CASE Tables!Close
    BY <2>2 DEF Tables!Close, TableInv, TableTypes
  <2>3. CASE \E s \in Tables!ToSet(Sources) : Tables!Change(s)
    BY <2>3 DEF Tables!Change, TableInv, TableTypes
  <2> QED
    BY <2>1, <2>2, <2>3 DEF Tables!Tick, Tables!LoadSource, Tables!Stop
<1>4. TableTypes' /\ TableIs'
  BY <1>1, <1>2, <1>3 DEF TableInv, TableTypes, TableIs, Tables!IsList, Tables!Items
<1>5. (\A g \in Lookups : Looks(lookup[g]))'
  BY <1>1, LookStays DEF TableInv
<1> QED
  BY <1>2, <1>4, <1>5 DEF TableInv

(* A rule written into the room: look-ups that see the array are torn.     *)
LEMMA TableWrites ==
    ASSUME TableInv, Tables!AppendInPlace
    PROVE  TableInv'
<1>1. PICK i \in Nat \ {0}, l \in RuleSeqs : i = reload.i /\ l = reload.loaded
  BY DEF TableInv, TableTypes, ReloadOK
<1>2. /\ reload.pc = "load" /\ reload.source > Len(Sources) /\ Tables!IsList /\ Tables!Fits(l)
      /\ i <= Len(l)
      /\ spare' = [spare EXCEPT ![i] = l[i]]
      /\ reload' = [reload EXCEPT !.i = i + 1]
      /\ lookup' = [g \in Lookups |->
                      IF lookup[g].pc = "read"
                      THEN [lookup[g] EXCEPT !.torn = @ \/ ~lookup[g].list.own]
                      ELSE lookup[g]]
      /\ UNCHANGED <<tableKind, room, content, table, made>>
  BY <1>1 DEF Tables!AppendInPlace
<1>3. Len(l) \in Nat /\ room \in Nat /\ Len(l) <= room /\ i \in 1..room /\ i \in 1..Len(l)
  BY <1>1, <1>2 DEF RuleSeqs, TableInv, TableTypes, Tables!Fits
<1>4. l[i] \in Tables!RuleRecords
  BY <1>3 DEF RuleSeqs
<1>5. /\ spare' \in [1..room -> Cells] /\ spare'[i] = l[i]
      /\ \A j \in 1..(i - 1) : spare'[j] = spare[j]
  BY <1>2, <1>3, <1>4 DEF TableInv, TableTypes, Cells
<1>6. ReloadOK' /\ reload'.i = i + 1 /\ reload'.loaded = l
      /\ reload'.pc = "load" /\ reload'.source = reload.source
  BY <1>1, <1>2 DEF TableInv, TableTypes, ReloadOK
<1>7. \A j \in 1..i : spare'[j] = l[j]
  <2>1. i > 1 => \A j \in 1..(i - 1) : spare[j] = l[j]
    BY <1>1 DEF TableInv, Written
  <2> QED
    BY <1>5, <2>1
<1>8. Written'
  BY <1>1, <1>2, <1>3, <1>6, <1>7 DEF Written, Tables!IsList, Tables!Fits
<1>9. ASSUME NEW g \in Lookups
      PROVE  /\ DOMAIN lookup'[g] = LookFields /\ lookup'[g].pc = lookup[g].pc
             /\ lookup'[g].torn \in BOOLEAN /\ Looks(lookup[g])
             /\ lookup[g].pc # "read" => lookup'[g] = lookup[g]
             /\ lookup[g].pc = "read" =>
                   /\ lookup'[g].list = lookup[g].list /\ lookup'[g].seen = lookup[g].seen
                   /\ lookup'[g].valid = lookup[g].valid
                   /\ lookup'[g].torn = FALSE =>
                         lookup[g].torn = FALSE /\ lookup[g].list.own = TRUE
  <2>1. DOMAIN lookup[g] = LookFields /\ Looks(lookup[g]) /\ lookup[g].torn \in BOOLEAN
    BY DEF TableInv, TableTypes
  <2>2. lookup[g].pc # "read" => lookup'[g] = lookup[g]
    BY <1>2
  <2>3. CASE lookup[g].pc = "read"
    <3>1. PICK u, t : u = lookup[g] /\ t = (u.torn \/ ~u.list.own)
      OBVIOUS
    <3>2. lookup'[g] = [u EXCEPT !.torn = t]
      BY <1>2, <2>3, <3>1
    <3>3. u.torn \in BOOLEAN /\ u.list.own \in BOOLEAN
      BY <2>1, <2>3, <3>1 DEF Looks
    <3>4. t \in BOOLEAN /\ (t = FALSE => u.torn = FALSE /\ u.list.own = TRUE)
      BY ONLY <3>1, <3>3
    <3> QED
      BY <2>1, <2>3, <3>1, <3>2, <3>4 DEF LookFields
  <2> QED
    BY <2>1, <2>2, <2>3
<1>10. TableTypes'
  <2>1. DOMAIN lookup' = Lookups
    BY <1>2
  <2>2. \A g \in Lookups : /\ DOMAIN lookup'[g] = LookFields
                           /\ lookup'[g].pc \in {"idle", "names", "read", "done"}
                           /\ lookup'[g].torn \in BOOLEAN
    BY <1>9 DEF TableInv, TableTypes
  <2> QED
    BY <1>2, <1>5, <1>6, <2>1, <2>2 DEF TableInv, TableTypes, Tables!IsList
<1>11. TableIs'
  <2>1. table.own \in BOOLEAN /\ made \in RuleSeqs /\ (table.own = TRUE => Tables!Items(table) = made)
    BY <1>2 DEF TableInv, TableTypes, TableIs
  <2>2. table.own = TRUE => Tables!Items(table)' = Tables!Items(table)
    BY <1>2 DEF Tables!Items
  <2>3. reload'.i # 1
    BY <1>6
  <2>4. Tables!IsList' /\ ~(tableKind \in {"hosts", "ingress"})
    BY <1>2, KindFacts DEF Tables!IsList
  <2> QED
    BY <1>2, <2>1, <2>2, <2>3, <2>4 DEF TableIs
<1>12. ASSUME NEW g \in Lookups PROVE Looks(lookup[g])'
  <2>1. ~(tableKind \in Tables!Hosted)
    BY <1>2, KindFacts
  <2>2. CASE lookup[g].pc = "read"
    <3>1. Tables!IsList' /\ lookup'[g].list.own \in BOOLEAN
      BY <1>2, <1>9, <2>2 DEF Looks, Tables!IsList
    <3>2. ASSUME lookup'[g].torn = FALSE PROVE Sees(lookup[g])'
      <4>1. Sees(lookup[g]) /\ lookup[g].list.own = TRUE
        BY <1>9, <2>2, <3>2 DEF Looks
      <4> QED
        BY <1>9, <2>2, <4>1 DEF Sees, Tables!Items
    <3> QED
      BY <1>9, <2>2, <3>1, <3>2 DEF Looks
  <2>3. CASE lookup[g].pc # "read"
    <3>1. lookup'[g] = lookup[g] /\ Looks(lookup[g])
      BY <1>9, <2>3
    <3>2. lookup[g].pc # "names"
      BY <2>1, <3>1 DEF Looks
    <3> QED
      BY <1>2, <2>1, <2>3, <3>1, <3>2 DEF Looks, Tables!Hosted
  <2> QED
    BY <2>2, <2>3
<1> QED
  BY <1>8, <1>10, <1>11, <1>12 DEF TableInv

(* A new table in place of the old one: a look-up that goes on may see it. *)
LEMMA TableInstalls ==
    ASSUME TableInv, Tables!Install
    PROVE  TableInv'
<1>1. PICK l \in RuleSeqs : l = reload.loaded
  BY DEF TableInv, TableTypes, ReloadOK
<1>2. PICK r, t : r = Tables!Reload(tableKind, Static, l) /\ t = Tables!NewTable(l)
  OBVIOUS
<1>3. /\ table' = t /\ made' = r
      /\ reload' = Tables!NoReload
      /\ lookup' = [g \in Lookups |-> IF lookup[g].pc \in {"read", "names"}
                                      THEN [lookup[g] EXCEPT !.valid = @ \cup {r}]
                                      ELSE lookup[g]]
      /\ UNCHANGED <<tableKind, room, content, spare>>
  BY <1>1, <1>2 DEF Tables!Install
<1>4. Tables!IsList /\ Tables!Fits(l) => \A j \in 1..Len(l) : spare[j] = l[j]
  <2>1. SUFFICES ASSUME Tables!IsList, Tables!Fits(l), NEW j \in 1..Len(l)
                 PROVE  spare[j] = l[j]
    OBVIOUS
  <2>2. PICK i \in Nat \ {0} : i = reload.i
    BY DEF TableInv, TableTypes, ReloadOK
  <2>3. i > Len(l) /\ Len(l) \in Nat
    BY <1>1, <2>1, <2>2 DEF Tables!Install, RuleSeqs
  <2>4. i > 1 /\ j \in 1..(i - 1)
    BY <2>3
  <2> QED
    BY <1>1, <2>2, <2>4 DEF TableInv, Written
<1>5. room \in Nat /\ spare \in [1..room -> Cells]
  BY DEF TableInv, TableTypes
<1>6. /\ Tables!IsList => /\ t.own \in BOOLEAN /\ t.len \in 0..room
                          /\ r \in RuleSeqs /\ Tables!Items(t) = r
      /\ ~Tables!IsList => t = r
      /\ tableKind \in {"hosts", "ingress"} => DOMAIN t \subseteq Patterns
  BY <1>2, <1>4, <1>5, NewTableIs
<1>7. Tables!Items(table)' = Tables!Items(t) /\ (Tables!IsList' <=> Tables!IsList)
  BY <1>3 DEF Tables!Items, Tables!IsList
<1>8. /\ (Tables!IsList => table.own \in BOOLEAN /\ table.len \in 0..room)'
      /\ TableIs'
  BY <1>3, <1>6, <1>7 DEF TableIs
<1>9. ReloadOK' /\ Written'
  BY <1>3, TableFacts DEF ReloadOK, Written, Tables!NoReload
<1>10. ASSUME NEW g \in Lookups
       PROVE  /\ DOMAIN lookup'[g] = LookFields /\ lookup'[g].torn = lookup[g].torn
              /\ lookup'[g].pc = lookup[g].pc /\ lookup'[g].list = lookup[g].list
              /\ lookup'[g].seen = lookup[g].seen /\ lookup[g].valid \subseteq lookup'[g].valid
              /\ lookup'[g].host = lookup[g].host /\ lookup'[g].i = lookup[g].i
              /\ lookup[g].pc = "names" => r \in lookup'[g].valid
  <2>1. DOMAIN lookup[g] = LookFields
    BY DEF TableInv, TableTypes
  <2>2. CASE lookup[g].pc \in {"read", "names"}
    <3>1. lookup'[g] = [lookup[g] EXCEPT !.valid = @ \cup {r}]
      BY <1>3, <2>2
    <3> QED
      BY <2>1, <3>1 DEF LookFields
  <2>3. CASE ~(lookup[g].pc \in {"read", "names"})
    <3>1. lookup'[g] = lookup[g]
      BY <1>3, <2>3
    <3> QED
      BY <2>1, <2>3, <3>1
  <2> QED
    BY <2>2, <2>3
<1>11. DOMAIN lookup' = Lookups
  BY <1>3
<1>12. TableTypes'
  <2>1. \A g \in Lookups : /\ DOMAIN lookup'[g] = LookFields
                           /\ lookup'[g].pc \in {"idle", "names", "read", "done"}
                           /\ lookup'[g].torn \in BOOLEAN
    BY <1>10 DEF TableInv, TableTypes
  <2>2. content' \in [Tables!ToSet(Sources) -> Contents \cup {Unreadable}]
    BY <1>3 DEF TableInv, TableTypes
  <2> QED
    BY <1>3, <1>5, <1>8, <1>9, <1>11, <2>1, <2>2 DEF TableInv, TableTypes
<1>13. ASSUME NEW g \in Lookups PROVE Looks(lookup[g])'
  <2>1. Looks(lookup[g]) /\ lookup'[g].pc = lookup[g].pc
    BY <1>10 DEF TableInv
  <2>2. ASSUME lookup[g].pc = "names"
        PROVE  /\ tableKind' \in Tables!Hosted /\ lookup'[g].host \in Probes
               /\ lookup'[g].i \in Nat \ {0} /\ made' \in lookup'[g].valid /\ RuledOut(lookup'[g])
    BY <1>3, <1>10, <2>1, <2>2 DEF Looks, RuledOut
  <2>3. ASSUME lookup[g].pc = "read"
        PROVE  /\ Tables!IsList' /\ lookup'[g].list.own \in BOOLEAN
               /\ lookup'[g].torn = FALSE => Sees(lookup'[g])
    BY <1>7, <1>10, <2>1, <2>3 DEF Looks, Sees
  <2>4. Sees(lookup'[g]) <=> Sees(lookup[g])'
    BY <1>3 DEF Sees, Tables!Items
  <2>5. ASSUME lookup[g].pc = "done"
        PROVE  IF tableKind' \in Tables!Hosted THEN Tables!HostAnswer(lookup[g])'
               ELSE lookup'[g].torn = FALSE => lookup'[g].seen \in lookup'[g].valid
    <3>1. lookup'[g] = lookup[g] /\ tableKind' = tableKind
      BY <1>3, <2>5
    <3> QED
      BY <2>1, <2>5, <3>1 DEF Looks, Tables!HostAnswer
  <2> QED
    BY <2>1, <2>2, <2>3, <2>4, <2>5 DEF Looks, RuledOut, Tables!Hosted
<1> QED
  BY <1>8, <1>9, <1>12, <1>13 DEF TableInv

LEMMA BeginningGrows ==
    ASSUME NEW s, NEW t, Beginning(s, t)
    PROVE  /\ Len(s) + 1 <= Len(t) => Beginning(Append(s, t[Len(s) + 1]), t)
           /\ ~(Len(s) + 1 <= Len(t)) => s = t
<1>1. PICK m \in Nat, n \in Nat : m = Len(s) /\ n = Len(t)
  BY DEF Beginning, RuleSeqs
<1>2. s \in RuleSeqs /\ t \in RuleSeqs /\ m <= n /\ \A j \in 1..m : s[j] = t[j]
  BY <1>1 DEF Beginning
<1>3. ASSUME m + 1 <= n PROVE Beginning(Append(s, t[m + 1]), t)
  <2>1. m + 1 \in 1..n /\ t[m + 1] \in Tables!RuleRecords
    BY <1>1, <1>2, <1>3 DEF RuleSeqs
  <2>2. PICK u : u = Append(s, t[m + 1])
    OBVIOUS
  <2>3. u \in RuleSeqs /\ Len(u) = m + 1 /\ u[m + 1] = t[m + 1] /\ \A j \in 1..m : u[j] = s[j]
    BY <1>1, <1>2, <2>1, <2>2, AppendProperties DEF RuleSeqs
  <2>4. \A j \in 1..m + 1 : u[j] = t[j]
    BY <1>2, <2>3
  <2> QED
    BY <1>1, <1>2, <1>3, <2>2, <2>3, <2>4 DEF Beginning
<1>4. ASSUME ~(m + 1 <= n) PROVE s = t
  <2>1. m = n
    BY <1>2, <1>4
  <2> QED
    BY <1>1, <1>2, <2>1, SeqEqual DEF RuleSeqs
<1> QED
  BY <1>1, <1>3, <1>4

(* Look-ups.                                                               *)
LEMMA NamesAreMany ==
    ASSUME NEW h \in Probes
    PROVE  Len(Tables!Candidates(h)) \in Nat
<1>1. h \in Seq(STRING) /\ h # <<>>
  BY TableFacts
<1> QED
  BY <1>1, NamesOfHost

LEMMA NotBoth ==
    ASSUME NEW o \in BOOLEAN, NEW P \in BOOLEAN, NEW b, b = (~o /\ P)
    PROVE  P => (b = FALSE => o = TRUE)
OBVIOUS

LEMMA TableLooks ==
    ASSUME TableInv, NEW g \in Lookups,
           \/ Tables!LookupMap(g) \/ Tables!LookupHost(g) \/ Tables!LookupName(g)
           \/ Tables!LookupList(g) \/ Tables!LookupNext(g) \/ Tables!LookupEnd(g)
    PROVE  TableInv'
<1>1. UNCHANGED <<tableKind, room, content, table, spare, made, reload>>
  BY DEF Tables!LookupMap, Tables!LookupHost, Tables!LookupName, Tables!LookupList,
     Tables!LookupNext, Tables!LookupEnd
<1>0. PICK l : l = lookup[g] /\ DOMAIN l = LookFields /\ l.torn \in BOOLEAN /\ Looks(l)
  BY DEF TableInv, TableTypes
<1>2. PICK u : /\ lookup' = [lookup EXCEPT ![g] = u]
               /\ DOMAIN u = LookFields /\ u.torn \in BOOLEAN
               /\ u.pc \in {"idle", "names", "read", "done"}
               /\ Looks(u)
  <2>1. CASE Tables!LookupMap(g)
    <3>1. PICK w : /\ w = [Tables!NoLookup EXCEPT !.pc = "done", !.seen = table,
                                                  !.valid = {made}]
                   /\ lookup' = [lookup EXCEPT ![g] = w]
      BY <2>1 DEF Tables!LookupMap
    <3>2. table = made /\ ~(tableKind \in Tables!Hosted)
      BY <2>1 DEF Tables!LookupMap, TableInv, TableIs, Tables!IsList
    <3>3. /\ DOMAIN w = LookFields /\ w.pc = "done" /\ w.torn = FALSE
          /\ w.seen \in w.valid
      BY <3>1, <3>2 DEF LookFields, Tables!NoLookup
    <3> QED
      BY <3>1, <3>2, <3>3 DEF Looks
  <2>2. CASE Tables!LookupHost(g)
    <3>1. PICK h, w :
            /\ h \in Probes
            /\ w = [Tables!NoLookup EXCEPT !.pc = "names", !.host = h, !.valid = {made}]
            /\ lookup' = [lookup EXCEPT ![g] = w] /\ tableKind \in Tables!Hosted
      BY <2>2 DEF Tables!LookupHost
    <3>2. /\ DOMAIN w = LookFields /\ w.pc = "names" /\ w.torn = FALSE
          /\ w.host = h /\ w.i = 1 /\ made \in w.valid
      BY <3>1 DEF LookFields, Tables!NoLookup
    <3>3. RuledOut(w)
      BY <3>2 DEF RuledOut
    <3>4. Looks(w)
      BY <3>1, <3>2, <3>3 DEF Looks
    <3>5. w.torn \in BOOLEAN /\ w.pc \in {"idle", "names", "read", "done"}
      BY <3>2
    <3> QED
      BY <3>1, <3>2, <3>4, <3>5
  <2>3. CASE Tables!LookupName(g)
    <3>1. PICK names : names = Tables!Candidates(l.host)
      OBVIOUS
    <3>2. /\ l.pc = "names"
          /\ lookup' = [lookup EXCEPT ![g] =
               IF l.i > Len(names) THEN [l EXCEPT !.pc = "done"]
               ELSE IF names[l.i] \notin DOMAIN table THEN [l EXCEPT !.i = @ + 1]
               ELSE [l EXCEPT !.pc = "done", !.seen = table[names[l.i]]]]
      BY <1>0, <2>3, <3>1 DEF Tables!LookupName
    <3>3. /\ tableKind \in Tables!Hosted /\ l.host \in Probes /\ l.i \in Nat \ {0}
          /\ made \in l.valid /\ RuledOut(l) /\ Len(names) \in Nat
      BY <1>0, <3>1, <3>2, NamesAreMany DEF Looks
    <3>4. table = made
      BY <3>3, KindFacts DEF TableInv, TableIs
    <3>5. \A j \in 1..(l.i - 1) : \E t \in l.valid : names[j] \notin DOMAIN t
      BY <3>1, <3>3 DEF RuledOut
    <3>6. CASE l.i > Len(names)
      <4>1. PICK w : w = [l EXCEPT !.pc = "done"]
        OBVIOUS
      <4>2. /\ DOMAIN w = LookFields /\ w.pc = "done" /\ w.torn \in BOOLEAN
            /\ w.host = l.host /\ w.i = l.i /\ w.valid = l.valid /\ w.seen = l.seen
        BY <1>0, <4>1 DEF LookFields
      <4>3. ~(w.i <= Len(names))
        BY <3>3, <3>6, <4>2
      <4>4. Tables!HostAnswer(w)
        BY <3>1, <3>5, <4>2, <4>3 DEF Tables!HostAnswer
      <4> QED
        BY <3>2, <3>3, <3>6, <4>1, <4>2, <4>4 DEF Looks
    <3>7. CASE ~(l.i > Len(names)) /\ names[l.i] \notin DOMAIN table
      <4>1. PICK w : w = [l EXCEPT !.i = @ + 1]
        OBVIOUS
      <4>2. /\ DOMAIN w = LookFields /\ w.pc = "names" /\ w.torn \in BOOLEAN
            /\ w.host = l.host /\ w.i = l.i + 1 /\ w.valid = l.valid /\ w.seen = l.seen
        BY <1>0, <3>2, <4>1 DEF LookFields
      <4>3. \A j \in 1..l.i : \E t \in l.valid : names[j] \notin DOMAIN t
        <5>1. \A j \in 1..l.i : j = l.i \/ j \in 1..(l.i - 1)
          BY <3>3
        <5> QED
          BY <3>3, <3>4, <3>5, <3>7, <5>1
      <4>4. w.i - 1 = l.i /\ w.i \in Nat \ {0}
        BY <3>3, <4>2
      <4>5. RuledOut(w)
        BY <3>1, <4>2, <4>3, <4>4 DEF RuledOut
      <4> QED
        BY <3>2, <3>3, <3>7, <4>1, <4>2, <4>4, <4>5 DEF Looks
    <3>8. CASE ~(l.i > Len(names)) /\ names[l.i] \in DOMAIN table
      <4>1. PICK w : w = [l EXCEPT !.pc = "done", !.seen = table[names[l.i]]]
        OBVIOUS
      <4>2. /\ DOMAIN w = LookFields /\ w.pc = "done" /\ w.torn \in BOOLEAN
            /\ w.host = l.host /\ w.i = l.i /\ w.valid = l.valid
            /\ w.seen = table[names[l.i]]
        BY <1>0, <4>1 DEF LookFields
      <4>3. Tables!HostAnswer(w)
        BY <3>1, <3>3, <3>4, <3>5, <3>8, <4>2 DEF Tables!HostAnswer
      <4> QED
        BY <3>2, <3>3, <3>8, <4>1, <4>2, <4>3 DEF Looks
    <3> QED
      BY <3>6, <3>7, <3>8
  <2>4. CASE Tables!LookupList(g)
    <3>1. PICK b, w : /\ b = (~table.own /\ reload.i > 1)
                      /\ w = [Tables!NoLookup EXCEPT !.pc = "read", !.list = table,
                                                     !.valid = {made}, !.torn = b]
                      /\ lookup' = [lookup EXCEPT ![g] = w] /\ Tables!IsList
      BY <2>4 DEF Tables!LookupList
    <3>2. table.own \in BOOLEAN /\ reload.i \in Nat \ {0}
      BY <3>1 DEF TableInv, TableTypes, ReloadOK
    <3>3. b \in BOOLEAN /\ (b = FALSE => table.own = TRUE \/ reload.i = 1)
      <4>1. PICK o \in BOOLEAN : o = table.own
        BY <3>2
      <4>2. b = (~o /\ reload.i > 1)
        BY <3>1, <4>1, Zenon
      <4>3. reload.i > 1 => (b = FALSE => o = TRUE)
        BY <4>2, NotBoth, Zenon
      <4>4. b \in BOOLEAN
        BY ONLY <4>2
      <4>5. reload.i > 1 \/ reload.i = 1
        BY <3>2
      <4> QED
        BY ONLY <4>1, <4>3, <4>4, <4>5
    <3>4. /\ DOMAIN w = LookFields /\ w.pc = "read" /\ w.torn = b
          /\ w.list = table /\ w.seen = <<>> /\ w.valid = {made}
      BY <3>1 DEF LookFields, Tables!NoLookup
    <3>5. ASSUME b = FALSE PROVE Sees(w)
      <4>1. Tables!Items(table) = made /\ made \in RuleSeqs
        BY <3>1, <3>2, <3>3, <3>5 DEF TableInv, TableIs
      <4>2. Beginning(<<>>, made)
        BY <4>1, TableFacts DEF Beginning, RuleSeqs
      <4> QED
        BY <3>4, <4>1, <4>2 DEF Sees
    <3> QED
      BY <3>1, <3>2, <3>3, <3>4, <3>5 DEF Looks
  <2>5. CASE Tables!LookupNext(g)
    <3>1. PICK s, x : s = Tables!Items(l.list) /\ x = s[Len(l.seen) + 1]
      OBVIOUS
    <3>2. /\ l.pc = "read"
          /\ lookup' = [lookup EXCEPT ![g] =
                          IF Len(l.seen) + 1 <= Len(s) THEN [l EXCEPT !.seen = Append(@, x)]
                          ELSE [l EXCEPT !.pc = "done"]]
      BY <1>0, <2>5, <3>1 DEF Tables!LookupNext
    <3>3. /\ Tables!IsList /\ l.list.own \in BOOLEAN /\ ~(tableKind \in Tables!Hosted)
          /\ l.torn = FALSE => s \in l.valid /\ Beginning(l.seen, s)
      BY <1>0, <3>1, <3>2, KindFacts DEF Looks, Sees
    <3>4. CASE Len(l.seen) + 1 <= Len(s)
      <4>1. PICK w : w = [l EXCEPT !.seen = Append(@, x)]
        OBVIOUS
      <4>2. /\ w.pc = "read" /\ w.list = l.list /\ w.valid = l.valid /\ w.torn = l.torn
            /\ w.seen = Append(l.seen, x) /\ DOMAIN w = LookFields
        BY <1>0, <3>2, <4>1 DEF LookFields
      <4>3. l.torn = FALSE => Beginning(Append(l.seen, x), s)
        BY <3>1, <3>3, <3>4, BeginningGrows
      <4>4. Looks(w)
        BY <3>1, <3>3, <4>2, <4>3 DEF Looks, Sees
      <4> QED
        BY <1>0, <3>2, <3>4, <4>1, <4>2, <4>4
    <3>5. CASE ~(Len(l.seen) + 1 <= Len(s))
      <4>1. PICK w : w = [l EXCEPT !.pc = "done"]
        OBVIOUS
      <4>2. /\ w.pc = "done" /\ w.valid = l.valid /\ w.seen = l.seen /\ w.torn = l.torn
            /\ DOMAIN w = LookFields
        BY <1>0, <4>1 DEF LookFields
      <4>3. l.torn = FALSE => l.seen = s
        BY <3>3, <3>5, BeginningGrows
      <4>4. Looks(w)
        BY <3>3, <4>2, <4>3 DEF Looks
      <4> QED
        BY <1>0, <3>2, <3>5, <4>1, <4>2, <4>4
    <3> QED
      BY <3>4, <3>5
  <2>6. CASE Tables!LookupEnd(g)
    <3>1. PICK w : w = Tables!NoLookup /\ lookup' = [lookup EXCEPT ![g] = w]
      BY <2>6 DEF Tables!LookupEnd
    <3>2. DOMAIN w = LookFields /\ w.pc = "idle" /\ w.torn = FALSE
      BY <3>1 DEF Tables!NoLookup, LookFields
    <3>3. Looks(w)
      BY <3>2 DEF Looks
    <3> QED
      BY <3>1, <3>2, <3>3
  <2> QED
    BY <2>1, <2>2, <2>3, <2>4, <2>5, <2>6
<1>3. DOMAIN lookup' = Lookups /\ lookup'[g] = u /\ \A f \in Lookups : f # g => lookup'[f] = lookup[f]
  BY <1>2 DEF TableInv, TableTypes
<1>4. \A f \in Lookups : /\ DOMAIN lookup'[f] = LookFields
                         /\ lookup'[f].pc \in {"idle", "names", "read", "done"}
                         /\ lookup'[f].torn \in BOOLEAN
  BY <1>2, <1>3 DEF TableInv, TableTypes
<1>5. TableTypes'
  BY <1>1, <1>3, <1>4 DEF TableInv, TableTypes, Tables!IsList, ReloadOK
<1>6. TableIs' /\ Written'
  BY <1>1 DEF TableInv, TableIs, Written, Tables!IsList, Tables!Items, Tables!Fits
<1>7. ASSUME NEW f \in Lookups PROVE Looks(lookup[f])'
  <2>1. Looks(lookup'[f])
    BY <1>2, <1>3 DEF TableInv
  <2> QED
    BY <1>1, <2>1 DEF Looks, Sees, RuledOut, Tables!Items, Tables!IsList, Tables!HostAnswer
<1> QED
  BY <1>5, <1>6, <1>7 DEF TableInv

LEMMA TableNext == TableInv /\ [Tables!Next]_tableVars => TableInv'
<1> SUFFICES ASSUME TableInv, [Tables!Next]_tableVars PROVE TableInv'
  OBVIOUS
<1>1. CASE \/ Tables!Tick \/ Tables!LoadSource \/ Tables!Close
           \/ Tables!Stop \/ \E s \in Tables!ToSet(Sources) : Tables!Change(s)
  BY <1>1, TableLoads
<1>2. CASE Tables!Install
  BY <1>2, TableInstalls
<1>3. CASE Tables!AppendInPlace
  BY <1>3, TableWrites
<1>4. CASE \E g \in Lookups :
             \/ Tables!LookupMap(g) \/ Tables!LookupHost(g) \/ Tables!LookupName(g)
             \/ Tables!LookupList(g) \/ Tables!LookupNext(g) \/ Tables!LookupEnd(g)
  BY <1>4, TableLooks
<1>5. CASE UNCHANGED tableVars
  BY <1>5, LookStays DEF tableVars, TableInv, TableTypes, TableIs, Written, Tables!IsList,
     Tables!Items, Tables!Fits, ReloadOK
<1> QED
  BY <1>1, <1>2, <1>3, <1>4, <1>5 DEF Tables!Next, Tables!Reloading

LEMMA TableInvIsRight ==
    TableInv => Tables!TypeOK /\ Tables!OneTable /\ Tables!MostSpecificWins
<1> SUFFICES ASSUME TableInv PROVE Tables!TypeOK /\ Tables!OneTable /\ Tables!MostSpecificWins
  OBVIOUS
<1>1. Tables!TypeOK
  BY DEF Tables!TypeOK, TableInv, TableTypes, ReloadOK
<1>2. Tables!OneTable
  BY DEF Tables!OneTable, TableInv, TableTypes, Looks
<1>3. Tables!MostSpecificWins
  <2> SUFFICES ASSUME tableKind \in {"hosts", "ingress"}, NEW h \in Probes
               PROVE  /\ Tables!HostLookup(table, h) = Tables!MostSpecific(table, h)
                      /\ Tables!IngressRule(table, h) = Tables!MostSpecific(table, h)
    BY DEF Tables!MostSpecificWins
  <2>1. DOMAIN table \subseteq Patterns /\ h \in Seq(STRING) /\ h # <<>>
    BY TableFacts DEF TableInv, TableIs
  <2>2. Tables!First(table, Tables!Candidates(h)) = Tables!MostSpecific(table, h)
    BY <2>1, FirstIsMostSpecific
  <2> QED
    BY <2>2 DEF Tables!HostLookup, Tables!IngressRule
<1> QED
  BY <1>1, <1>2, <1>3

-----------------------------------------------------------------------------
(* The tunnels keep their types.                                           *)

LEMMA TunnelFacts ==
    /\ TunnelKinds \subseteq [net : Tunnels!Networks, top : BOOLEAN]
    /\ Retry \in Nat \ {0} /\ "no tunnel" \notin Connectors
BY TrafficAssumption

LEMMA NoVisitType == Tunnels!NoDial \in Tunnels!DialRecords
<1>0. Retry \in Nat
  BY TunnelFacts
<1>1. 0 \in 0..Retry
  BY <1>0
<1> QED
  BY <1>1 DEF Tunnels!NoDial, Tunnels!DialRecords, Tunnels!Networks

LEMMA TunnelInit == Tunnels!Init => Tunnels!TypeOK
<1>1. Tunnels!NoDial.pc = "idle"
  BY DEF Tunnels!NoDial
<1> QED
  BY <1>1, NoVisitType DEF Tunnels!Init, Tunnels!TypeOK

LEMMA TunnelMembers ==
    ASSUME Tunnels!TypeOK, NEW n \in TunnelNodes
    PROVE  Tunnels!Members(n) \in SUBSET Connectors
BY DEF Tunnels!TypeOK, Tunnels!Members

(* A visitor's step writes a record of the type.                           *)
LEMMA VisitType ==
    ASSUME Tunnels!TypeOK, NEW x \in Visitors, NEW d \in Tunnels!DialRecords,
           d.pc # "idle" => d.node \in TunnelNodes, d.pc = "open" => d.try < Retry,
           Tunnels!Set(x, d), Tunnels!OnlyDial
    PROVE  Tunnels!TypeOK'
BY DEF Tunnels!TypeOK, Tunnels!Set, Tunnels!OnlyDial, Tunnels!config, Tunnels!binding

LEMMA BindingTypes ==
    ASSUME Tunnels!TypeOK, NEW c \in Connectors,
           \/ Tunnels!Bind(c) \/ Tunnels!Binding(c) \/ Tunnels!SessionEnds(c)
           \/ Tunnels!Watching(c) \/ Tunnels!Expire(c)
    PROVE  Tunnels!TypeOK'
<1>1. home[c] \in TunnelNodes /\ Tunnels!Members(home[c]) \in SUBSET Connectors
  BY TunnelMembers DEF Tunnels!TypeOK
<1>2. CASE Tunnels!Bind(c)
  BY <1>2 DEF Tunnels!TypeOK, Tunnels!Bind, Tunnels!Go, Tunnels!config, Tunnels!dialing
<1>3. CASE Tunnels!NewConnector(c)
  BY <1>3 DEF Tunnels!TypeOK, Tunnels!NewConnector, Tunnels!Go, Tunnels!config, Tunnels!dialing
<1>4. CASE Tunnels!PoolAdd(c)
  BY <1>1, <1>4 DEF Tunnels!TypeOK, Tunnels!PoolAdd, Tunnels!Go, Tunnels!config, Tunnels!dialing
<1>5. CASE Tunnels!Register(c)
  BY <1>5 DEF Tunnels!TypeOK, Tunnels!Register, Tunnels!Go, Tunnels!config, Tunnels!dialing
<1>6. CASE Tunnels!SessionEnds(c)
  BY <1>6 DEF Tunnels!TypeOK, Tunnels!SessionEnds, Tunnels!Lost, Tunnels!config, Tunnels!binding
<1>7. CASE Tunnels!WaitClose(c)
  BY <1>7 DEF Tunnels!TypeOK, Tunnels!WaitClose, Tunnels!config, Tunnels!dialing
<1>8. CASE Tunnels!Deregister(c)
  BY <1>8 DEF Tunnels!TypeOK, Tunnels!Deregister, Tunnels!config, Tunnels!dialing
<1>9. CASE Tunnels!Expire(c)
  BY <1>9 DEF Tunnels!TypeOK, Tunnels!Expire, Tunnels!config, Tunnels!binding, Tunnels!dialing
<1> QED
  BY <1>2, <1>3, <1>4, <1>5, <1>6, <1>7, <1>8, <1>9 DEF Tunnels!Binding, Tunnels!Watching

LEMMA PoolTypes ==
    ASSUME Tunnels!TypeOK, NEW n \in TunnelNodes,
           Tunnels!Clean(n) \/ Tunnels!CloseIdles(n) \/ Tunnels!Close(n)
    PROVE  Tunnels!TypeOK'
<1>1. CASE Tunnels!Clean(n)
  <2>1. pool[n] # Tunnels!NoTunnel /\ pool[n] \in SUBSET Connectors
    BY <1>1 DEF Tunnels!TypeOK, Tunnels!Clean, Tunnels!Members
  <2> QED
    BY <1>1, <2>1 DEF Tunnels!TypeOK, Tunnels!Clean, Tunnels!config, Tunnels!binding,
       Tunnels!dialing
<1>2. CASE Tunnels!CloseIdles(n)
  BY <1>2 DEF Tunnels!TypeOK, Tunnels!CloseIdles, Tunnels!config, Tunnels!binding,
     Tunnels!dialing
<1>3. CASE Tunnels!Close(n)
  BY <1>3, TunnelMembers DEF Tunnels!TypeOK, Tunnels!Close, Tunnels!Lost, Tunnels!config,
     Tunnels!binding
<1> QED
  BY <1>1, <1>2, <1>3

LEMMA VisitorTypes ==
    ASSUME Tunnels!TypeOK, NEW x \in Visitors, Tunnels!Visit(x) \/ Tunnels!Dialing(x)
    PROVE  Tunnels!TypeOK'
<1>1. /\ visit[x] \in Tunnels!DialRecords
      /\ visit[x].pc # "idle" => visit[x].node \in TunnelNodes
      /\ visit[x].pc = "open" => visit[x].try < Retry
  BY DEF Tunnels!TypeOK
<1>r. Retry \in Nat
  BY TunnelFacts
<1>2. Tunnels!NoDial \in Tunnels!DialRecords /\ Tunnels!NoDial.pc = "idle"
  BY NoVisitType DEF Tunnels!NoDial
<1>3. CASE Tunnels!Visit(x)
  <2>1. PICK n \in TunnelNodes \ shut, w \in Tunnels!Networks :
          Tunnels!Set(x, [Tunnels!NoDial EXCEPT !.pc = "try", !.node = n, !.net = w,
                                                !.near = Tunnels!Fitting(n, w) # {},
                                                !.hope = Tunnels!Hope(n, w) # {}])
    BY <1>3 DEF Tunnels!Visit
  <2> DEFINE d == [Tunnels!NoDial EXCEPT !.pc = "try", !.node = n, !.net = w,
                                         !.near = Tunnels!Fitting(n, w) # {},
                                         !.hope = Tunnels!Hope(n, w) # {}]
  <2>2. d \in Tunnels!DialRecords
    BY <1>2, <2>1 DEF Tunnels!DialRecords
  <2>3. d.pc = "try" /\ d.node = n
    BY <1>2 DEF Tunnels!DialRecords
  <2>4. Tunnels!Set(x, d) /\ Tunnels!OnlyDial
    BY <1>3, <2>1 DEF Tunnels!Visit
  <2> HIDE DEF d
  <2> QED
    BY <2>2, <2>3, <2>4, VisitType
<1>4. CASE Tunnels!Get(x)
  <2>1. visit[x].node \in TunnelNodes
    BY <1>4 DEF Tunnels!Get, Tunnels!TypeOK
  <2>2. Tunnels!GetConnector(visit[x].node, visit[x].net) \subseteq Connectors
    BY <2>1, TunnelMembers DEF Tunnels!GetConnector, Tunnels!Fitting
  <2> QED
    BY <1>1, <1>4, <2>1, <2>2, VisitType DEF Tunnels!Get, Tunnels!DialRecords
<1>5. CASE Tunnels!GetConn(x)
  <2>1. visit[x].try + 1 \in 0..Retry
    BY <1>1, <1>5, <1>r DEF Tunnels!GetConn, Tunnels!DialRecords
  <2>2. CASE visit[x].conn \in up
    <3>1. PICK d : /\ d = [Tunnels!NoDial EXCEPT !.pc = "connected", !.node = visit[x].node,
                                                 !.conn = visit[x].conn]
                   /\ Tunnels!Set(x, d) /\ Tunnels!OnlyDial
      BY <1>5, <2>2 DEF Tunnels!GetConn
    <3>2. d \in Tunnels!DialRecords /\ d.pc = "connected" /\ d.node \in TunnelNodes
      BY <1>1, <1>2, <1>5, <3>1 DEF Tunnels!DialRecords, Tunnels!GetConn
    <3> QED
      BY <3>1, <3>2, VisitType
  <2>3. CASE ~(visit[x].conn \in up)
    <3>1. PICK d : /\ d = [visit[x] EXCEPT !.pc = "try", !.try = @ + 1, !.failed = TRUE,
                                           !.conn = Tunnels!NoOne]
                   /\ Tunnels!Set(x, d) /\ Tunnels!OnlyDial
      BY <1>5, <2>3 DEF Tunnels!GetConn
    <3>2. d \in Tunnels!DialRecords /\ d.pc = "try" /\ d.node \in TunnelNodes
      BY <1>1, <1>5, <2>1, <3>1 DEF Tunnels!DialRecords, Tunnels!GetConn
    <3> QED
      BY <3>1, <3>2, VisitType
  <2> QED
    BY <2>2, <2>3
<1>6. CASE Tunnels!Lookup(x)
  BY <1>1, <1>6, VisitType DEF Tunnels!Lookup, Tunnels!Stale, Tunnels!DialRecords, Tunnels!TypeOK
<1>7. CASE Tunnels!DialNode(x)
  BY <1>1, <1>7, VisitType DEF Tunnels!DialNode, Tunnels!DialRecords
<1>8. CASE Tunnels!PeerAccept(x)
  BY <1>1, <1>8, VisitType DEF Tunnels!PeerAccept, Tunnels!DialRecords
<1>9. CASE Tunnels!End(x)
  BY <1>2, <1>9 DEF Tunnels!End, Tunnels!Set, Tunnels!TypeOK, Tunnels!config, Tunnels!binding
<1> QED
  BY <1>3, <1>4, <1>5, <1>6, <1>7, <1>8, <1>9 DEF Tunnels!Dialing

LEMMA TunnelNext == Tunnels!TypeOK /\ [Tunnels!Next]_tunnelVars => Tunnels!TypeOK'
<1> SUFFICES ASSUME Tunnels!TypeOK, [Tunnels!Next]_tunnelVars PROVE Tunnels!TypeOK'
  OBVIOUS
<1>1. CASE UNCHANGED tunnelVars
  BY <1>1 DEF tunnelVars, Tunnels!TypeOK
<1> QED
  BY <1>1, BindingTypes, PoolTypes, VisitorTypes DEF Tunnels!Next

-----------------------------------------------------------------------------
(* A look-up sees one table, of one moment, however the reloads of the     *)
(* object fall between its steps, and answers by the most specific rule.   *)
THEOREM OneTableAtATime == Tables!Spec => [](Tables!OneTable /\ Tables!MostSpecificWins)
<1>1. [Tables!Next]_(Tables!vars) => [Tables!Next]_tableVars
  BY DEF Tables!vars, tableVars
<1> QED
  BY <1>1, TableInit, TableNext, TableInvIsRight, PTL DEF Tables!Spec

(* Each side of a talk hears what the other said, in order and without a   *)
(* gap, whatever the handler peeked at, and no bypassed destination is     *)
(* dialled, for any script and any length of it.                           *)
THEOREM NobodyIsMisheard ==
    Handling!Spec => [](Handling!TalkIsKept /\ Handling!BypassedIsNotDialled)
<1>1. [Handling!Next]_(Handling!vars) => [Handling!Next]_handlerVars
  BY DEF Handling!vars, Handling!given, handlerVars
<1> QED
  BY <1>1, HandlerInit, HandlerNext, HandlerInvIsRight, PTL DEF Handling!Spec

(* The n-th answer that a client gets through a relay is that to its n-th  *)
(* request, interim responses and frames of a hasty server in between.     *)
THEOREM AnswersFitRequests == Relaying!Spec => []Relaying!AnswersMatch
<1>1. [Relaying!Next]_(Relaying!vars) => [Relaying!Next]_relayVars
  BY DEF Relaying!vars, relayVars
<1> QED
  BY <1>1, RelayInit, RelayNext, RelayInvIsRight, PTL DEF Relaying!Spec
=============================================================================
