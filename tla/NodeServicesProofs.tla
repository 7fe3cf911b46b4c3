------------------------- MODULE NodeServicesProofs -------------------------
(***************************************************************************)
(* Theorems about the services of a node.  A command is a job of many      *)
(* steps, and what is safe depends on where it is: JobOK says which phases *)
(* a command has and what it knows in each, JobInv adds it to the types.   *)
(***************************************************************************)
EXTENDS NodeServices, FiniteSetTheorems, TLAPS

-----------------------------------------------------------------------------
(* Finite sets of numbers: their members can be counted off.               *)

LEMMA Ranked ==
    ASSUME NEW n \in Nat, NEW K \in SUBSET (1..n)
    PROVE  /\ Cardinality(K) \in Nat
           /\ \A i \in 1..Cardinality(K) :
                 \E k \in K : Cardinality({l \in K : l <= k}) = i
           /\ \A k \in K : Cardinality({l \in K : l <= k}) \in 1..Cardinality(K)
           /\ \A k, m \in K :
                 Cardinality({l \in K : l <= k}) = Cardinality({l \in K : l <= m}) => k = m
<1> DEFINE Upto(k) == {l \in K : l <= k}
           c == Cardinality(K)
           rank == [k \in K |-> Cardinality(Upto(k))]
<1>1. IsFiniteSet(K)
  <2>1. IsFiniteSet(1..n)
    BY FS_Interval
  <2> QED BY <2>1, FS_Subset
<1>2. c \in Nat
  BY <1>1, FS_CardinalityType
<1>3. \A k \in K : /\ IsFiniteSet(Upto(k)) /\ Cardinality(Upto(k)) \in Nat
                   /\ Cardinality(Upto(k)) <= c
  <2> SUFFICES ASSUME NEW k \in K
               PROVE  /\ IsFiniteSet(Upto(k)) /\ Cardinality(Upto(k)) \in Nat
                      /\ Cardinality(Upto(k)) <= c
    OBVIOUS
  <2>1. Upto(k) \in SUBSET K
    OBVIOUS
  <2> QED BY <1>1, <2>1, FS_Subset, FS_CardinalityType
<1>4. ASSUME NEW k \in K, NEW m \in K, k < m
      PROVE  Cardinality(Upto(k)) < Cardinality(Upto(m))
  <2>1. Upto(k) \in SUBSET Upto(m) /\ Upto(k) # Upto(m)
    <3>1. k \in Int /\ m \in Int /\ \A l \in K : l \in Int
      OBVIOUS
    <3>2. \A l \in K : l <= k => l <= m
      BY <1>4, <3>1
    <3>3. m \in Upto(m) /\ m \notin Upto(k)
      BY <1>4, <3>1
    <3>4. Upto(k) \in SUBSET Upto(m)
      BY <3>2
    <3> QED BY <3>3, <3>4
  <2> HIDE DEF Upto
  <2>2. /\ Cardinality(Upto(k)) <= Cardinality(Upto(m))
        /\ Cardinality(Upto(k)) # Cardinality(Upto(m))
    BY <2>1, <1>3, FS_Subset
  <2> QED BY <2>2, <1>3
<1>5. \A k \in K : Cardinality(Upto(k)) >= 1
  <2> SUFFICES ASSUME NEW k \in K PROVE Cardinality(Upto(k)) >= 1
    OBVIOUS
  <2>1. Upto(k) # {}
    OBVIOUS
  <2> HIDE DEF Upto
  <2>2. Cardinality(Upto(k)) # 0
    BY <2>1, <1>3, FS_EmptySet
  <2> QED BY <2>2, <1>3
<1> HIDE DEF Upto
<1>6. rank \in [K -> 1..c]
  BY <1>2, <1>3, <1>5
<1>7. ASSUME NEW k \in K, NEW m \in K, rank[k] = rank[m]
      PROVE  k = m
  BY <1>4, <1>7, <1>3
<1>8. rank \in Injection(K, 1..c)
  BY <1>6, <1>7 DEF Injection, IsInjective
<1>9. IsFiniteSet(1..c) /\ Cardinality(1..c) = c
  <2> HIDE DEF c
  <2> QED BY <1>2, FS_Interval
<1>10. rank \in Surjection(K, 1..c)
  BY <1>8, <1>9, FS_Injection
<1>11. \A i \in 1..c : \E k \in K : Cardinality(Upto(k)) = i
  BY <1>10 DEF Surjection
<1>12. \A k \in K : Cardinality(Upto(k)) \in 1..c
  BY <1>2, <1>3, <1>5
<1>13. \A k, m \in K : Cardinality(Upto(k)) = Cardinality(Upto(m)) => k = m
  BY <1>7
<1> QED BY <1>2, <1>11, <1>12, <1>13 DEF Upto

(* So there is a least and a greatest member.                              *)
LEMMA Extremes ==
    ASSUME NEW n \in Nat, NEW K \in SUBSET (1..n), K # {}
    PROVE  /\ \E m \in K : \A l \in K : m <= l
           /\ \E m \in K : \A l \in K : l <= m
<1>1. IsFiniteSet(K) /\ Cardinality(K) \in Nat
  <2>1. IsFiniteSet(1..n)
    BY FS_Interval
  <2> QED BY <2>1, FS_Subset, FS_CardinalityType
<1>2. Cardinality(K) >= 1
  BY <1>1, FS_EmptySet
<1> DEFINE c == Cardinality(K)
<1>0. \A i \in 1..c : \E k \in K : Cardinality({l \in K : l <= k}) = i
  BY Ranked
<1>a. 1 \in 1..c /\ c \in 1..c
  BY <1>1, <1>2
<1> HIDE DEF c
<1>3. PICK a \in K : Cardinality({l \in K : l <= a}) = 1
  BY <1>0, <1>a
<1>4. \A l \in K : a <= l
  <2> SUFFICES ASSUME NEW l \in K, l < a PROVE FALSE
    OBVIOUS
  <2>0. l \in Int /\ a \in Int /\ \A k \in K : k \in Int
    OBVIOUS
  <2>1. {k \in K : k <= l} \in SUBSET {k \in K : k <= a}
    <3>1. \A k \in K : k <= l => k <= a
      BY <2>0
    <3> QED BY <3>1
  <2>2. l \in {k \in K : k <= l} /\ a \in {k \in K : k <= a} /\ a \notin {k \in K : k <= l}
    OBVIOUS
  <2>3. PICK S : S = {k \in K : k <= l}
    OBVIOUS
  <2>4. PICK T : T = {k \in K : k <= a}
    OBVIOUS
  <2>5. IsFiniteSet(T) /\ Cardinality(T) = 1 /\ IsFiniteSet(S) /\ S \in SUBSET T /\ S # T /\ S # {}
    BY <1>1, <1>3, <2>1, <2>2, <2>3, <2>4, FS_Subset
  <2>6. Cardinality(S) \in Nat /\ Cardinality(S) <= 1 /\ Cardinality(S) # 1 /\ Cardinality(S) # 0
    BY <2>5, FS_Subset, FS_CardinalityType, FS_EmptySet
  <2> QED BY <2>6
<1>5. PICK z \in K : Cardinality({l \in K : l <= z}) = Cardinality(K)
  BY <1>0, <1>a DEF c
<1>6. {l \in K : l <= z} = K
  <2>1. {l \in K : l <= z} \in SUBSET K
    OBVIOUS
  <2> QED BY <2>1, <1>1, <1>5, FS_Subset
<1> QED BY <1>4, <1>6

(* What is picked from a sequence is a sequence of its members.            *)
LEMMA OnlyType ==
    ASSUME NEW S, NEW s \in Seq(S), NEW K \in SUBSET (DOMAIN s)
    PROVE  /\ Only(s, K) \in Seq(S)
           /\ Len(Only(s, K)) = Cardinality(K)
           /\ \A i \in DOMAIN Only(s, K) : \E k \in K : Only(s, K)[i] = s[k]
           /\ \A i \in DOMAIN Only(s, K) :
                 Place(K, i) \in K /\ Only(s, K)[i] = s[Place(K, i)]
<1>1. DOMAIN s = 1..Len(s) /\ Len(s) \in Nat
  OBVIOUS
<1>2. /\ Cardinality(K) \in Nat
      /\ \A i \in 1..Cardinality(K) : Place(K, i) \in K
  <2>1. /\ Cardinality(K) \in Nat
        /\ \A i \in 1..Cardinality(K) :
              \E k \in K : Cardinality({l \in K : l <= k}) = i
    BY <1>1, Ranked
  <2> QED BY <2>1 DEF Place
<1> DEFINE c == Cardinality(K)
<1> HIDE DEF c
<1>3. Only(s, K) = [i \in 1..c |-> s[Place(K, i)]]
  BY DEF Only, c
<1>4. \A i \in 1..c : Place(K, i) \in K /\ s[Place(K, i)] \in S
  BY <1>1, <1>2 DEF c
<1>5. c \in Nat
  BY <1>2 DEF c
<1>6. Only(s, K) \in Seq(S) /\ Len(Only(s, K)) = c /\ DOMAIN Only(s, K) = 1..c
  BY <1>3, <1>4, <1>5
<1> QED BY <1>3, <1>4, <1>6 DEF c

-----------------------------------------------------------------------------
(* Where a job can be.                                                     *)

Phases(op) ==
    CASE op = "none"   -> {"idle"}
      [] op = "save"   -> {"create", "write"}
      [] op = "reload" -> {"clear", "load"}
      [] op = "create" -> {"parse", "register", "serve", "config"}
      [] op = "update" -> {"check", "close", "unload", "forget", "renew", "reregister", "config"}
      [] op = "delete" -> {"check", "unload", "forget", "closeFound", "config"}
      [] op = "pause"  -> {"check", "stop", "undo", "config"}
      [] op = "resume" -> {"check", "close", "unload", "forget", "renew", "reregister",
                           "undo", "config"}

Operations == {"none", "save", "reload", "create", "update", "delete", "pause", "resume"}

(* The phases that work on one service after the other.                    *)
OnHeld  == {"register", "close", "unload", "forget", "renew", "reregister", "closeFound",
            "stop", "undo"}
Working == {"parse"} \cup OnHeld

Jobs == [op : Operations, pc : UNION {Phases(op) : op \in Operations},
         items : Seq(Item), i : Nat \ {0}, held : Seq(Ids)]

JobOK(e, j) ==
    /\ j \in Jobs
    /\ j.pc \in Phases(j.op)
    /\ j.op = "none" => j = Idle
    /\ e \in Signals => j.op \in {"none", "reload"}
    /\ j.op = "reload" => e \in Signals
    /\ j.op = "save" => e \in Sockets
    /\ j.op \in {"create", "update", "reload"} => \A k \in DOMAIN j.items : j.items[k].addr \in Addrs
    /\ j.pc \in Working => j.i <= Len(j.items)
    /\ j.pc \in OnHeld => Len(j.held) = Len(j.items)
    /\ j.pc = "parse" => Len(j.held) = j.i - 1

JobInv == job \in [Executors -> Jobs] /\ \A e \in Executors : JobOK(e, job[e])

TypeInv == TypeOK /\ JobInv

(* A step of e that leaves the other jobs alone.                           *)
Moves(e) == \E j : JobOK(e, j) /\ job' = [job EXCEPT ![e] = j]

LEMMA MovesKeeps ==
    ASSUME JobInv, NEW e \in Executors, Moves(e)
    PROVE  JobInv'
<1>1. PICK j : JobOK(e, j) /\ job' = [job EXCEPT ![e] = j]
  BY DEF Moves
<1>2. j \in Jobs
  BY <1>1 DEF JobOK
<1>3. job' \in [Executors -> Jobs]
  BY <1>1, <1>2 DEF JobInv
<1>4. \A f \in Executors : job'[f] = IF f = e THEN j ELSE job[f]
  BY <1>1 DEF JobInv
<1>5. \A f \in Executors : JobOK(f, job'[f])
  BY <1>1, <1>4 DEF JobInv
<1> QED BY <1>3, <1>5 DEF JobInv

LEMMA IdleOK == \A e \in Executors : JobOK(e, Idle)
<1>1. Idle \in Jobs
  BY DEF Idle, Jobs, Operations, Phases
<1> QED BY <1>1 DEF JobOK, Idle, Phases, Working, OnHeld

LEMMA EndedOK == \A e \in Executors : JobOK(e, Ended(e))
<1> SUFFICES ASSUME NEW e \in Executors PROVE JobOK(e, Ended(e))
  OBVIOUS
<1>1. CASE e \notin Sockets
  BY <1>1, IdleOK DEF Ended
<1>2. CASE e \in Sockets
  <2>1. Ended(e) = [op |-> "save", pc |-> "create", items |-> <<>>, i |-> 1, held |-> <<>>]
    BY <1>2 DEF Ended, Idle
  <2>2. Ended(e) \in Jobs
    BY <2>1 DEF Jobs, Operations, Phases
  <2>3. e \notin Signals
    BY <1>2, ServicesAssumption
  <2> QED BY <1>2, <2>1, <2>2, <2>3 DEF JobOK, Phases, Working, OnHeld
<1> QED BY <1>1, <1>2

LEMMA FinishMoves ==
    ASSUME NEW e \in Executors, Finish(e) \/ job' = [job EXCEPT ![e] = Idle]
    PROVE  Moves(e)
BY IdleOK, EndedOK DEF Moves, Finish

(* A job, field by field.                                                  *)
IsJob(e, b) ==
    /\ JobOK(e, b)
    /\ b.op \in Operations /\ b.pc \in Phases(b.op)
    /\ b.items \in Seq(Item) /\ b.held \in Seq(Ids)
    /\ b.i \in Nat \ {0} /\ Len(b.items) \in Nat
    /\ DOMAIN b.items = 1..Len(b.items) /\ DOMAIN b.held = 1..Len(b.held)
    /\ b = [op |-> b.op, pc |-> b.pc, items |-> b.items, i |-> b.i, held |-> b.held]

LEMMA JobFields ==
    ASSUME JobInv, NEW e \in Executors
    PROVE  \E b : b = job[e] /\ IsJob(e, b)
<1>1. JobOK(e, job[e]) /\ job[e] \in Jobs
  BY DEF JobInv
<1> QED BY <1>1 DEF Jobs, JobOK, IsJob

LEMMA CurrentType ==
    ASSUME JobInv, NEW e \in Executors, job[e].pc \in Working
    PROVE  /\ job[e].i \in 1..Len(job[e].items)
           /\ Current(e) \in Item /\ Current(e).name \in Names
           /\ Current(e).addr \in Addrs \cup {NoAddr}
           /\ job[e].pc \in OnHeld => job[e].held[job[e].i] \in Ids
<1>0. PICK b : b = job[e] /\ IsJob(e, b)
  BY JobFields
<1>1. b.i \in 1..Len(b.items)
  BY <1>0 DEF IsJob, JobOK
<1>2. b.items[b.i] \in Item
  BY <1>0, <1>1 DEF IsJob
<1>3. b.pc \in OnHeld => b.held[b.i] \in Ids
  BY <1>0, <1>1 DEF IsJob, JobOK
<1> QED BY <1>0, <1>1, <1>2, <1>3 DEF Item, Current

(* The services a job works on.                                            *)
LEMMA NamesOf ==
    ASSUME NEW e, NEW b, IsJob(e, b)
    PROVE  /\ \A k \in 1..Len(b.items) : b.items[k] \in Item /\ b.items[k].name \in Names
           /\ \A s \in ToSet(b.items) : s.name \in Names
<1>1. \A k \in 1..Len(b.items) : b.items[k] \in Item
  BY DEF IsJob
<1>2. \A k \in 1..Len(b.items) : b.items[k].name \in Names
  BY <1>1 DEF Item
<1>3. DOMAIN b.items = 1..Len(b.items)
  BY DEF IsJob
<1> QED BY <1>1, <1>2, <1>3 DEF ToSet

LEMMA GoToMoves ==
    ASSUME JobInv, NEW e \in Executors, NEW pc, GoTo(e, pc), pc \in Phases(job[e].op),
           job[e].op # "none", pc # "parse", pc \in OnHeld => job[e].pc \in OnHeld
    PROVE  Moves(e)
<1>0. PICK b : b = job[e] /\ IsJob(e, b)
  BY JobFields
<1>1. PICK j : j = [op |-> b.op, pc |-> pc, items |-> b.items, i |-> b.i, held |-> b.held]
  OBVIOUS
<1>2. job' = [job EXCEPT ![e] = j]
  <2>1. j = [b EXCEPT !.pc = pc]
    BY <1>0, <1>1 DEF IsJob
  <2> QED BY <1>0, <2>1 DEF GoTo
<1>3. j \in Jobs
  BY <1>0, <1>1 DEF Jobs, IsJob
<1>4. JobOK(e, j)
  BY <1>0, <1>1, <1>3 DEF IsJob, JobOK, Working
<1> QED BY <1>2, <1>4 DEF Moves

LEMMA EachMoves ==
    ASSUME JobInv, NEW e \in Executors, NEW again \in OnHeld, NEW after, Each(e, again, after),
           job[e].pc \in OnHeld, {again, after} \subseteq Phases(job[e].op), after \notin Working,
           job[e].op # "none"
    PROVE  Moves(e)
<1>0. PICK b : b = job[e] /\ IsJob(e, b)
  BY JobFields
<1>1. PICK p, k : /\ p = IF b.i < Len(b.items) THEN again ELSE after
                  /\ k = IF b.i < Len(b.items) THEN b.i + 1 ELSE 1
  OBVIOUS
<1>2. PICK j : j = [op |-> b.op, pc |-> p, items |-> b.items, i |-> k, held |-> b.held]
  OBVIOUS
<1>3. job' = [job EXCEPT ![e] = j]
  <2>0. PICK c : c = [b EXCEPT !.i = k]
    OBVIOUS
  <2>1. c = [op |-> b.op, pc |-> b.pc, items |-> b.items, i |-> k, held |-> b.held]
    BY <1>0, <2>0 DEF IsJob
  <2>3. j = [c EXCEPT !.pc = p]
    BY <2>1, <1>2
  <2>2. job' = [job EXCEPT ![e].i = k, ![e].pc = p]
    BY <1>0, <1>1 DEF Each
  <2>4. job' = [job EXCEPT ![e] = [[job[e] EXCEPT !.i = k] EXCEPT !.pc = p]]
    BY <2>2
  <2> QED BY <1>0, <2>0, <2>3, <2>4
<1>4. /\ p \in Phases(b.op) /\ p # "parse" /\ (p \in OnHeld => k <= Len(b.items))
      /\ k \in Nat \ {0} /\ (p \in Working => p \in OnHeld)
  BY <1>0, <1>1 DEF IsJob, Working, OnHeld
<1>5. j \in Jobs
  BY <1>0, <1>2, <1>4 DEF Jobs, IsJob
<1>6. JobOK(e, j)
  BY <1>0, <1>2, <1>4, <1>5 DEF IsJob, JobOK
<1> QED BY <1>3, <1>6 DEF Moves

-----------------------------------------------------------------------------
(* What the steps are made of keeps the types.                             *)

LEMMA FreshIsFree == ASSUME FreeIds # {} PROVE Fresh \in FreeIds /\ Fresh \in Ids
<1>1. FreeIds \in SUBSET (1..MaxInst) /\ MaxInst \in Nat
  BY ServicesAssumption DEF FreeIds, Ids
<1>2. \E id \in FreeIds : \A other \in FreeIds : id <= other
  BY <1>1, Extremes
<1> QED BY <1>2 DEF Fresh, FreeIds

LEMMA CloseType ==
    ASSUME TypeOK, NEW ids, Close(ids)
    PROVE  /\ bound' \in [Ids -> Addrs \cup {NoAddr}]
           /\ serving' \subseteq Ids /\ serving' = serving \ ids
BY DEF Close, TypeOK

LEMMA ParsedType ==
    ASSUME TypeOK, NEW a \in Addrs \cup {NoAddr}, ParseOK(a), Parsed(a)
    PROVE  bound' \in [Ids -> Addrs \cup {NoAddr}] /\ Fresh \in Ids
BY FreshIsFree DEF ParseOK, Parsed, TypeOK

LEMMA ParseFailsType ==
    ASSUME TypeOK, NEW a \in Addrs \cup {NoAddr}, ParseFails(a)
    PROVE  /\ bound' \in [Ids -> Addrs \cup {NoAddr}]
           /\ failures' \in Nat /\ faults' \in Nat
<1>1. CASE Taken(a) /\ failures' = 1 /\ UNCHANGED <<bound, faults>>
  BY <1>1 DEF TypeOK
<1>2. CASE /\ faults' = faults + 1 /\ failures' = 1
           /\ UNCHANGED bound \/ (ParseOK(a) /\ Parsed(a))
  BY <1>2, ParsedType DEF TypeOK
<1> QED BY <1>1, <1>2 DEF ParseFails

(* Who serves is registered: FirstOf and AddrOf find an entry.             *)
LEMMA FirstOfType ==
    ASSUME config \in Seq(Entry), NEW n, EntriesOf(n) # {}
    PROVE  FirstOf(n) \in EntriesOf(n) /\ config[FirstOf(n)] \in Entry
<1>1. EntriesOf(n) \in SUBSET (1..Len(config)) /\ Len(config) \in Nat
  BY DEF EntriesOf
<1>2. \E k \in EntriesOf(n) : \A l \in EntriesOf(n) : k <= l
  BY <1>1, Extremes
<1>3. FirstOf(n) \in EntriesOf(n)
  BY <1>2 DEF FirstOf
<1> QED BY <1>3 DEF EntriesOf

LEMMA AddrOfType ==
    ASSUME config \in Seq(Entry), NEW n
    PROVE  AddrOf(n) \in Addrs \cup {NoAddr}
BY FirstOfType DEF AddrOf, Entry

LEMMA SetPausedType ==
    ASSUME NEW c \in Seq(Entry), NEW names, NEW p \in BOOLEAN
    PROVE  SetPaused(c, names, p) \in Seq(Entry)
<1>1. ASSUME NEW r \in Entry PROVE [r EXCEPT !.paused = p] \in Entry
  BY DEF Entry
<1>2. DOMAIN c = 1..Len(c) /\ Len(c) \in Nat /\ \A k \in DOMAIN c : c[k] \in Entry
  OBVIOUS
<1>3. \A k \in DOMAIN c : SetPaused(c, names, p)[k] \in Entry
  BY <1>1, <1>2 DEF SetPaused
<1>4. SetPaused(c, names, p) = [k \in 1..Len(c) |-> SetPaused(c, names, p)[k]]
  BY <1>2 DEF SetPaused
<1> QED BY <1>2, <1>3, <1>4

(* A command of e starts.                                                  *)
Commands(e) ==
    \/ e \in Sockets /\ MasterCommand(e)
    \/ e \in Requests /\ RestCommand(e)
    \/ e \in Signals /\ Reload(e)

LEMMA RequestedType ==
    ASSUME NEW addrs \in SUBSET (Addrs \cup {NoAddr}), NEW items \in Requested(addrs)
    PROVE  /\ items \in Seq(Item) /\ Len(items) >= 1
           /\ \A k \in DOMAIN items : items[k].addr \in addrs
<1>1. PICK n \in 1..MaxBatch : items \in [1..n -> [name : Names, addr : addrs]]
  BY DEF Requested
<1>2. n \in Nat /\ n >= 1
  BY ServicesAssumption
<1>3. [name : Names, addr : addrs] \subseteq Item
  BY DEF Item
<1> QED BY <1>1, <1>2, <1>3

LEMMA CommandBegins ==
    ASSUME NEW e \in Executors, Commands(e)
    PROVE  \E op \in Operations \ {"none", "save"}, items \in Seq(Item) :
              /\ Begin(e, op, items)
              /\ e \in Signals <=> op = "reload"
              /\ op # "reload" => Len(items) >= 1
              /\ op = "reload" => items = <<>>
              /\ op \in {"create", "update"} =>
                    \A k \in DOMAIN items : items[k].addr \in Addrs
<1> USE DEF Operations
<1>1. CASE e \in Signals /\ Reload(e)
  <2>1. Begin(e, "reload", <<>>) /\ <<>> \in Seq(Item)
    BY <1>1 DEF Reload
  <2>2. "reload" \in Operations \ {"none", "save"}
    OBVIOUS
  <2> WITNESS "reload" \in Operations \ {"none", "save"}, <<>> \in Seq(Item)
  <2> QED BY <1>1, <2>1
<1>2. CASE e \notin Signals
  <2>1. \/ \E op \in {"create", "update"}, items \in Requested(Addrs) : Begin(e, op, items)
        \/ \E op \in {"delete", "pause", "resume"}, items \in Requested({NoAddr}) :
              Begin(e, op, items)
    BY <1>2 DEF Commands, MasterCommand, RestCommand, CreateOne, CreateBatch, UpdateOne,
                UpdateBatch, DeleteOne, DeleteBatch, PauseOne, PauseBatch, ResumeOne,
                ResumeBatch, Single
  <2>2. CASE \E op \in {"create", "update"}, items \in Requested(Addrs) : Begin(e, op, items)
    BY <1>2, <2>2, RequestedType
  <2>3. CASE \E op \in {"delete", "pause", "resume"}, items \in Requested({NoAddr}) :
                Begin(e, op, items)
    BY <1>2, <2>3, RequestedType
  <2> QED BY <2>1, <2>2, <2>3
<1> QED BY <1>1, <1>2, ServicesAssumption DEF Commands

-----------------------------------------------------------------------------
(* Every step keeps TypeInv.                                               *)

LEMMA TypesKept ==
    ASSUME JobInv', registry' \in [Names -> Ids \cup {0}],
           bound' \in [Ids -> Addrs \cup {NoAddr}], serving' \subseteq Ids,
           config' \in Seq(Entry), file' = Torn \/ file' \in Seq(Entry),
           {up, overlap, rest, loaded}' \subseteq BOOLEAN,
           {commands, failures, faults, crashes}' \subseteq Nat
    PROVE  TypeInv'
<1>1. ASSUME NEW e \in Executors PROVE job'[e].items \in Seq(Item) /\ job'[e].held \in Seq(Ids)
  <2>1. job'[e] \in Jobs
    BY DEF JobInv
  <2> QED BY <2>1 DEF Jobs
<1> QED BY <1>1 DEF TypeInv, TypeOK

LEMMA CommandTypes ==
    ASSUME TypeInv, NEW e \in Executors, Commands(e)
    PROVE  TypeInv'
<1>1. PICK op \in Operations \ {"none", "save"}, items \in Seq(Item) :
              /\ Begin(e, op, items)
              /\ e \in Signals <=> op = "reload"
              /\ op # "reload" => Len(items) >= 1
              /\ op = "reload" => items = <<>>
              /\ op \in {"create", "update"} =>
                    \A k \in DOMAIN items : items[k].addr \in Addrs
  BY CommandBegins
<1>2. PICK j : j = [op |-> op, pc |-> FirstPhase(op), items |-> items, i |-> 1, held |-> <<>>]
  OBVIOUS
<1>3. job' = [job EXCEPT ![e] = j]
  <2>1. PICK c : c = [Idle EXCEPT !.op = op]
    OBVIOUS
  <2>2. c = [op |-> op, pc |-> "idle", items |-> <<>>, i |-> 1, held |-> <<>>]
    BY <2>1 DEF Idle
  <2>3. PICK d : d = [c EXCEPT !.items = items]
    OBVIOUS
  <2>4. d = [op |-> op, pc |-> "idle", items |-> items, i |-> 1, held |-> <<>>]
    BY <2>2, <2>3
  <2>5. j = [d EXCEPT !.pc = FirstPhase(op)]
    BY <1>2, <2>4
  <2>6. job' = [job EXCEPT ![e] = [[[Idle EXCEPT !.op = op] EXCEPT !.items = items]
                                                       EXCEPT !.pc = FirstPhase(op)]]
    BY <1>1 DEF Begin
  <2> QED BY <2>1, <2>3, <2>5, <2>6
<1>4. FirstPhase(op) \in Phases(op)
  BY DEF FirstPhase, Phases, Operations
<1>5. /\ FirstPhase(op) \in Working => op # "reload"
      /\ FirstPhase(op) \notin OnHeld
  BY DEF FirstPhase, Working, OnHeld, Operations
<1>6. j \in Jobs
  BY <1>2, <1>4 DEF Jobs
<1>7. JobOK(e, j)
  BY <1>1, <1>2, <1>4, <1>5, <1>6 DEF JobOK
<1>8. JobInv'
  BY <1>3, <1>7, MovesKeeps DEF TypeInv, Moves
<1>9. overlap' \in BOOLEAN /\ rest' \in BOOLEAN /\ commands' \in Nat
  BY <1>1 DEF Begin, TypeInv, TypeOK
<1> QED BY <1>1, <1>8, <1>9, TypesKept DEF Begin, TypeInv, TypeOK

(* Nothing is left of the process.                                         *)
LEMMA StoppedTypes ==
    ASSUME TypeInv, /\ up' = FALSE /\ registry' = [n \in Names |-> 0]
                    /\ bound' = [id \in Ids |-> NoAddr] /\ serving' = {} /\ config' = <<>>
                    /\ job' = [f \in Executors |-> Idle],
           crashes' \in Nat,
           UNCHANGED <<file, commands, failures, faults, overlap, rest, loaded>>
    PROVE  TypeInv'
<1>1. JobInv'
  BY IdleOK DEF JobInv, JobOK
<1>2. registry' \in [Names -> Ids \cup {0}]
  <2>1. registry' = [n \in Names |-> 0]
    OBVIOUS
  <2> QED BY <2>1
<1>4. bound' \in [Ids -> Addrs \cup {NoAddr}]
  <2>1. bound' = [id \in Ids |-> NoAddr]
    OBVIOUS
  <2> QED BY <2>1
<1>5. serving' \subseteq Ids /\ config' \in Seq(Entry) /\ up' \in BOOLEAN
  <2>1. serving' = {} /\ config' = <<>> /\ up' = FALSE
    OBVIOUS
  <2>2. <<>> \in Seq(Entry)
    OBVIOUS
  <2> QED BY <2>1, <2>2
<1>3. /\ file' = Torn \/ file' \in Seq(Entry)
      /\ {overlap', rest', loaded'} \subseteq BOOLEAN
      /\ {commands', failures', faults', crashes'} \subseteq Nat
  BY DEF TypeInv, TypeOK
<1> QED BY <1>1, <1>2, <1>3, <1>4, <1>5, TypesKept

LEMMA CrashTypes == ASSUME TypeInv, Crash PROVE TypeInv'
<1>1. crashes' \in Nat
  BY DEF Crash, TypeInv, TypeOK
<1> QED BY <1>1, StoppedTypes DEF Crash

(* Steps of a job that leave the memory, or the configuration, alone.      *)
LEMMA JobTypes ==
    ASSUME TypeInv, NEW e \in Executors, Moves(e),
           registry' \in [Names -> Ids \cup {0}],
           bound' \in [Ids -> Addrs \cup {NoAddr}], serving' \subseteq Ids,
           config' \in Seq(Entry), file' = Torn \/ file' \in Seq(Entry),
           loaded' \in BOOLEAN, failures' \in Nat, faults' \in Nat,
           UNCHANGED <<up, commands, crashes, overlap, rest>>
    PROVE  TypeInv'
<1>1. JobInv'
  BY MovesKeeps DEF TypeInv
<1> QED BY <1>1, TypesKept DEF TypeInv, TypeOK

LEMMA PanicTypes == ASSUME TypeInv, NEW e \in Executors, Panic(e) PROVE TypeInv'
<1>1. CASE e \in Sockets
  BY <1>1, StoppedTypes DEF Panic, Stopped, TypeInv, TypeOK
<1>2. CASE e \notin Sockets
  BY <1>2, FinishMoves, JobTypes DEF Panic, TypeInv, TypeOK, history
<1> QED BY <1>1, <1>2

LEMMA CreateParseTypes ==
    ASSUME TypeInv, NEW e \in Executors, CreateParse(e)
    PROVE  TypeInv'
<1>0. PICK b : b = job[e] /\ IsJob(e, b)
  BY JobFields DEF TypeInv
<1>1. /\ b.op = "create" /\ b.pc = "parse"
      /\ Current(e).addr \in Addrs \cup {NoAddr} /\ b.i \in 1..Len(b.items)
  BY <1>0, CurrentType DEF CreateParse, At, TypeInv, Working
<1>2. UNCHANGED <<registry, serving, config, file, up, commands, crashes, overlap, rest, loaded>>
  BY DEF CreateParse
<1>3. CASE Finish(e) /\ UNCHANGED <<bound, failures, faults>>
  BY <1>2, <1>3, FinishMoves, JobTypes DEF TypeInv, TypeOK
<1>4. CASE Finish(e) /\ ParseFails(Current(e).addr)
  BY <1>1, <1>2, <1>4, FinishMoves, ParseFailsType, JobTypes DEF TypeInv, TypeOK
<1>5. CASE /\ ParseOK(Current(e).addr) /\ Parsed(Current(e).addr)
           /\ job' = [job EXCEPT ![e].held = Append(@, Fresh),
                                ![e].i = IF b.i < Len(b.items) THEN b.i + 1 ELSE 1,
                                ![e].pc = IF b.i < Len(b.items) THEN "parse" ELSE "register"]
           /\ UNCHANGED <<failures, faults>>
  <2>1. bound' \in [Ids -> Addrs \cup {NoAddr}] /\ Fresh \in Ids
    BY <1>1, <1>5, ParsedType DEF TypeInv
  <2>2. PICK h, k, p : /\ h = Append(b.held, Fresh)
                       /\ k = IF b.i < Len(b.items) THEN b.i + 1 ELSE 1
                       /\ p = IF b.i < Len(b.items) THEN "parse" ELSE "register"
    OBVIOUS
  <2>3. PICK j : j = [op |-> "create", pc |-> p, items |-> b.items, i |-> k, held |-> h]
    OBVIOUS
  <2>4. /\ h \in Seq(Ids) /\ Len(h) = b.i /\ k \in Nat \ {0} /\ k <= Len(b.items)
        /\ p \in {"parse", "register"}
        /\ p = "parse" => Len(h) = k - 1
        /\ p = "register" => Len(h) = Len(b.items)
    BY <1>0, <1>1, <2>1, <2>2 DEF IsJob, JobOK
  <2>5. j \in Jobs
    BY <1>0, <2>3, <2>4 DEF Jobs, IsJob, Operations, Phases
  <2>6. JobOK(e, j)
    BY <1>0, <1>1, <2>3, <2>4, <2>5 DEF JobOK, IsJob, OnHeld, Phases
  <2>7. job' = [job EXCEPT ![e] = j]
    <3>1. PICK c : c = [b EXCEPT !.held = h]
      OBVIOUS
    <3>2. c = [op |-> b.op, pc |-> b.pc, items |-> b.items, i |-> b.i, held |-> h]
      BY <1>0, <3>1 DEF IsJob
    <3>3. PICK d : d = [c EXCEPT !.i = k]
      OBVIOUS
    <3>4. d = [op |-> b.op, pc |-> b.pc, items |-> b.items, i |-> k, held |-> h]
      BY <3>2, <3>3
    <3>5. j = [d EXCEPT !.pc = p]
      BY <1>1, <2>3, <3>4
    <3>6. job' = [job EXCEPT ![e] = [[[b EXCEPT !.held = h] EXCEPT !.i = k] EXCEPT !.pc = p]]
      BY <1>0, <1>5, <2>2
    <3> QED BY <3>1, <3>3, <3>5, <3>6
  <2> QED BY <1>2, <1>5, <2>1, <2>6, <2>7, JobTypes DEF Moves, TypeInv, TypeOK
<1> QED BY <1>0, <1>3, <1>4, <1>5 DEF CreateParse

LEMMA CreateRegisterTypes ==
    ASSUME TypeInv, NEW e \in Executors, CreateRegister(e)
    PROVE  TypeInv'
<1>1. /\ job[e].op = "create" /\ job[e].pc = "register" /\ Current(e).name \in Names
      /\ job[e].held[job[e].i] \in Ids
  BY CurrentType DEF CreateRegister, At, TypeInv, Working, OnHeld
<1>2. UNCHANGED <<config, file, up, history>>
  BY DEF CreateRegister
<1>3. CASE Current(e).name \in Registered
  <2>1. Finish(e) /\ \E ids : Close(ids)
    BY <1>3 DEF CreateRegister
  <2>2. registry' \in [Names -> Ids \cup {0}]
    BY <1>3 DEF CreateRegister, TypeInv, TypeOK
  <2> QED BY <1>2, <2>1, <2>2, FinishMoves, CloseType, JobTypes DEF TypeInv, TypeOK, history
<1>4. CASE Current(e).name \notin Registered
  <2>1. /\ Each(e, "register", "serve") /\ UNCHANGED <<bound, serving>>
        /\ registry' = [registry EXCEPT ![Current(e).name] = job[e].held[job[e].i]]
    BY <1>4 DEF CreateRegister
  <2>2. Moves(e)
    BY <1>1, <2>1, EachMoves DEF TypeInv, Phases, Working, OnHeld
  <2>3. registry' \in [Names -> Ids \cup {0}]
    BY <1>1, <2>1 DEF TypeInv, TypeOK
  <2> QED BY <1>2, <2>1, <2>2, <2>3, JobTypes DEF TypeInv, TypeOK, history
<1> QED BY <1>3, <1>4

LEMMA CreateServeTypes ==
    ASSUME TypeInv, NEW e \in Executors, CreateServe(e)
    PROVE  TypeInv'
<1>0. PICK b : b = job[e] /\ IsJob(e, b)
  BY JobFields DEF TypeInv
<1>1. b.op = "create" /\ GoTo(e, "config")
      /\ UNCHANGED <<registry, bound, config, file, up, history>>
  BY <1>0 DEF CreateServe, At
<1>2. Moves(e)
  BY <1>0, <1>1, GoToMoves DEF TypeInv, Phases, OnHeld
<1>3. \A s \in ToSet(b.items) : s.name \in Names
  BY <1>0, NamesOf
<1>4. serving' \subseteq Ids
  BY <1>0, <1>3 DEF CreateServe, TypeInv, TypeOK
<1> QED BY <1>1, <1>2, <1>4, JobTypes DEF TypeInv, TypeOK, history

(* What a create appends to the configuration.                             *)
Appended(b) == [k \in DOMAIN b.items |->
                   [name |-> b.items[k].name, addr |-> b.items[k].addr, paused |-> FALSE]]

LEMMA AppendedType ==
    ASSUME NEW e, NEW b, IsJob(e, b), b.op = "create"
    PROVE  /\ Appended(b) \in Seq(Entry) /\ Len(Appended(b)) = Len(b.items)
           /\ \A k \in 1..Len(b.items) : Appended(b)[k].name = b.items[k].name
<1>1. DOMAIN b.items = 1..Len(b.items) /\ Len(b.items) \in Nat
  BY DEF IsJob
<1>2. \A k \in 1..Len(b.items) : b.items[k].name \in Names /\ b.items[k].addr \in Addrs
  <2>1. \A k \in DOMAIN b.items : b.items[k].addr \in Addrs
    BY DEF IsJob, JobOK
  <2> QED BY <1>1, <2>1, NamesOf
<1>3. \A k \in 1..Len(b.items) : Appended(b)[k] \in Entry
  BY <1>1, <1>2 DEF Entry, Appended
<1>4. Appended(b) = [k \in 1..Len(b.items) |-> Appended(b)[k]]
  BY <1>1 DEF Appended
<1>5. Appended(b) \in Seq(Entry) /\ Len(Appended(b)) = Len(b.items)
  BY <1>1, <1>3, <1>4
<1> QED BY <1>1, <1>5 DEF Appended

LEMMA CreateConfigTypes ==
    ASSUME TypeInv, NEW e \in Executors, CreateConfig(e)
    PROVE  TypeInv'
<1>0. PICK b : b = job[e] /\ IsJob(e, b)
  BY JobFields DEF TypeInv
<1>1. /\ b.op = "create" /\ Finish(e) /\ config' = config \o Appended(b)
      /\ UNCHANGED <<registry, bound, serving, file, up, history>>
  BY <1>0 DEF CreateConfig, At, Appended
<1>2. config' \in Seq(Entry)
  BY <1>0, <1>1, AppendedType DEF TypeInv, TypeOK
<1> QED BY <1>1, <1>2, FinishMoves, JobTypes DEF TypeInv, TypeOK, history

(* What Check selects of the services of a job.                            *)
LEMMA SelectedType ==
    ASSUME NEW e, NEW b, b = job[e], IsJob(e, b)
    PROVE  \E sel \in Seq(Item) :
              /\ sel = Selected(e)
              /\ \A i \in DOMAIN sel : \E k \in DOMAIN b.items : sel[i] = b.items[k]
<1> DEFINE Chosen(s) == CASE job[e].op = "resume" -> IsPaused(s.name)
                          [] job[e].op = "pause" -> e \in Sockets \/ ~IsPaused(s.name)
                          [] OTHER -> TRUE
<1>1. PICK K : K = {k \in DOMAIN b.items : Chosen(b.items[k])}
  OBVIOUS
<1>2. Selected(e) = Only(b.items, K)
  BY <1>1 DEF Selected
<1>3. K \in SUBSET (DOMAIN b.items) /\ b.items \in Seq(Item)
  BY <1>1 DEF IsJob
<1> HIDE DEF Chosen
<1>4. /\ Only(b.items, K) \in Seq(Item)
      /\ \A i \in DOMAIN Only(b.items, K) : \E k \in K : Only(b.items, K)[i] = b.items[k]
  BY <1>3, OnlyType
<1> QED BY <1>2, <1>3, <1>4

LEMMA CheckTypes ==
    ASSUME TypeInv, NEW e \in Executors, Check(e)
    PROVE  TypeInv'
<1>0. PICK b : b = job[e] /\ IsJob(e, b)
  BY JobFields DEF TypeInv
<1>1. b.pc = "check" /\ UNCHANGED <<registry, bound, serving, config, file, up, history>>
  BY <1>0 DEF Check
<1>2. CASE Finish(e)
  BY <1>1, <1>2, FinishMoves, JobTypes DEF TypeInv, TypeOK, history
<1>3. CASE ~Finish(e)
  <2>1. PICK sel \in Seq(Item) :
              /\ sel = Selected(e)
              /\ \A i \in DOMAIN sel : \E k \in DOMAIN b.items : sel[i] = b.items[k]
    BY <1>0, SelectedType
  <2>2. PICK pc, items, held :
          /\ pc = IF sel = <<>> THEN "config" ELSE AfterCheck(b.op)
          /\ items = [k \in DOMAIN sel |-> IF b.op = "update" THEN sel[k]
                                ELSE [sel[k] EXCEPT !.addr = AddrOf(sel[k].name)]]
          /\ held = [k \in DOMAIN sel |-> registry[sel[k].name]]
    OBVIOUS
  <2>3. PICK j : j = [op |-> b.op, pc |-> pc, items |-> items, i |-> 1, held |-> held]
    OBVIOUS
  <2>4. AllFound(e) /\ job' = [job EXCEPT ![e] = j]
    <3>1. j = [op |-> b.op, i |-> 1, pc |-> pc, items |-> items, held |-> held]
      BY <2>3
    <3> QED BY <1>0, <1>3, <2>1, <2>2, <3>1 DEF Check
  <2>5. DOMAIN sel = 1..Len(sel) /\ Len(sel) \in Nat /\ \A k \in 1..Len(sel) : sel[k] \in Item
    BY <2>1
  <2>6. items \in Seq(Item) /\ Len(items) = Len(sel)
    <3>1. \A k \in 1..Len(sel) : items[k] \in Item
      <4> SUFFICES ASSUME NEW k \in 1..Len(sel) PROVE items[k] \in Item
        OBVIOUS
      <4>1. AddrOf(sel[k].name) \in Addrs \cup {NoAddr}
        BY AddrOfType DEF TypeInv, TypeOK
      <4>2. [sel[k] EXCEPT !.addr = AddrOf(sel[k].name)] \in Item
        BY <2>5, <4>1 DEF Item
      <4> QED BY <2>2, <2>5, <4>2
    <3>2. items = [k \in 1..Len(sel) |-> items[k]]
      BY <2>2, <2>5
    <3> QED BY <2>5, <3>1, <3>2
  <2>7. held \in Seq(Ids) /\ Len(held) = Len(sel)
    <3>1. \A k \in 1..Len(sel) : held[k] \in Ids
      <4> SUFFICES ASSUME NEW k \in 1..Len(sel) PROVE held[k] \in Ids
        OBVIOUS
      <4>1. PICK l \in DOMAIN b.items : sel[k] = b.items[l]
        BY <2>1, <2>5
      <4>2. b.items[l] \in ToSet(b.items)
        BY DEF ToSet
      <4>3. sel[k].name \in Registered
        BY <1>0, <2>4, <4>1, <4>2 DEF AllFound
      <4>4. registry[sel[k].name] \in Ids
        BY <4>3 DEF Registered, TypeInv, TypeOK
      <4> QED BY <2>2, <2>5, <4>4
    <3>2. held = [k \in 1..Len(sel) |-> held[k]]
      BY <2>2, <2>5
    <3> QED BY <2>5, <3>1, <3>2
  <2>8. b.op \in {"update", "delete", "pause", "resume"}
    BY <1>0, <1>1 DEF IsJob, Operations, Phases
  <2>9. pc \in Phases(b.op) /\ pc # "parse"
    BY <2>2, <2>8 DEF AfterCheck, Phases
  <2>10. pc \in Working => Len(sel) >= 1
    BY <2>2, <2>5 DEF Working, OnHeld
  <2>11. b.op = "update" => \A k \in DOMAIN items : items[k].addr \in Addrs
    <3> SUFFICES ASSUME b.op = "update", NEW k \in DOMAIN items PROVE items[k].addr \in Addrs
      OBVIOUS
    <3>1. k \in DOMAIN sel /\ items[k] = sel[k]
      BY <2>2
    <3>2. PICK l \in DOMAIN b.items : sel[k] = b.items[l]
      BY <2>1, <3>1
    <3> QED BY <1>0, <3>1, <3>2 DEF IsJob, JobOK
  <2>12. j \in Jobs
    BY <1>0, <2>3, <2>6, <2>7, <2>9 DEF Jobs, IsJob
  <2>13. JobOK(e, j)
    BY <1>0, <2>3, <2>5, <2>6, <2>7, <2>8, <2>9, <2>10, <2>11, <2>12 DEF JobOK, IsJob
  <2> QED BY <1>1, <2>4, <2>13, JobTypes DEF Moves, TypeInv, TypeOK, history
<1> QED BY <1>2, <1>3

LEMMA CloseOldTypes ==
    ASSUME TypeInv, NEW e \in Executors, CloseOld(e)
    PROVE  TypeInv'
<1>0. PICK b : b = job[e] /\ IsJob(e, b)
  BY JobFields DEF TypeInv
<1>1. CASE Panic(e)
  BY <1>1, PanicTypes
<1>2. CASE \E ids : Close(ids) /\ GoTo(e, "unload") /\ UNCHANGED <<registry, config, file, up, history>>
  <2>1. b.op \in {"update", "resume"} /\ b.pc = "close"
    BY <1>0 DEF CloseOld, IsJob, Operations, Phases
  <2>2. Moves(e)
    BY <1>0, <1>2, <2>1, GoToMoves DEF TypeInv, Phases, OnHeld
  <2> QED BY <1>2, <2>2, CloseType, JobTypes DEF TypeInv, TypeOK, history
<1> QED BY <1>1, <1>2 DEF CloseOld

LEMMA UnloadTypes ==
    ASSUME TypeInv, NEW e \in Executors, Unload(e)
    PROVE  TypeInv'
<1>0. PICK b : b = job[e] /\ IsJob(e, b)
  BY JobFields DEF TypeInv
<1>1. b.op \in {"update", "resume", "delete"} /\ b.pc = "unload"
  BY <1>0 DEF Unload, IsJob, Operations, Phases
<1>2. /\ UNCHANGED <<registry, config, file, up, history>>
      /\ (\E ids : Close(ids)) \/ UNCHANGED <<bound, serving>>
      /\ \E pc : /\ pc = "forget" \/ pc = (IF b.op = "delete" THEN "closeFound" ELSE "renew")
                 /\ GoTo(e, pc)
  BY <1>0 DEF Unload
<1>3. Moves(e)
  BY <1>0, <1>1, <1>2, GoToMoves DEF TypeInv, Phases, OnHeld
<1> QED BY <1>2, <1>3, CloseType, JobTypes DEF TypeInv, TypeOK, history

LEMMA ForgetTypes ==
    ASSUME TypeInv, NEW e \in Executors, Forget(e)
    PROVE  TypeInv'
<1>0. PICK b : b = job[e] /\ IsJob(e, b)
  BY JobFields DEF TypeInv
<1>1. b.op \in {"update", "resume", "delete"} /\ b.pc = "forget"
  BY <1>0 DEF Forget, IsJob, Operations, Phases
<1>2. GoTo(e, IF b.op = "delete" THEN "closeFound" ELSE "renew")
      /\ UNCHANGED <<bound, serving, config, file, up, history>>
  BY <1>0 DEF Forget
<1>3. Moves(e)
  BY <1>0, <1>1, <1>2, GoToMoves DEF TypeInv, Phases, OnHeld
<1>4. registry' \in [Names -> Ids \cup {0}]
  BY DEF Forget, TypeInv, TypeOK
<1> QED BY <1>2, <1>3, <1>4, JobTypes DEF TypeInv, TypeOK, history

(* A new service that could not be made, or used, ends the command.        *)
LEMMA GivesUp ==
    ASSUME JobInv, NEW e \in Executors, job[e].pc \in {"renew", "reregister"},
           IF job[e].op = "resume" THEN GoTo(e, "undo") ELSE Finish(e)
    PROVE  Moves(e)
<1>1. CASE job[e].op = "resume"
  BY <1>1, GoToMoves DEF Phases, OnHeld
<1>2. CASE job[e].op # "resume"
  BY <1>2, FinishMoves
<1> QED BY <1>1, <1>2

LEMMA RenewTypes ==
    ASSUME TypeInv, NEW e \in Executors, Renew(e)
    PROVE  TypeInv'
<1>0. PICK b : b = job[e] /\ IsJob(e, b)
  BY JobFields DEF TypeInv
<1>1. b.op \in {"update", "resume"} /\ b.pc = "renew"
  BY <1>0 DEF Renew, IsJob, Operations, Phases
<1>2. Current(e).addr \in Addrs \cup {NoAddr} /\ b.i \in 1..Len(b.items)
  BY <1>0, <1>1, CurrentType DEF TypeInv, Working, OnHeld
<1>3. UNCHANGED <<registry, serving, config, file, up, commands, crashes, overlap, rest, loaded>>
  BY DEF Renew
<1>4. CASE ParseFails(Current(e).addr)
           /\ IF b.op = "resume" THEN GoTo(e, "undo") ELSE Finish(e)
  <2>1. Moves(e)
    BY <1>0, <1>1, <1>4, GivesUp DEF TypeInv
  <2> QED BY <1>2, <1>3, <1>4, <2>1, ParseFailsType, JobTypes DEF TypeInv, TypeOK
<1>5. CASE /\ ParseOK(Current(e).addr) /\ Parsed(Current(e).addr)
           /\ job' = [job EXCEPT ![e].pc = "reregister", ![e].held[b.i] = Fresh]
           /\ UNCHANGED <<failures, faults>>
  <2>1. bound' \in [Ids -> Addrs \cup {NoAddr}] /\ Fresh \in Ids
    BY <1>2, <1>5, ParsedType DEF TypeInv
  <2>2. PICK h : h = [b.held EXCEPT ![b.i] = Fresh]
    OBVIOUS
  <2>3. PICK j : j = [op |-> b.op, pc |-> "reregister", items |-> b.items, i |-> b.i, held |-> h]
    OBVIOUS
  <2>4. h \in Seq(Ids) /\ Len(h) = Len(b.items)
    BY <1>0, <1>1, <1>2, <2>1, <2>2 DEF IsJob, JobOK, OnHeld
  <2>5. j \in Jobs
    BY <1>0, <1>1, <2>3, <2>4 DEF Jobs, IsJob, Operations, Phases
  <2>6. JobOK(e, j)
    BY <1>0, <1>1, <1>2, <2>3, <2>4, <2>5 DEF JobOK, IsJob, OnHeld, Phases, Working
  <2>7. job' = [job EXCEPT ![e] = j]
    <3>1. PICK c : c = [b EXCEPT !.pc = "reregister"]
      OBVIOUS
    <3>2. c = [op |-> b.op, pc |-> "reregister", items |-> b.items, i |-> b.i, held |-> b.held]
      BY <1>0, <3>1 DEF IsJob
    <3>3. j = [c EXCEPT !.held = h]
      BY <2>3, <3>2
    <3>4. [c EXCEPT !.held[b.i] = Fresh] = [c EXCEPT !.held = h]
      BY <2>2, <3>2
    <3>5. job' = [job EXCEPT ![e] = [[b EXCEPT !.pc = "reregister"] EXCEPT !.held[b.i] = Fresh]]
      BY <1>0, <1>5
    <3> QED BY <3>1, <3>3, <3>4, <3>5
  <2> QED BY <1>3, <1>5, <2>1, <2>6, <2>7, JobTypes DEF Moves, TypeInv, TypeOK
<1> QED BY <1>0, <1>4, <1>5 DEF Renew

LEMMA ReregisterTypes ==
    ASSUME TypeInv, NEW e \in Executors, Reregister(e)
    PROVE  TypeInv'
<1>0. PICK b : b = job[e] /\ IsJob(e, b)
  BY JobFields DEF TypeInv
<1>1. b.op \in {"update", "resume"} /\ b.pc = "reregister"
  BY <1>0 DEF Reregister, IsJob, Operations, Phases
<1>2. Current(e).name \in Names /\ job[e].held[job[e].i] \in Ids
  BY <1>0, <1>1, CurrentType DEF TypeInv, Working, OnHeld
<1>3. UNCHANGED <<config, file, up, history>>
  BY DEF Reregister
<1>4. CASE Current(e).name \in Registered
  <2>1. /\ UNCHANGED registry /\ Close({job[e].held[job[e].i]})
        /\ IF job[e].op = "resume" THEN GoTo(e, "undo") ELSE Finish(e)
    BY <1>4 DEF Reregister
  <2>2. Moves(e)
    BY <1>0, <1>1, <2>1, GivesUp DEF TypeInv
  <2> QED BY <1>3, <2>1, <2>2, CloseType, JobTypes DEF TypeInv, TypeOK, history
<1>5. CASE Current(e).name \notin Registered
  <2>1. /\ registry' = [registry EXCEPT ![Current(e).name] = job[e].held[job[e].i]]
        /\ serving' = serving \cup {job[e].held[job[e].i]}
        /\ Each(e, "close", "config") /\ UNCHANGED bound
    BY <1>5 DEF Reregister
  <2>2. Moves(e)
    BY <1>0, <1>1, <2>1, EachMoves DEF TypeInv, Phases, Working, OnHeld
  <2>3. registry' \in [Names -> Ids \cup {0}] /\ serving' \subseteq Ids
    BY <1>2, <2>1 DEF TypeInv, TypeOK
  <2> QED BY <1>3, <2>1, <2>2, <2>3, JobTypes DEF TypeInv, TypeOK, history
<1> QED BY <1>4, <1>5

LEMMA DeleteCloseTypes ==
    ASSUME TypeInv, NEW e \in Executors, DeleteClose(e)
    PROVE  TypeInv'
<1>0. PICK b : b = job[e] /\ IsJob(e, b)
  BY JobFields DEF TypeInv
<1>1. b.op = "delete" /\ b.pc = "closeFound"
  BY <1>0 DEF DeleteClose, IsJob, Operations, Phases
<1>2. Moves(e)
  BY <1>0, <1>1, EachMoves DEF DeleteClose, TypeInv, Phases, Working, OnHeld
<1> QED BY <1>2, CloseType, JobTypes DEF DeleteClose, TypeInv, TypeOK, history

LEMMA PauseStopTypes ==
    ASSUME TypeInv, NEW e \in Executors, PauseStop(e)
    PROVE  TypeInv'
<1>1. job[e].op = "pause" /\ job[e].pc = "stop"
  BY DEF PauseStop, At
<1>2. Moves(e)
  <2>1. CASE GoTo(e, "undo")
    BY <1>1, <2>1, GoToMoves DEF TypeInv, Phases, OnHeld
  <2>2. CASE Each(e, "stop", "config")
    BY <1>1, <2>2, EachMoves DEF TypeInv, Phases, Working, OnHeld
  <2> QED BY <2>1, <2>2 DEF PauseStop
<1>3. UNCHANGED <<bound, serving>> \/ \E ids : Close(ids)
  BY DEF PauseStop
<1>4. UNCHANGED <<registry, config, file, up, history>>
  BY DEF PauseStop
<1> QED BY <1>2, <1>3, <1>4, CloseType, JobTypes DEF TypeInv, TypeOK, history

LEMMA UndoPauseTypes ==
    ASSUME TypeInv, NEW e \in Executors, UndoPause(e)
    PROVE  TypeInv'
<1>0. PICK b : b = job[e] /\ IsJob(e, b)
  BY JobFields DEF TypeInv
<1>1. b.op = "pause" /\ b.pc = "undo" /\ Finish(e) /\ UNCHANGED <<file, up, history>>
  BY <1>0 DEF UndoPause, At
<1>2. CASE UNCHANGED <<registry, bound, serving, config>>
  BY <1>1, <1>2, FinishMoves, JobTypes DEF TypeInv, TypeOK, history
<1>3. ASSUME NEW s \in Done(e), ParseOK(s.addr), Parsed(s.addr),
             registry' = [registry EXCEPT ![s.name] = Fresh],
             serving' = serving \cup {Fresh},
             config' = SetPaused(config, {s.name}, FALSE)
      PROVE  TypeInv'
  <2>1. b.i <= Len(b.items)
    BY <1>0, <1>1 DEF IsJob, JobOK, Working, OnHeld
  <2>2. PICK k \in 1..(b.i - 1) : s = b.items[k]
    BY <1>0 DEF Done
  <2>3. k \in 1..Len(b.items)
    BY <1>0, <2>1 DEF IsJob
  <2>4. s \in Item
    BY <1>0, <2>2, <2>3, NamesOf
  <2>5. s.addr \in Addrs \cup {NoAddr} /\ s.name \in Names
    BY <2>4 DEF Item
  <2>6. bound' \in [Ids -> Addrs \cup {NoAddr}] /\ Fresh \in Ids
    BY <1>3, <2>5, ParsedType DEF TypeInv
  <2>7. registry' \in [Names -> Ids \cup {0}] /\ serving' \subseteq Ids
    BY <1>3, <2>5, <2>6 DEF TypeInv, TypeOK
  <2>8. config' \in Seq(Entry)
    BY <1>3, SetPausedType DEF TypeInv, TypeOK
  <2> QED BY <1>1, <2>6, <2>7, <2>8, FinishMoves, JobTypes DEF TypeInv, TypeOK, history
<1> QED BY <1>2, <1>3 DEF UndoPause

LEMMA UndoResumeTypes ==
    ASSUME TypeInv, NEW e \in Executors, UndoResume(e)
    PROVE  TypeInv'
<1>1. Finish(e) /\ UNCHANGED <<registry, file, up, history>> /\ \E ids : Close(ids)
  BY DEF UndoResume
<1>2. config' \in Seq(Entry)
  BY SetPausedType DEF UndoResume, TypeInv, TypeOK
<1> QED BY <1>1, <1>2, FinishMoves, CloseType, JobTypes DEF TypeInv, TypeOK, history

(* The configuration after an update, a delete, a pause or a resume.       *)
LEMMA NewConfigType ==
    ASSUME TypeInv, NEW e \in Executors, job[e].op \in {"update", "delete", "pause", "resume"}
    PROVE  NewConfig(e) \in Seq(Entry)
<1>0. PICK b : b = job[e] /\ IsJob(e, b)
  BY JobFields DEF TypeInv
<1>1. PICK names : names = {s.name : s \in ToSet(b.items)}
  OBVIOUS
<1>2. config \in Seq(Entry) /\ DOMAIN config = 1..Len(config) /\ Len(config) \in Nat
      /\ \A k \in DOMAIN config : config[k] \in Entry
  BY DEF TypeInv, TypeOK
<1>3. CASE b.op = "update"
  <2> DEFINE Latest(n) == CHOOSE k \in DOMAIN b.items :
                            b.items[k].name = n /\ \A l \in DOMAIN b.items :
                                              b.items[l].name = n => l <= k
             new == [k \in DOMAIN config |->
                 IF config[k].name \in names /\ k = FirstOf(config[k].name)
                 THEN [name |-> config[k].name, paused |-> FALSE,
                       addr |-> b.items[Latest(config[k].name)].addr]
                 ELSE config[k]]
  <2>1. NewConfig(e) = new
    BY <1>0, <1>1, <1>3 DEF NewConfig
  <2>2. ASSUME NEW n \in names PROVE b.items[Latest(n)].addr \in Addrs
    <3>1. PICK K : K = {k \in DOMAIN b.items : b.items[k].name = n}
      OBVIOUS
    <3>2. K \in SUBSET (1..Len(b.items)) /\ Len(b.items) \in Nat
      BY <1>0, <3>1 DEF IsJob
    <3>3. K # {}
      BY <1>1, <3>1 DEF ToSet
    <3>4. \E m \in K : \A l \in K : l <= m
      BY <3>2, <3>3, Extremes
    <3>5. \E m \in DOMAIN b.items : b.items[m].name = n /\ \A l \in DOMAIN b.items :
                                              b.items[l].name = n => l <= m
      BY <3>1, <3>4
    <3>6. Latest(n) \in DOMAIN b.items
      BY <3>5
    <3> HIDE DEF Latest
    <3> QED BY <1>0, <1>3, <3>6 DEF IsJob, JobOK
  <2> HIDE DEF Latest
  <2>3. ASSUME NEW k \in DOMAIN config PROVE new[k] \in Entry
    <3>1. config[k] \in Entry
      BY <1>2
    <3>2. CASE config[k].name \in names /\ k = FirstOf(config[k].name)
      <4>1. b.items[Latest(config[k].name)].addr \in Addrs
        BY <2>2, <3>2
      <4> QED BY <3>1, <3>2, <4>1 DEF Entry
    <3> QED BY <3>1, <3>2
  <2>4. new = [k \in 1..Len(config) |-> new[k]]
    BY <1>2
  <2> HIDE DEF new
  <2>5. \A k \in 1..Len(config) : new[k] \in Entry
    BY <1>2, <2>3
  <2>6. new \in Seq(Entry)
    BY <1>2, <2>4, <2>5
  <2> QED BY <2>1, <2>6
<1>4. CASE b.op = "delete"
  <2>1. NewConfig(e) = Only(config, {k \in DOMAIN config : config[k].name \notin names})
    BY <1>0, <1>1, <1>4 DEF NewConfig
  <2>2. {k \in DOMAIN config : config[k].name \notin names} \in SUBSET (DOMAIN config)
    OBVIOUS
  <2> QED BY <1>2, <2>1, <2>2, OnlyType
<1>5. CASE b.op \in {"pause", "resume"}
  <2>1. NewConfig(e) = SetPaused(config, names, job[e].op = "pause")
    BY <1>0, <1>1, <1>5 DEF NewConfig
  <2>2. (job[e].op = "pause") \in BOOLEAN
    OBVIOUS
  <2>3. SetPaused(config, names, job[e].op = "pause") \in Seq(Entry)
    BY <1>2, <2>2, SetPausedType
  <2> QED BY <2>1, <2>3
<1> QED BY <1>0, <1>3, <1>4, <1>5

LEMMA ConfigureTypes ==
    ASSUME TypeInv, NEW e \in Executors, Configure(e)
    PROVE  TypeInv'
<1>1. config' \in Seq(Entry)
  BY NewConfigType DEF Configure
<1> QED BY <1>1, FinishMoves, JobTypes DEF Configure, TypeInv, TypeOK, history

LEMMA SaveTypes ==
    ASSUME TypeInv, NEW e \in Executors, SaveCreate(e) \/ SaveWrite(e)
    PROVE  TypeInv'
<1>1. UNCHANGED <<registry, bound, serving, config, up, history>>
  BY DEF SaveCreate, SaveWrite
<1>2. file' = Torn \/ file' \in Seq(Entry)
  BY DEF SaveCreate, SaveWrite, TypeInv, TypeOK
<1>3. Moves(e)
  <2>1. CASE SaveCreate(e)
    BY <2>1, GoToMoves DEF SaveCreate, At, TypeInv, Phases, OnHeld
  <2>2. CASE SaveWrite(e)
    BY <2>2, FinishMoves DEF SaveWrite
  <2> QED BY <2>1, <2>2
<1> QED BY <1>1, <1>2, <1>3, JobTypes DEF TypeInv, TypeOK, history

LEMMA ReloadClearTypes ==
    ASSUME TypeInv, NEW e \in Executors, ReloadClear(e)
    PROVE  TypeInv'
<1>0. PICK b : b = job[e] /\ IsJob(e, b)
  BY JobFields DEF TypeInv
<1>1. b.op = "reload" /\ b.pc = "clear"
      /\ UNCHANGED <<file, up, commands, failures, faults, crashes, overlap, rest>>
  BY <1>0 DEF ReloadClear, At
<1>2. CASE file = Torn
  BY <1>1, <1>2, FinishMoves, JobTypes DEF ReloadClear, TypeInv, TypeOK
<1>3. CASE file # Torn
  <2>1. file \in Seq(Entry) /\ config' = file /\ loaded' = TRUE
        /\ registry' = [n \in Names |-> 0] /\ \E ids : Close(ids)
    BY <1>3 DEF ReloadClear, TypeInv, TypeOK
  <2>2. PICK items : items = [k \in DOMAIN file |-> [name |-> file[k].name, addr |-> file[k].addr]]
    OBVIOUS
  <2>3. PICK j : j = [op |-> "reload", pc |-> "load", items |-> items, i |-> b.i, held |-> b.held]
    OBVIOUS
  <2>4. job' = [job EXCEPT ![e] = j]
    <3>1. PICK c : c = [b EXCEPT !.pc = "load"]
      OBVIOUS
    <3>2. c = [op |-> b.op, pc |-> "load", items |-> b.items, i |-> b.i, held |-> b.held]
      BY <1>0, <3>1 DEF IsJob
    <3>3. j = [c EXCEPT !.items = items]
      BY <1>1, <2>3, <3>2
    <3>4. job' = [job EXCEPT ![e] = [[b EXCEPT !.pc = "load"] EXCEPT !.items = items]]
      BY <1>0, <1>3, <2>2 DEF ReloadClear
    <3> QED BY <3>1, <3>3, <3>4
  <2>5. DOMAIN file = 1..Len(file) /\ Len(file) \in Nat /\ \A k \in DOMAIN file : file[k] \in Entry
    BY <2>1
  <2>6. \A k \in 1..Len(file) : items[k] \in Item /\ items[k].addr \in Addrs
    BY <2>2, <2>5 DEF Entry, Item
  <2>7. items \in Seq(Item) /\ DOMAIN items = 1..Len(file)
    <3>1. items = [k \in 1..Len(file) |-> items[k]]
      BY <2>2, <2>5
    <3> QED BY <2>5, <2>6, <3>1
  <2>8. j \in Jobs
    BY <1>0, <2>3, <2>7 DEF Jobs, IsJob, Operations, Phases
  <2>9. JobOK(e, j)
    BY <1>0, <1>1, <2>3, <2>6, <2>7, <2>8 DEF JobOK, IsJob, Working, OnHeld, Phases
  <2>10. registry' \in [Names -> Ids \cup {0}]
    BY <2>1
  <2> QED BY <1>1, <2>1, <2>4, <2>9, <2>10, CloseType, JobTypes DEF Moves, TypeInv, TypeOK
<1> QED BY <1>2, <1>3

LEMMA ReloadServiceTypes ==
    ASSUME TypeInv, NEW e \in Executors, ReloadService(e)
    PROVE  TypeInv'
<1>0. PICK b : b = job[e] /\ IsJob(e, b)
  BY JobFields DEF TypeInv
<1>1. b.op = "reload" /\ b.pc = "load"
      /\ UNCHANGED <<config, file, up, commands, crashes, overlap, rest, loaded>>
  BY <1>0 DEF ReloadService, At
<1>2. b.i <= Len(b.items) => Current(e).name \in Names /\ Current(e).addr \in Addrs \cup {NoAddr}
  <2> SUFFICES ASSUME b.i <= Len(b.items)
               PROVE  Current(e).name \in Names /\ Current(e).addr \in Addrs \cup {NoAddr}
    OBVIOUS
  <2>1. b.i \in 1..Len(b.items)
    BY <1>0 DEF IsJob
  <2>2. b.items[b.i] \in Item
    BY <1>0, <2>1, NamesOf
  <2> QED BY <1>0, <2>2 DEF Current, Item
<1>3. CASE /\ b.i <= Len(b.items)
           /\ \/ ParseFails(Current(e).addr) /\ UNCHANGED registry
              \/ /\ ParseOK(Current(e).addr) /\ Parsed(Current(e).addr)
                 /\ failures' = 1
                 /\ UNCHANGED <<registry, faults>>
           /\ Finish(e)
           /\ UNCHANGED serving
  <2>1. bound' \in [Ids -> Addrs \cup {NoAddr}] /\ failures' \in Nat /\ faults' \in Nat
    BY <1>2, <1>3, ParsedType, ParseFailsType DEF TypeInv, TypeOK
  <2> QED BY <1>1, <1>3, <2>1, FinishMoves, JobTypes DEF TypeInv, TypeOK
<1>4. CASE /\ b.i <= Len(b.items)
           /\ ParseOK(Current(e).addr) /\ Parsed(Current(e).addr)
           /\ registry' = [registry EXCEPT ![Current(e).name] = Fresh]
           /\ job' = [job EXCEPT ![e].i = b.i + 1]
           /\ UNCHANGED <<serving, failures, faults>>
  <2>1. bound' \in [Ids -> Addrs \cup {NoAddr}] /\ Fresh \in Ids
    BY <1>2, <1>4, ParsedType DEF TypeInv
  <2>2. registry' \in [Names -> Ids \cup {0}]
    BY <1>2, <1>4, <2>1 DEF TypeInv, TypeOK
  <2>3. PICK j : j = [op |-> b.op, pc |-> b.pc, items |-> b.items, i |-> b.i + 1, held |-> b.held]
    OBVIOUS
  <2>4. job' = [job EXCEPT ![e] = j]
    <3>1. j = [b EXCEPT !.i = b.i + 1]
      BY <1>0, <2>3 DEF IsJob
    <3> QED BY <1>0, <1>4, <3>1
  <2>5. j \in Jobs
    BY <1>0, <2>3 DEF Jobs, IsJob
  <2>6. JobOK(e, j)
    BY <1>0, <1>1, <2>3, <2>5 DEF JobOK, IsJob, Working, OnHeld
  <2> QED BY <1>1, <1>4, <2>1, <2>2, <2>4, <2>6, JobTypes DEF Moves, TypeInv, TypeOK
<1>5. CASE /\ serving' = serving \cup {registry[n] : n \in
                           {m \in Registered : bound[registry[m]] # NoAddr}}
           /\ Finish(e)
           /\ UNCHANGED <<registry, bound, failures, faults>>
  <2>1. serving' \subseteq Ids
    BY <1>5 DEF Registered, TypeInv, TypeOK
  <2> QED BY <1>1, <1>5, <2>1, FinishMoves, JobTypes DEF TypeInv, TypeOK
<1> QED BY <1>0, <1>3, <1>4, <1>5 DEF ReloadService

(* The process starts with the services of its file.                       *)
LEMMA BootTypes == ASSUME TypeInv, Boot PROVE TypeInv'
<1>1. file \in Seq(Entry) /\ Len(file) <= MaxInst
  BY DEF Boot, Loadable, TypeInv, TypeOK
<1>2. DOMAIN file = 1..Len(file) /\ Len(file) \in Nat /\ DOMAIN file \subseteq Ids
      /\ \A k \in DOMAIN file : file[k] \in Entry
  BY <1>1, ServicesAssumption DEF Ids
<1>3. registry' \in [Names -> Ids \cup {0}]
  <2>1. \A n \in Names : (IF \E k \in DOMAIN file : file[k].name = n
                          THEN CHOOSE k \in DOMAIN file : file[k].name = n ELSE 0) \in Ids \cup {0}
    BY <1>2
  <2> QED BY <2>1 DEF Boot
<1>4. bound' \in [Ids -> Addrs \cup {NoAddr}]
  <2>1. \A id \in DOMAIN file : file[id].addr \in Addrs
    BY <1>2 DEF Entry
  <2> QED BY <2>1 DEF Boot
<1>5. JobInv'
  BY DEF Boot, JobInv, TypeInv
<1>6. serving' \subseteq Ids /\ config' \in Seq(Entry) /\ (file' = Torn \/ file' \in Seq(Entry))
  BY <1>1, <1>2 DEF Boot
<1>7. /\ up' = TRUE /\ overlap' = FALSE /\ rest' \in BOOLEAN /\ loaded' = TRUE
      /\ commands' \in Nat /\ failures' = 0 /\ faults' \in Nat /\ crashes' \in Nat
  BY DEF Boot, TypeInv, TypeOK
<1>8. {up, overlap, rest, loaded}' \subseteq BOOLEAN
  <2>1. up' \in BOOLEAN /\ overlap' \in BOOLEAN /\ rest' \in BOOLEAN /\ loaded' \in BOOLEAN
    BY <1>7
  <2> QED BY <2>1
<1>9. {commands, failures, faults, crashes}' \subseteq Nat
  BY <1>7
<1> QED BY <1>3, <1>4, <1>5, <1>6, <1>8, <1>9, TypesKept

LEMMA CollectTypes == ASSUME TypeInv, NEW id \in Ids, Collect(id) PROVE TypeInv'
<1>1. JobInv'
  BY DEF Collect, JobInv, TypeInv
<1>2. bound' \in [Ids -> Addrs \cup {NoAddr}] /\ serving' \subseteq Ids
  BY CloseType DEF Collect, TypeInv
<1> QED BY <1>1, <1>2, TypesKept DEF Collect, TypeInv, TypeOK, history

LEMMA StepTypes == ASSUME TypeInv, NEW e \in Executors, Step(e) PROVE TypeInv'
BY CreateParseTypes, CreateRegisterTypes, CreateServeTypes, CreateConfigTypes, CheckTypes,
   CloseOldTypes, UnloadTypes, ForgetTypes, RenewTypes, ReregisterTypes, DeleteCloseTypes,
   PauseStopTypes, UndoPauseTypes, UndoResumeTypes, ConfigureTypes, SaveTypes,
   ReloadClearTypes, ReloadServiceTypes DEF Step

(* Every step is one of these.                                             *)
LEMMA NextSteps ==
    ASSUME Next
    PROVE  \/ \E e \in Executors : Commands(e) \/ Step(e)
           \/ Crash \/ Boot \/ \E id \in Ids : Collect(id)
BY DEF Next, Commands, Executors

LEMMA InitTypes == Init => TypeInv
<1> SUFFICES ASSUME Init PROVE TypeInv
  OBVIOUS
<1>1. JobInv
  BY IdleOK DEF Init, JobInv, JobOK
<1>2. registry \in [Names -> Ids \cup {0}] /\ bound \in [Ids -> Addrs \cup {NoAddr}]
  BY DEF Init
<1>3. serving \subseteq Ids /\ config \in Seq(Entry) /\ file \in Seq(Entry)
  BY DEF Init
<1>4. \A e \in Executors : job[e].items \in Seq(Item) /\ job[e].held \in Seq(Ids)
  BY <1>1 DEF JobInv, Jobs
<1>5. up \in BOOLEAN /\ overlap \in BOOLEAN /\ rest \in BOOLEAN /\ loaded \in BOOLEAN
  BY DEF Init
<1>6. {commands, failures, faults, crashes} \subseteq Nat
  BY DEF Init
<1> QED BY <1>1, <1>2, <1>3, <1>4, <1>5, <1>6 DEF TypeInv, TypeOK

(* Services keep their types, and every job is in a phase of its command,  *)
(* with what that phase needs: a place in its list, and as many services   *)
(* in hand as it works on.                                                 *)
THEOREM ServicesTypes == Spec => []TypeInv
<1>1. TypeInv /\ [Next]_vars => TypeInv'
  <2> SUFFICES ASSUME TypeInv, [Next]_vars PROVE TypeInv'
    OBVIOUS
  <2>1. CASE Next
    BY <2>1, NextSteps, CommandTypes, StepTypes, CrashTypes, BootTypes, CollectTypes
  <2>2. CASE UNCHANGED vars
    BY <2>2 DEF vars, nodeVars, history, TypeInv, TypeOK, JobInv
  <2> QED BY <2>1, <2>2
<1> QED BY <1>1, InitTypes, PTL DEF Spec

-----------------------------------------------------------------------------
(* Where a step takes its job.                                             *)

Others(e) == \A f \in Executors \ {e} : job'[f] = job[f]

LEMMA GoToPlace ==
    ASSUME JobInv, NEW e \in Executors, NEW pc, GoTo(e, pc)
    PROVE  /\ Others(e) /\ job'[e].pc = pc /\ job'[e].op = job[e].op
           /\ job'[e].items = job[e].items /\ job'[e].i = job[e].i
           /\ job'[e].held = job[e].held
<1>0. PICK b : b = job[e] /\ IsJob(e, b)
  BY JobFields
<1>1. PICK j : j = [b EXCEPT !.pc = pc]
  OBVIOUS
<1>2. j = [op |-> b.op, pc |-> pc, items |-> b.items, i |-> b.i, held |-> b.held]
  BY <1>0, <1>1 DEF IsJob
<1>3. job' = [job EXCEPT ![e] = j] /\ job \in [Executors -> Jobs]
  BY <1>0, <1>1 DEF GoTo, JobInv
<1> QED BY <1>0, <1>2, <1>3 DEF Others

LEMMA EachPlace ==
    ASSUME JobInv, NEW e \in Executors, NEW again, NEW after, Each(e, again, after)
    PROVE  /\ Others(e) /\ job'[e].pc \in {again, after}
           /\ job'[e].op = job[e].op /\ job'[e].items = job[e].items
           /\ job'[e].pc = IF job[e].i < Len(job[e].items) THEN again ELSE after
           /\ job'[e].i = IF job[e].i < Len(job[e].items) THEN job[e].i + 1 ELSE 1
           /\ job'[e].held = job[e].held
<1>0. PICK b : b = job[e] /\ IsJob(e, b)
  BY JobFields
<1>1. PICK p, k : /\ p = IF b.i < Len(b.items) THEN again ELSE after
                  /\ k = IF b.i < Len(b.items) THEN b.i + 1 ELSE 1
  OBVIOUS
<1>2. PICK c : c = [b EXCEPT !.i = k]
  OBVIOUS
<1>3. c = [op |-> b.op, pc |-> b.pc, items |-> b.items, i |-> k, held |-> b.held]
  BY <1>0, <1>2 DEF IsJob
<1>4. PICK j : j = [c EXCEPT !.pc = p]
  OBVIOUS
<1>5. j = [op |-> b.op, pc |-> p, items |-> b.items, i |-> k, held |-> b.held]
  BY <1>3, <1>4
<1>6. job' = [job EXCEPT ![e] = j]
  <2>1. job' = [job EXCEPT ![e].i = k, ![e].pc = p]
    BY <1>0, <1>1 DEF Each
  <2>2. job' = [job EXCEPT ![e] = [[job[e] EXCEPT !.i = k] EXCEPT !.pc = p]]
    BY <2>1
  <2> QED BY <1>0, <1>2, <1>4, <2>2
<1>7. job \in [Executors -> Jobs] /\ p \in {again, after}
  BY <1>1 DEF JobInv
<1>8. job'[e] = j
  BY <1>6, <1>7
<1> QED BY <1>0, <1>1, <1>5, <1>6, <1>7, <1>8 DEF Others

LEMMA FinishPlace ==
    ASSUME JobInv, NEW e \in Executors, Finish(e)
    PROVE  /\ Others(e)
           /\ job'[e].pc = IF e \in Sockets THEN "create" ELSE "idle"
           /\ job'[e].op = IF e \in Sockets THEN "save" ELSE "none"
<1>1. job' = [job EXCEPT ![e] = Ended(e)] /\ job \in [Executors -> Jobs]
  BY DEF Finish, JobInv
<1>2. /\ Ended(e).pc = IF e \in Sockets THEN "create" ELSE "idle"
      /\ Ended(e).op = IF e \in Sockets THEN "save" ELSE "none"
  <2>1. CASE e \in Sockets
    <3>1. Ended(e) = [op |-> "save", pc |-> "create", items |-> <<>>, i |-> 1, held |-> <<>>]
      BY <2>1 DEF Ended, Idle
    <3> QED BY <2>1, <3>1
  <2>2. CASE e \notin Sockets
    BY <2>2 DEF Ended, Idle
  <2> QED BY <2>1, <2>2
<1> QED BY <1>1, <1>2 DEF Others

(* The phases some invariant is about are entered by one action each.      *)
Entered(e) ==
    /\ job'[e].pc = "forget" => Unload(e)
    /\ job'[e].pc = "write" => SaveCreate(e)
    /\ job'[e].pc = "idle" /\ e \in Sockets => SaveWrite(e)

Usual(e) == Others(e) /\ Entered(e)

LEMMA UsualFinish ==
    ASSUME JobInv, NEW e \in Executors, Finish(e)
    PROVE  Usual(e)
BY FinishPlace DEF Usual, Entered

LEMMA UsualGoTo ==
    ASSUME JobInv, NEW e \in Executors, NEW pc, GoTo(e, pc), pc \notin {"forget", "write", "idle"}
    PROVE  Usual(e)
BY GoToPlace DEF Usual, Entered

LEMMA UsualEach ==
    ASSUME JobInv, NEW e \in Executors, NEW again, NEW after, Each(e, again, after),
           {again, after} \cap {"forget", "write", "idle"} = {}
    PROVE  Usual(e)
BY EachPlace DEF Usual, Entered

LEMMA UsualMove ==
    ASSUME JobInv, NEW e \in Executors, NEW j, job' = [job EXCEPT ![e] = j],
           j.pc \notin {"forget", "write", "idle"}
    PROVE  Usual(e)
BY DEF JobInv, Usual, Entered, Others

LEMMA StepShape ==
    ASSUME TypeInv, NEW e \in Executors, Step(e)
    PROVE  /\ job[e].pc # "idle"
           /\ UNCHANGED <<overlap, rest>>
           /\ Stopped \/ (Usual(e) /\ UNCHANGED up)
<1>0. PICK b : b = job[e] /\ IsJob(e, b)
  BY JobFields DEF TypeInv
<1>i. JobInv
  BY DEF TypeInv
<1> USE DEF history
<1>1. CASE CreateParse(e)
  <2>1. b.op = "create" /\ b.pc = "parse" /\ UNCHANGED <<up, overlap, rest>>
    BY <1>0, <1>1 DEF CreateParse, At
  <2>2. CASE Finish(e)
    BY <1>0, <1>i, <2>1, <2>2, UsualFinish
  <2>3. CASE job' = [job EXCEPT ![e].held = Append(@, Fresh),
                                ![e].i = IF b.i < Len(b.items) THEN b.i + 1 ELSE 1,
                                ![e].pc = IF b.i < Len(b.items) THEN "parse" ELSE "register"]
    <3>1. PICK h, k, p : /\ h = Append(b.held, Fresh)
                         /\ k = IF b.i < Len(b.items) THEN b.i + 1 ELSE 1
                         /\ p = IF b.i < Len(b.items) THEN "parse" ELSE "register"
      OBVIOUS
    <3>2. PICK c : c = [b EXCEPT !.held = h]
      OBVIOUS
    <3>3. c = [op |-> b.op, pc |-> b.pc, items |-> b.items, i |-> b.i, held |-> h]
      BY <1>0, <3>2 DEF IsJob
    <3>4. PICK d : d = [c EXCEPT !.i = k]
      OBVIOUS
    <3>5. d = [op |-> b.op, pc |-> b.pc, items |-> b.items, i |-> k, held |-> h]
      BY <3>3, <3>4
    <3>6. PICK j : j = [d EXCEPT !.pc = p]
      OBVIOUS
    <3>7. j.pc = p /\ p \in {"parse", "register"}
      BY <3>1, <3>5, <3>6
    <3>8. job' = [job EXCEPT ![e] = [[[b EXCEPT !.held = h] EXCEPT !.i = k] EXCEPT !.pc = p]]
      BY <1>0, <2>3, <3>1
    <3>9. job' = [job EXCEPT ![e] = j]
      BY <3>2, <3>4, <3>6, <3>8
    <3> QED BY <1>0, <1>i, <2>1, <3>7, <3>9, UsualMove
  <2> QED BY <1>0, <1>1, <2>2, <2>3 DEF CreateParse
<1>2. CASE CreateRegister(e)
  BY <1>i, <1>2, UsualFinish, UsualEach DEF CreateRegister, At
<1>3. CASE CreateServe(e)
  BY <1>i, <1>3, UsualGoTo DEF CreateServe, At
<1>4. CASE CreateConfig(e)
  BY <1>i, <1>4, UsualFinish DEF CreateConfig, At
<1>5. CASE Check(e)
  <2>1. b.pc = "check" /\ UNCHANGED <<up, overlap, rest>>
    BY <1>0, <1>5 DEF Check
  <2>2. CASE Finish(e)
    BY <1>0, <1>i, <2>1, <2>2, UsualFinish
  <2>3. CASE ~Finish(e)
    <3>1. PICK sel : sel = Selected(e)
      OBVIOUS
    <3>2. PICK pc, items, held :
            /\ pc = IF sel = <<>> THEN "config" ELSE AfterCheck(b.op)
            /\ items = [k \in DOMAIN sel |-> IF b.op = "update" THEN sel[k]
                                ELSE [sel[k] EXCEPT !.addr = AddrOf(sel[k].name)]]
            /\ held = [k \in DOMAIN sel |-> registry[sel[k].name]]
      OBVIOUS
    <3>3. PICK j : j = [op |-> b.op, i |-> 1, pc |-> pc, items |-> items, held |-> held]
      OBVIOUS
    <3>4. job' = [job EXCEPT ![e] = j]
      BY <1>0, <1>5, <2>3, <3>1, <3>2, <3>3 DEF Check
    <3>5. j.pc \notin {"forget", "write", "idle"}
      BY <3>2, <3>3 DEF AfterCheck
    <3> QED BY <1>0, <1>i, <2>1, <3>4, <3>5, UsualMove
  <2> QED BY <2>2, <2>3
<1>6. CASE CloseOld(e)
  <2>1. b.pc = "close"
    BY <1>0, <1>6 DEF CloseOld
  <2>2. CASE Panic(e)
    <3>1. CASE e \in Sockets
      BY <1>0, <2>1, <2>2, <3>1 DEF Panic, Stopped
    <3>2. CASE e \notin Sockets
      BY <1>0, <1>i, <2>1, <2>2, <3>2 DEF Panic, JobInv, Usual, Others, Entered, Idle
    <3> QED BY <3>1, <3>2
  <2>3. CASE GoTo(e, "unload") /\ UNCHANGED <<up, history>>
    BY <1>0, <1>i, <2>1, <2>3, UsualGoTo
  <2> QED BY <1>6, <2>2, <2>3 DEF CloseOld
<1>7. CASE Unload(e)
  <2>1. \E pc : pc \in {"forget", "closeFound", "renew"} /\ GoTo(e, pc)
    BY <1>7 DEF Unload
  <2>2. Usual(e)
    BY <1>i, <1>7, <2>1, GoToPlace DEF Usual, Entered
  <2> QED BY <1>7, <2>2 DEF Unload
<1>8. CASE Forget(e)
  BY <1>i, <1>8, UsualGoTo DEF Forget
<1>9. CASE Renew(e)
  <2>1. b.pc = "renew" /\ UNCHANGED <<up, overlap, rest>>
    BY <1>0, <1>9 DEF Renew
  <2>2. CASE Finish(e) \/ GoTo(e, "undo")
    BY <1>0, <1>i, <2>1, <2>2, UsualFinish, UsualGoTo
  <2>3. CASE job' = [job EXCEPT ![e].pc = "reregister", ![e].held[b.i] = Fresh]
    <3>1. PICK c : c = [b EXCEPT !.pc = "reregister"]
      OBVIOUS
    <3>2. c = [op |-> b.op, pc |-> "reregister", items |-> b.items, i |-> b.i, held |-> b.held]
      BY <1>0, <3>1 DEF IsJob
    <3>3. PICK j : j = [c EXCEPT !.held[b.i] = Fresh]
      OBVIOUS
    <3>4. j.pc = "reregister"
      BY <3>2, <3>3
    <3>5. job' = [job EXCEPT ![e] = [[b EXCEPT !.pc = "reregister"] EXCEPT !.held[b.i] = Fresh]]
      BY <1>0, <2>3
    <3>6. job' = [job EXCEPT ![e] = j]
      BY <3>1, <3>3, <3>5
    <3> QED BY <1>0, <1>i, <2>1, <3>4, <3>6, UsualMove
  <2> QED BY <1>0, <1>9, <2>2, <2>3 DEF Renew
<1>10. CASE Reregister(e)
  BY <1>i, <1>10, UsualFinish, UsualGoTo, UsualEach DEF Reregister
<1>11. CASE DeleteClose(e)
  BY <1>i, <1>11, UsualEach DEF DeleteClose
<1>12. CASE PauseStop(e)
  BY <1>i, <1>12, UsualGoTo, UsualEach DEF PauseStop, At
<1>13. CASE UndoPause(e)
  BY <1>i, <1>13, UsualFinish DEF UndoPause, At
<1>14. CASE UndoResume(e)
  BY <1>i, <1>14, UsualFinish DEF UndoResume, At
<1>15. CASE Configure(e)
  BY <1>i, <1>15, UsualFinish DEF Configure
<1>16. CASE SaveCreate(e)
  BY <1>i, <1>16, GoToPlace DEF SaveCreate, At, Usual, Entered
<1>17. CASE SaveWrite(e)
  BY <1>i, <1>17 DEF SaveWrite, At, JobInv, Usual, Others, Entered, Idle
<1>18. CASE ReloadClear(e)
  <2>1. b.op = "reload" /\ b.pc = "clear" /\ UNCHANGED <<up, overlap, rest>>
    BY <1>0, <1>18 DEF ReloadClear, At
  <2>2. CASE Finish(e)
    BY <1>0, <1>i, <2>1, <2>2, UsualFinish
  <2>3. CASE ~Finish(e)
    <3>1. PICK c : c = [b EXCEPT !.pc = "load"]
      OBVIOUS
    <3>2. c = [op |-> b.op, pc |-> "load", items |-> b.items, i |-> b.i, held |-> b.held]
      BY <1>0, <3>1 DEF IsJob
    <3>3. PICK items : job' = [job EXCEPT ![e].pc = "load", ![e].items = items]
      BY <1>18, <2>3 DEF ReloadClear
    <3>4. PICK j : j = [c EXCEPT !.items = items]
      OBVIOUS
    <3>5. j.pc = "load"
      BY <3>2, <3>4
    <3>6. job' = [job EXCEPT ![e] = [[b EXCEPT !.pc = "load"] EXCEPT !.items = items]]
      BY <1>0, <3>3
    <3>7. job' = [job EXCEPT ![e] = j]
      BY <3>1, <3>4, <3>6
    <3> QED BY <1>0, <1>i, <2>1, <3>5, <3>7, UsualMove
  <2> QED BY <2>2, <2>3
<1>19. CASE ReloadService(e)
  <2>1. b.op = "reload" /\ b.pc = "load" /\ UNCHANGED <<up, overlap, rest>>
    BY <1>0, <1>19 DEF ReloadService, At
  <2>2. CASE Finish(e)
    BY <1>0, <1>i, <2>1, <2>2, UsualFinish
  <2>3. CASE job' = [job EXCEPT ![e].i = b.i + 1]
    <3>1. PICK j : j = [b EXCEPT !.i = b.i + 1]
      OBVIOUS
    <3>2. j = [op |-> b.op, pc |-> b.pc, items |-> b.items, i |-> b.i + 1, held |-> b.held]
      BY <1>0, <3>1 DEF IsJob
    <3>3. job' = [job EXCEPT ![e] = j] /\ j.pc = "load"
      BY <1>0, <2>1, <2>3, <3>1, <3>2
    <3> QED BY <1>0, <1>i, <2>1, <3>3, UsualMove
  <2> QED BY <1>0, <1>19, <2>2, <2>3 DEF ReloadService
<1> QED BY <1>1, <1>2, <1>3, <1>4, <1>5, <1>6, <1>7, <1>8, <1>9, <1>10, <1>11, <1>12, <1>13,
           <1>14, <1>15, <1>16, <1>17, <1>18, <1>19 DEF Step

-----------------------------------------------------------------------------
(* Commands that do not overlap: one job at a time.                        *)

Alone == ~overlap => \A e, f \in Executors : job[e] # Idle /\ job[f] # Idle => e = f
Still == ~up => \A e \in Executors : job[e] = Idle

(* Everything that accepts connections is registered.                      *)
Owned == \A id \in serving : \E n \in Names : registry[n] = id

(* An entry that is about to be deleted is that of a closed service.       *)
Unloaded(e) == job[e].pc = "forget" => registry[Current(e).name] \notin serving

ServeInv ==
    /\ TypeInv
    /\ Alone
    /\ Still
    /\ ~overlap => Owned /\ \A e \in Executors : Unloaded(e)

LEMMA IdlePlace == Idle.pc = "idle"
BY DEF Idle

LEMMA OthersIdle ==
    ASSUME Alone, ~overlap, NEW e \in Executors, job[e].pc # "idle"
    PROVE  \A f \in Executors \ {e} : job[f] = Idle
BY IdlePlace DEF Alone

LEMMA AloneKept ==
    ASSUME TypeInv, Alone, Still,
           \/ \E e \in Executors : Commands(e) \/ Step(e)
           \/ Crash \/ Boot \/ \E id \in Ids : Collect(id)
    PROVE  Alone' /\ Still'
<1>1. ASSUME NEW e \in Executors, Commands(e) PROVE Alone' /\ Still'
  <2>1. PICK op, items : Begin(e, op, items)
    BY <1>1, CommandBegins
  <2>2. up /\ up' = up /\ overlap' = (overlap \/ ~AtRest) /\ \A f \in Executors \ {e} : job'[f] = job[f]
    BY <2>1 DEF Begin, TypeInv, JobInv
  <2>3. ~overlap' => \A f \in Executors : job[f] = Idle
    BY <2>2 DEF AtRest
  <2> QED BY <2>2, <2>3 DEF Alone, Still
<1>2. ASSUME NEW e \in Executors, Step(e) PROVE Alone' /\ Still'
  <2>1. job[e].pc # "idle" /\ overlap' = overlap
    BY <1>2, StepShape
  <2>2. CASE Stopped
    BY <2>2 DEF Stopped, Alone, Still
  <2>3. CASE Others(e) /\ UNCHANGED up
    <3>1. up
      BY <2>1, IdlePlace DEF Still
    <3>2. ~overlap => \A f \in Executors \ {e} : job'[f] = Idle
      BY <2>1, <2>3, OthersIdle DEF Others
    <3> QED BY <2>1, <2>3, <3>1, <3>2 DEF Alone, Still
  <2> QED BY <1>2, <2>2, <2>3, StepShape DEF Usual
<1>3. CASE Crash
  BY <1>3 DEF Crash, Alone, Still
<1>4. CASE Boot
  BY <1>4 DEF Boot, Alone, Still
<1>5. ASSUME NEW id \in Ids, Collect(id) PROVE Alone' /\ Still'
  BY <1>5 DEF Collect, Alone, Still, history
<1> QED BY <1>1, <1>2, <1>3, <1>4, <1>5

(* One that registers what it adds loses nothing.                          *)
LEMMA OwnedWith ==
    ASSUME TypeInv, Owned, NEW n \in Names \ Registered, NEW new \in Ids,
           registry' = [registry EXCEPT ![n] = new], serving' \subseteq serving \cup {new}
    PROVE  Owned'
<1>1. registry' \in [Names -> Ids \cup {0}] /\ registry'[n] = new
  BY DEF TypeInv, TypeOK
<1>2. \A m \in Names : registry[m] \in Ids => registry'[m] = registry[m]
  BY ServicesAssumption DEF TypeInv, TypeOK, Registered, Ids
<1>3. serving \subseteq Ids
  BY DEF TypeInv, TypeOK
<1> QED BY <1>1, <1>2, <1>3 DEF Owned

LEMMA OwnedSame ==
    ASSUME Owned, UNCHANGED <<registry, serving>>
    PROVE  Owned'
BY DEF Owned

LEMMA OwnedClose ==
    ASSUME TypeInv, Owned, NEW ids, Close(ids), UNCHANGED registry
    PROVE  Owned'
BY DEF Close, Owned

LEMMA CreateRegisterOwned ==
    ASSUME TypeInv, Owned, NEW e \in Executors, CreateRegister(e)
    PROVE  Owned'
<1>1. /\ job[e].pc = "register" /\ Current(e).name \in Names
      /\ job[e].held[job[e].i] \in Ids
  BY CurrentType DEF CreateRegister, At, TypeInv, Working, OnHeld
<1>2. CASE Current(e).name \in Registered
  <2>1. PICK mine, more :
          /\ registry' = [n \in Names |-> IF n \in mine THEN 0 ELSE registry[n]]
          /\ Close({registry[n] : n \in mine} \cup more)
    BY <1>2 DEF CreateRegister
  <2>2. PICK ids : ids = {registry[n] : n \in mine} \cup more
    OBVIOUS
  <2>3. serving' = serving \ ids
    BY <2>1, <2>2 DEF Close
  <2>4. \A n \in Names : registry'[n] = registry[n] \/ registry[n] \in ids
    BY <2>1, <2>2
  <2> QED BY <2>3, <2>4 DEF Owned
<1>3. CASE Current(e).name \notin Registered
  BY <1>1, <1>3, OwnedWith DEF CreateRegister
<1> QED BY <1>2, <1>3

LEMMA CreateServeOwned ==
    ASSUME TypeInv, Owned, NEW e \in Executors, CreateServe(e)
    PROVE  Owned'
<1>0. PICK b : b = job[e] /\ IsJob(e, b)
  BY JobFields DEF TypeInv
<1>1. \A s \in ToSet(b.items) : s.name \in Names
  BY <1>0, NamesOf
<1>2. serving' \subseteq serving \cup {registry[s.name] : s \in ToSet(b.items)} /\ UNCHANGED registry
  BY <1>0 DEF CreateServe
<1> QED BY <1>1, <1>2 DEF Owned

LEMMA UndoPauseOwned ==
    ASSUME TypeInv, Owned, NEW e \in Executors, UndoPause(e)
    PROVE  Owned'
<1>0. PICK b : b = job[e] /\ IsJob(e, b)
  BY JobFields DEF TypeInv
<1>1. b.pc = "undo"
  BY <1>0 DEF UndoPause, At
<1>2. CASE UNCHANGED <<registry, serving>>
  BY <1>2, OwnedSame
<1>3. ASSUME NEW s \in Done(e), s.name \notin Registered, ParseOK(s.addr),
             registry' = [registry EXCEPT ![s.name] = Fresh], serving' = serving \cup {Fresh}
      PROVE  Owned'
  <2>1. b.i <= Len(b.items)
    BY <1>0, <1>1 DEF IsJob, JobOK, Working, OnHeld
  <2>2. PICK k \in 1..(b.i - 1) : s = b.items[k]
    BY <1>0 DEF Done
  <2>3. k \in 1..Len(b.items)
    BY <1>0, <2>1 DEF IsJob
  <2>4. s.name \in Names
    BY <1>0, <2>2, <2>3, NamesOf
  <2>5. Fresh \in Ids
    BY <1>3, FreshIsFree DEF ParseOK
  <2> QED BY <1>3, <2>4, <2>5, OwnedWith
<1> QED BY <1>2, <1>3 DEF UndoPause

LEMMA ReloadServiceOwned ==
    ASSUME TypeInv, Owned, NEW e \in Executors, ReloadService(e)
    PROVE  Owned'
<1>0. PICK b : b = job[e] /\ IsJob(e, b)
  BY JobFields DEF TypeInv
<1>1. CASE UNCHANGED <<registry, serving>>
  BY <1>1, OwnedSame
<1>2. CASE /\ b.i <= Len(b.items) /\ Current(e).name \notin Registered
           /\ ParseOK(Current(e).addr)
           /\ registry' = [registry EXCEPT ![Current(e).name] = Fresh]
           /\ UNCHANGED serving
  <2>1. b.i \in 1..Len(b.items)
    BY <1>0, <1>2 DEF IsJob
  <2>2. Current(e).name \in Names
    BY <1>0, <2>1, NamesOf DEF Current
  <2>3. Fresh \in Ids
    BY <1>2, FreshIsFree DEF ParseOK
  <2> QED BY <1>2, <2>2, <2>3, OwnedWith
<1>3. CASE /\ serving' = serving \cup {registry[n] : n \in
                           {m \in Registered : bound[registry[m]] # NoAddr}}
           /\ UNCHANGED registry
  BY <1>3 DEF Owned, Registered
<1> QED BY <1>0, <1>1, <1>2, <1>3 DEF ReloadService

LEMMA StepOwned ==
    ASSUME TypeInv, Owned, NEW e \in Executors, Unloaded(e), Step(e)
    PROVE  Owned'
<1>0. UNCHANGED <<registry, serving>> => Owned'
  BY OwnedSame
<1>s. Stopped => Owned'
  BY DEF Stopped, Owned
<1>1. CASE CreateParse(e)
  BY <1>0, <1>1 DEF CreateParse
<1>2. CASE CreateRegister(e)
  BY <1>2, CreateRegisterOwned
<1>3. CASE CreateServe(e)
  BY <1>3, CreateServeOwned
<1>4. CASE CreateConfig(e) \/ Check(e) \/ Configure(e) \/ SaveCreate(e) \/ SaveWrite(e) \/ Renew(e)
  BY <1>0, <1>4 DEF CreateConfig, Check, Configure, SaveCreate, SaveWrite, Renew
<1>5. CASE CloseOld(e)
  BY <1>0, <1>s, <1>5, OwnedClose DEF CloseOld, Panic
<1>6. CASE Unload(e)
  BY <1>0, <1>6, OwnedClose DEF Unload
<1>7. CASE Forget(e)
  <2>1. registry' = [registry EXCEPT ![Current(e).name] = 0] /\ UNCHANGED serving
    BY <1>7 DEF Forget
  <2>2. registry[Current(e).name] \notin serving
    BY <1>7 DEF Forget, Unloaded
  <2>3. registry \in [Names -> Ids \cup {0}]
    BY DEF TypeInv, TypeOK
  <2> QED BY <2>1, <2>2, <2>3 DEF Owned
<1>8. CASE Reregister(e)
  <2>1. Current(e).name \in Names /\ job[e].held[job[e].i] \in Ids
    BY <1>8, CurrentType DEF Reregister, TypeInv, Working, OnHeld
  <2>2. CASE Current(e).name \in Registered
    BY <1>8, <2>2, OwnedClose DEF Reregister
  <2>3. CASE Current(e).name \notin Registered
    BY <1>8, <2>1, <2>3, OwnedWith DEF Reregister
  <2> QED BY <2>2, <2>3
<1>9. CASE DeleteClose(e)
  BY <1>9, OwnedClose DEF DeleteClose
<1>10. CASE PauseStop(e)
  BY <1>0, <1>10, OwnedClose DEF PauseStop
<1>11. CASE UndoPause(e)
  BY <1>11, UndoPauseOwned
<1>12. CASE UndoResume(e)
  BY <1>12, OwnedClose DEF UndoResume
<1>13. CASE ReloadClear(e)
  <2>1. CASE file = Torn
    BY <1>0, <1>13, <2>1 DEF ReloadClear
  <2>2. CASE file # Torn
    <3>1. serving' = serving \ {registry[n] : n \in Names}
      BY <1>13, <2>2 DEF ReloadClear, Close
    <3> QED BY <3>1 DEF Owned
  <2> QED BY <2>1, <2>2
<1>14. CASE ReloadService(e)
  BY <1>14, ReloadServiceOwned
<1> QED BY <1>1, <1>2, <1>3, <1>4, <1>5, <1>6, <1>7, <1>8, <1>9, <1>10, <1>11, <1>12, <1>13,
           <1>14 DEF Step

(* After a start, every service of the file is registered under its name.  *)
LEMMA BootOwned == ASSUME TypeInv, Boot PROVE Owned'
<1>1. file \in Seq(Entry) /\ Loadable(file)
  BY DEF Boot, Loadable, TypeInv, TypeOK
<1>2. \A k \in DOMAIN file : file[k].name \in Names
  <2>1. \A k \in DOMAIN file : file[k] \in Entry
    BY <1>1
  <2> QED BY <2>1 DEF Entry
<1>3. ASSUME NEW k \in DOMAIN file PROVE registry'[file[k].name] = k
  <2>1. \A l \in DOMAIN file : file[l].name = file[k].name => l = k
    BY <1>1 DEF Loadable
  <2>2. (CHOOSE l \in DOMAIN file : file[l].name = file[k].name) = k
    BY <2>1
  <2> QED BY <1>2, <2>2 DEF Boot
<1>4. serving' = DOMAIN file
  BY DEF Boot
<1> QED BY <1>2, <1>3, <1>4 DEF Owned

LEMMA StepUnloaded ==
    ASSUME TypeInv, Alone, ~overlap, NEW e \in Executors, Step(e)
    PROVE  \A f \in Executors : Unloaded(f)'
<1>1. CASE Stopped
  BY <1>1, IdlePlace DEF Stopped, Unloaded
<1>2. CASE Usual(e)
  <2>1. \A f \in Executors \ {e} : job'[f].pc = "idle"
    BY <1>2, StepShape, OthersIdle, IdlePlace DEF Usual, Others
  <2>2. Unloaded(e)'
    <3>1. CASE Unload(e) /\ Current(e).name \in Registered
      <4>1. /\ serving' = serving \ {registry[Current(e).name]} /\ UNCHANGED registry
            /\ GoTo(e, "forget")
        BY <3>1 DEF Unload, Close
      <4>2. Current(e)' = Current(e)
        BY <4>1, GoToPlace DEF TypeInv, Current
      <4> QED BY <4>1, <4>2 DEF Unloaded
    <3>2. CASE Unload(e) /\ Current(e).name \notin Registered
      <4>1. \E pc \in {"closeFound", "renew"} : GoTo(e, pc)
        BY <3>2 DEF Unload
      <4>2. job'[e].pc # "forget"
        BY <4>1, GoToPlace DEF TypeInv
      <4> QED BY <4>2 DEF Unloaded
    <3>3. CASE ~Unload(e)
      BY <1>2, <3>3 DEF Usual, Entered, Unloaded
    <3> QED BY <3>1, <3>2, <3>3
  <2> QED BY <2>1, <2>2 DEF Unloaded
<1> QED BY <1>1, <1>2, StepShape

LEMMA ServeInit == Init => ServeInv
<1> SUFFICES ASSUME Init PROVE ServeInv
  OBVIOUS
<1>1. TypeInv
  BY InitTypes
<1>2. Alone /\ Still
  BY DEF Init, Alone, Still
<1>3. Owned /\ \A e \in Executors : Unloaded(e)
  BY IdlePlace DEF Init, Owned, Unloaded
<1> QED BY <1>1, <1>2, <1>3 DEF ServeInv

LEMMA ServeNext == ServeInv /\ [Next]_vars => ServeInv'
<1> SUFFICES ASSUME ServeInv, [Next]_vars PROVE ServeInv'
  OBVIOUS
<1>1. TypeInv'
  <2>1. CASE Next
    BY <2>1, NextSteps, CommandTypes, StepTypes, CrashTypes, BootTypes, CollectTypes DEF ServeInv
  <2>2. CASE UNCHANGED vars
    BY <2>2 DEF vars, nodeVars, history, ServeInv, TypeInv, TypeOK, JobInv
  <2> QED BY <2>1, <2>2
<1>2. Alone' /\ Still'
  <2>1. CASE Next
    BY <2>1, NextSteps, AloneKept DEF ServeInv
  <2>2. CASE UNCHANGED vars
    BY <2>2 DEF vars, nodeVars, history, ServeInv, Alone, Still
  <2> QED BY <2>1, <2>2
<1>3. ASSUME ~overlap' PROVE Owned' /\ \A f \in Executors : Unloaded(f)'
  <2>1. ASSUME NEW e \in Executors, Commands(e)
        PROVE  Owned' /\ \A f \in Executors : Unloaded(f)'
    <3>1. PICK op \in Operations \ {"none", "save"}, items \in Seq(Item) : Begin(e, op, items)
      BY <2>1, CommandBegins
    <3>2. ~overlap /\ AtRest /\ UNCHANGED <<registry, serving>>
      BY <1>3, <3>1 DEF Begin
    <3>3. \A f \in Executors \ {e} : job'[f].pc = "idle"
      BY <3>1, <3>2, IdlePlace DEF AtRest, Begin, ServeInv, TypeInv, JobInv
    <3>4. job'[e] # Idle => job'[e].pc \in {"parse", "clear", "check"}
      BY <3>1 DEF Begin, FirstPhase, ServeInv, TypeInv, JobInv, Idle
    <3>5. \A f \in Executors : job'[f].pc # "forget"
      BY <3>3, <3>4, IdlePlace
    <3> QED BY <3>2, <3>5, OwnedSame DEF ServeInv, Unloaded
  <2>2. ASSUME NEW e \in Executors, Step(e)
        PROVE  Owned' /\ \A f \in Executors : Unloaded(f)'
    <3>1. ~overlap
      BY <1>3, <2>2, StepShape DEF ServeInv
    <3> QED BY <2>2, <3>1, StepOwned, StepUnloaded DEF ServeInv
  <2>3. CASE Crash
    BY <2>3, IdlePlace DEF Crash, Owned, Unloaded
  <2>4. CASE Boot
    <3>1. \A f \in Executors : job'[f].pc = "idle"
      BY <2>4, IdlePlace DEF Boot, ServeInv, Still
    <3> QED BY <2>4, <3>1, BootOwned DEF ServeInv, Unloaded
  <2>5. ASSUME NEW id \in Ids, Collect(id)
        PROVE  Owned' /\ \A f \in Executors : Unloaded(f)'
    BY <1>3, <2>5 DEF Collect, Close, ServeInv, Owned, Unloaded, Current, history
  <2>6. CASE UNCHANGED vars
    BY <1>3, <2>6 DEF vars, nodeVars, history, ServeInv, Owned, Unloaded, Current
  <2> QED BY <2>1, <2>2, <2>3, <2>4, <2>5, <2>6, NextSteps
<1> QED BY <1>1, <1>2, <1>3 DEF ServeInv

(* A listener that accepts connections can be stopped: as long as commands *)
(* do not overlap, it belongs to the service registered under some name.   *)
THEOREM ServingIsStoppable == Spec => []Stoppable
<1>1. ServeInv => Stoppable
  BY DEF ServeInv, Owned, Stoppable
<1> QED BY <1>1, ServeInit, ServeNext, PTL DEF Spec

-----------------------------------------------------------------------------
(* The master's commands save what they have changed before the next one   *)
(* begins: a socket that is done leaves the file as the configuration is.  *)

Quiet == ~rest => \A e \in Requests : job[e] = Idle

Saved ==
    ~overlap /\ ~rest /\ up =>
       /\ (\A e \in Sockets : job[e] = Idle) => file = config
       /\ \A e \in Sockets : job[e].pc = "write" => file = Torn

SaveInv == TypeInv /\ Alone /\ Still /\ Quiet /\ Saved

LEMMA CommandSaved ==
    ASSUME SaveInv, NEW e \in Executors, Commands(e)
    PROVE  Quiet' /\ Saved'
<1>1. PICK op \in Operations \ {"none", "save"}, items \in Seq(Item) : Begin(e, op, items)
  BY CommandBegins
<1>2. PICK j : j = [[[Idle EXCEPT !.op = op] EXCEPT !.items = items] EXCEPT !.pc = FirstPhase(op)]
  OBVIOUS
<1>3. j.pc = FirstPhase(op)
  BY <1>2 DEF Idle
<1>4. job' = [job EXCEPT ![e] = j] /\ job \in [Executors -> Jobs]
  BY <1>1, <1>2 DEF Begin, SaveInv, TypeInv, JobInv
<1>5. /\ \A f \in Executors \ {e} : job'[f] = job[f]
      /\ job'[e].pc \notin {"idle", "write"}
  BY <1>3, <1>4 DEF FirstPhase
<1>6. /\ up' = up /\ rest' = (rest \/ e \in Requests) /\ overlap' = (overlap \/ ~AtRest)
      /\ UNCHANGED <<file, config>>
  BY <1>1 DEF Begin
<1>7. Quiet'
  BY <1>5, <1>6 DEF Quiet, SaveInv, Executors
<1>8. ASSUME ~overlap', ~rest', up'
      PROVE  /\ (\A f \in Sockets : job'[f] = Idle) => file' = config'
             /\ \A f \in Sockets : job'[f].pc = "write" => file' = Torn
  <2>1. ~overlap /\ ~rest /\ AtRest /\ file = config
    BY <1>6, <1>8 DEF AtRest, SaveInv, Saved, Executors
  <2>2. \A f \in Executors : job'[f].pc # "write"
    BY <1>5, <2>1, IdlePlace DEF AtRest
  <2> QED BY <1>6, <2>1, <2>2 DEF Executors
<1> QED BY <1>7, <1>8 DEF Saved

(* A step that is not the master's changes neither, or takes the file.     *)
LEMMA SignalKeeps ==
    ASSUME TypeInv, NEW e \in Signals, Step(e)
    PROVE  file' = file /\ (config' = config \/ config' = file)
<1>0. PICK b : b = job[e] /\ IsJob(e, b)
  BY JobFields DEF TypeInv, Executors
<1>1. CASE b.op = "none"
  <2>1. b.pc = "idle"
    BY <1>0, <1>1 DEF IsJob, Phases
  <2> QED BY <1>0, <2>1, StepShape DEF Executors
<1>2. CASE b.op = "reload"
  <2>1. b.pc \in {"clear", "load"}
    BY <1>0, <1>2 DEF IsJob, Phases
  <2>2. ReloadClear(e) \/ ReloadService(e)
    BY <1>0, <1>2, <2>1 DEF Step, CreateParse, CreateRegister, CreateServe, CreateConfig, Check,
       CloseOld, Unload, Forget, Renew, Reregister, DeleteClose, PauseStop, UndoPause,
       UndoResume, Configure, SaveCreate, SaveWrite, At
  <2> QED BY <2>2 DEF ReloadClear, ReloadService
<1> QED BY <1>0, <1>1, <1>2 DEF IsJob, JobOK

LEMMA StepSaved ==
    ASSUME SaveInv, NEW e \in Executors, Step(e)
    PROVE  Quiet' /\ Saved'
<1>1. job[e].pc # "idle" /\ UNCHANGED <<overlap, rest>>
  BY StepShape DEF SaveInv
<1>2. job[e] # Idle /\ up
  BY <1>1, IdlePlace DEF SaveInv, Still
<1>3. CASE Stopped
  BY <1>3 DEF Stopped, Quiet, Saved, Executors
<1>4. CASE Usual(e) /\ UNCHANGED up
  <2>1. Quiet'
    <3>1. \A f \in Executors \ {e} : job'[f] = job[f]
      BY <1>4 DEF Usual, Others
    <3>2. ~rest => e \notin Requests
      BY <1>2 DEF SaveInv, Quiet
    <3> QED BY <1>1, <3>1, <3>2 DEF SaveInv, Quiet, Executors
  <2>2. ASSUME ~overlap', ~rest', up'
        PROVE  /\ (\A f \in Sockets : job'[f] = Idle) => file' = config'
               /\ \A f \in Sockets : job'[f].pc = "write" => file' = Torn
    <3>1. ~overlap /\ ~rest /\ \A f \in Executors \ {e} : job[f] = Idle /\ job'[f] = Idle
      BY <1>1, <1>4, <2>2, OthersIdle DEF Usual, Others, SaveInv
    <3>2. CASE e \in Sockets
      <4>1. CASE SaveWrite(e)
        <5>1. job[e].pc = "write"
          BY <4>1 DEF SaveWrite, At
        <5>2. file = Torn
          BY <1>2, <3>1, <3>2, <5>1 DEF SaveInv, Saved
        <5>3. file' = config /\ config' = config /\ job' = [job EXCEPT ![e] = Idle]
          BY <4>1, <5>2 DEF SaveWrite
        <5>4. job'[e] = Idle
          BY <5>3 DEF SaveInv, TypeInv, JobInv
        <5>5. \A f \in Sockets : job'[f].pc = "idle"
          BY <3>1, <5>4, IdlePlace DEF Executors
        <5> QED BY <5>3, <5>5
      <4>2. CASE ~SaveWrite(e)
        <5>1. job'[e].pc # "idle"
          BY <1>4, <3>2, <4>2 DEF Usual, Entered
        <5>2. job'[e] # Idle
          BY <5>1, IdlePlace
        <5>3. job'[e].pc = "write" => file' = Torn
          BY <1>4 DEF Usual, Entered, SaveCreate
        <5>4. \A f \in Sockets \ {e} : job'[f].pc = "idle"
          BY <3>1, IdlePlace DEF Executors
        <5> QED BY <3>2, <5>2, <5>3, <5>4
      <4> QED BY <4>1, <4>2
    <3>3. CASE e \in Signals
      <4>1. e \notin Sockets
        BY <3>3, ServicesAssumption
      <4>2. \A f \in Sockets : job[f] = Idle /\ job'[f] = Idle
        BY <3>1, <4>1 DEF Executors
      <4>3. file = config
        BY <1>2, <3>1, <4>2 DEF SaveInv, Saved
      <4>4. file' = config'
        BY <3>3, <4>3, SignalKeeps DEF SaveInv
      <4> QED BY <4>2, <4>4, IdlePlace
    <3>4. CASE e \in Requests
      BY <1>2, <3>1, <3>4 DEF SaveInv, Quiet
    <3> QED BY <3>2, <3>3, <3>4 DEF Executors
  <2> QED BY <2>1, <2>2 DEF Saved
<1> QED BY <1>3, <1>4, StepShape DEF SaveInv

LEMMA SaveInit == Init => SaveInv
<1> SUFFICES ASSUME Init PROVE SaveInv
  OBVIOUS
<1>1. TypeInv
  BY InitTypes
<1>2. Alone /\ Still
  BY DEF Init, Alone, Still
<1>3. Quiet
  BY DEF Init, Quiet, Executors
<1>4. Saved
  <2>1. \A e \in Sockets : job[e].pc = "idle"
    BY IdlePlace DEF Init, Executors
  <2>2. file = config
    BY DEF Init
  <2> QED BY <2>1, <2>2 DEF Saved
<1> QED BY <1>1, <1>2, <1>3, <1>4 DEF SaveInv

LEMMA SaveNext == SaveInv /\ [Next]_vars => SaveInv'
<1> SUFFICES ASSUME SaveInv, [Next]_vars PROVE SaveInv'
  OBVIOUS
<1>1. CASE Next
  <2>1. TypeInv'
    BY <1>1, NextSteps, CommandTypes, StepTypes, CrashTypes, BootTypes, CollectTypes DEF SaveInv
  <2>2. Alone' /\ Still'
    BY <1>1, NextSteps, AloneKept DEF SaveInv
  <2>3. Quiet' /\ Saved'
    <3>1. ASSUME NEW e \in Executors, Commands(e) PROVE Quiet' /\ Saved'
      BY <3>1, CommandSaved
    <3>2. ASSUME NEW e \in Executors, Step(e) PROVE Quiet' /\ Saved'
      BY <3>2, StepSaved
    <3>3. CASE Crash
      BY <3>3 DEF Crash, Quiet, Saved, Executors
    <3>4. CASE Boot
      <4>1. Quiet'
        BY <3>4 DEF Boot, SaveInv, Quiet
      <4>2. \A e \in Sockets : job'[e].pc = "idle"
        BY <3>4, IdlePlace DEF Boot, SaveInv, Still, Executors
      <4>3. file' = config'
        BY <3>4 DEF Boot
      <4> QED BY <4>1, <4>2, <4>3 DEF Saved
    <3>5. ASSUME NEW id \in Ids, Collect(id) PROVE Quiet' /\ Saved'
      BY <3>5 DEF Collect, SaveInv, Quiet, Saved, history
    <3> QED BY <1>1, <3>1, <3>2, <3>3, <3>4, <3>5, NextSteps
  <2> QED BY <2>1, <2>2, <2>3 DEF SaveInv
<1>2. CASE UNCHANGED vars
  <2>1. TypeInv' /\ Alone' /\ Still'
    BY <1>2 DEF vars, nodeVars, history, SaveInv, TypeInv, TypeOK, JobInv, Alone, Still
  <2>2. Quiet' /\ Saved'
    BY <1>2 DEF vars, nodeVars, history, SaveInv, Quiet, Saved
  <2> QED BY <2>1, <2>2 DEF SaveInv
<1> QED BY <1>1, <1>2

(* Between commands of the master, the file is the configuration, so a     *)
(* crash loses nothing.                                                    *)
THEOREM FileIsSaved == Spec => []FileIsConfig
<1>1. SaveInv => FileIsConfig
  BY DEF SaveInv, Saved, FileIsConfig, AtRest, Executors
<1> QED BY <1>1, SaveInit, SaveNext, PTL DEF Spec

-----------------------------------------------------------------------------
(* Which services the registry and the configuration disagree on, and why: *)
(* a create registers before it configures, an update takes the service it *)
(* replaces off the registry, a delete unregisters before it cleans up.    *)

Once(n) == \E k : EntriesOf(n) = {k}

Matches(n) ==
    /\ n \in Registered => EntriesOf(n) # {}
    /\ failures = 0 => IF n \in Registered THEN Once(n) ELSE EntriesOf(n) = {}
Added(n) == n \in Registered /\ (failures = 0 => EntriesOf(n) = {})
Gone(n) == n \notin Registered /\ EntriesOf(n) # {} /\ (failures = 0 => Once(n))

Books(new, old) ==
    \A n \in Names : \/ n \in new /\ Added(n)
                     \/ n \in old /\ Gone(n)
                     \/ n \notin new \cup old /\ Matches(n)

Whole(b) == {b.items[k].name : k \in DOMAIN b.items}
Past(b) == {b.items[k].name : k \in 1..(b.i - 1)}
Present(b) == {b.items[b.i].name}

(* The services of a job that are registered and not yet configured, those *)
(* configured and no longer registered, and those that must be registered. *)
New(b) ==
    CASE b.op = "create" /\ b.pc = "register" -> Past(b)
      [] b.op = "create" /\ b.pc \in {"serve", "config"} -> Whole(b)
      [] OTHER -> {}

Old(b) ==
    CASE b.pc \in {"renew", "reregister"} -> Present(b)
      [] b.op = "delete" /\ b.pc \in {"unload", "forget"} -> Past(b)
      [] b.pc = "closeFound" -> Past(b) \cup Present(b)
      [] b.op = "delete" /\ b.pc = "config" -> Whole(b)
      [] OTHER -> {}

Needed(b) ==
    IF b.pc \in {"close", "unload", "forget", "renew", "reregister", "closeFound", "stop"}
            \/ (b.op = "pause" /\ b.pc = "undo")
    THEN Whole(b) \ Old(b) ELSE {}

(* The first m services of a job are different.                            *)
Distinct(b, m) == \A k, l \in 1..m : b.items[k].name = b.items[l].name => k = l

(* A reload has registered the services it has come to.                    *)
Loading(b) ==
    /\ DOMAIN b.items = DOMAIN config /\ b.i - 1 <= Len(b.items)
    /\ \A k \in DOMAIN config : config[k].name = b.items[k].name
    /\ \A n \in Names : n \in Registered <=> n \in Past(b)
    /\ Distinct(b, b.i - 1)

Phase(b) ==
    /\ IF b.pc = "load" THEN Loading(b) ELSE Books(New(b), Old(b))
    /\ Needed(b) \subseteq Registered
    /\ b.pc = "register" => Distinct(b, b.i - 1)
    /\ b.op = "create" /\ b.pc \in {"serve", "config"} => Distinct(b, Len(b.items))
    /\ b.pc = "clear" => b.i = 1

BookInv ==
    ~overlap => /\ (\A e \in Executors : job[e] = Idle) => Books({}, {})
                /\ \A e \in Executors : job[e] # Idle => Phase(job[e])

(* Where those of A are in what is picked from a list: as often as before. *)
Where(s, K, A) == {i \in DOMAIN Only(s, K) : Place(K, i) \in A}
Rank(K, k) == Cardinality({l \in K : l <= k})

LEMMA OnlyOnce ==
    ASSUME NEW S, NEW s \in Seq(S), NEW K \in SUBSET (DOMAIN s), NEW A \in SUBSET K
    PROVE  /\ A = {} <=> Where(s, K, A) = {}
           /\ \A k : A = {k} => Where(s, K, A) = {Rank(K, k)}
<1>1. DOMAIN s = 1..Len(s) /\ Len(s) \in Nat
  OBVIOUS
<1> DEFINE c == Cardinality(K)
           rank(k) == Cardinality({l \in K : l <= k})
<1>2. /\ \A i \in 1..c : \E k \in K : rank(k) = i
      /\ \A k \in K : rank(k) \in 1..c
      /\ \A k, m \in K : rank(k) = rank(m) => k = m
  BY <1>1, Ranked
<1>3. \A i : Place(K, i) = CHOOSE k \in K : rank(k) = i
  BY DEF Place
<1>4. Only(s, K) = [i \in 1..c |-> s[Place(K, i)]]
  BY DEF Only
<1> HIDE DEF rank, c
<1>5. \A i \in 1..c : Place(K, i) \in K /\ rank(Place(K, i)) = i
  BY <1>2, <1>3
<1>6. \A k \in K : Place(K, rank(k)) = k
  BY <1>2, <1>5
<1>7. DOMAIN Only(s, K) = 1..c
  BY <1>4
<1>8. ASSUME NEW k, A = {k}
      PROVE  {j \in 1..c : Place(K, j) \in A} = {rank(k)}
  <2>1. k \in K
    BY <1>8
  <2> QED BY <1>2, <1>5, <1>6, <1>8, <2>1
<1>9. A = {} <=> {i \in 1..c : Place(K, i) \in A} = {}
  <2>1. \A k \in A : k \in K /\ rank(k) \in 1..c /\ Place(K, rank(k)) = k
    BY <1>2, <1>6
  <2> QED BY <2>1
<1>10. Where(s, K, A) = {i \in 1..c : Place(K, i) \in A}
  BY <1>7 DEF Where
<1>11. ASSUME NEW k, A = {k} PROVE Where(s, K, A) = {Rank(K, k)}
  <2>1. Where(s, K, A) = {rank(k)}
    BY <1>8, <1>10, <1>11
  <2> QED BY <2>1 DEF Rank, rank
<1>12. A = {} <=> Where(s, K, A) = {}
  BY <1>9, <1>10
<1> QED BY <1>11, <1>12

(* Steps that leave the registry and the entries alone.                    *)
LEMMA BooksKept ==
    ASSUME NEW A, NEW B, Books(A, B), UNCHANGED registry,
           \A n \in Names : EntriesOf(n)' = EntriesOf(n),
           failures' = failures \/ failures' = 1
    PROVE  Books(A, B)'
<1>1. \A n \in Names : n \in Registered' <=> n \in Registered
  BY DEF Registered
<1>2. \A n \in Names : Once(n)' <=> Once(n)
  BY DEF Once
<1>3. failures' = 0 => failures = 0
  OBVIOUS
<1>4. \A n \in Names : /\ Matches(n) => Matches(n)'
                       /\ Added(n) => Added(n)'
                       /\ Gone(n) => Gone(n)'
  BY <1>1, <1>2, <1>3 DEF Matches, Added, Gone
<1> QED BY <1>4 DEF Books

LEMMA EntriesKept == ASSUME UNCHANGED config PROVE \A n : EntriesOf(n)' = EntriesOf(n)
BY DEF EntriesOf

(* A failure excuses a service that is off the registry.                   *)
LEMMA BooksExcused ==
    ASSUME NEW B, Books({}, B), UNCHANGED <<registry, config>>, failures' = 1
    PROVE  Books({}, {})'
<1>1. \A n \in Names : n \in Registered' <=> n \in Registered
  BY DEF Registered
<1>2. \A n \in Names : EntriesOf(n)' = EntriesOf(n)
  BY EntriesKept
<1>3. \A n \in Names : Matches(n) \/ Gone(n) => Matches(n)'
  BY <1>1, <1>2 DEF Matches, Gone
<1> QED BY <1>3 DEF Books

(* The phases that have nothing special.                                   *)
Plain(j) ==
    /\ j.pc \notin {"load", "clear", "register"}
    /\ ~(j.op = "create" /\ j.pc \in {"serve", "config"})

LEMMA PhaseAt ==
    ASSUME NEW e, NEW j, j = job'[e], Phase(j)'
    PROVE  Phase(job[e])'
BY DEF Phase, Loading, Books, Matches, Added, Gone, Once, EntriesOf, Registered

LEMMA PlainPhase ==
    ASSUME NEW e, NEW j, j = job'[e], Plain(j), Books({}, Old(j))', Needed(j) \subseteq Registered'
    PROVE  Phase(job[e])'
<1>1. New(j) = {}
  BY DEF Plain, New
<1>2. Books(New(j), Old(j))'
  BY <1>1
<1>3. Phase(j)'
  BY <1>2 DEF Phase, Plain
<1> QED BY <1>3, PhaseAt

LEMMA FinishPhase ==
    ASSUME JobInv, NEW e \in Executors, Finish(e) \/ job' = [job EXCEPT ![e] = Idle],
           Books({}, {})'
    PROVE  Phase(job[e])'
<1>1. PICK j : j = job'[e]
  OBVIOUS
<1>3. (j.op = "none" /\ j.pc = "idle") \/ (j.op = "save" /\ j.pc = "create")
  <2>1. CASE Finish(e)
    BY <1>1, <2>1, FinishPlace
  <2>2. CASE job' = [job EXCEPT ![e] = Idle]
    <3>1. j = Idle
      BY <1>1, <2>2 DEF JobInv
    <3> QED BY <3>1 DEF Idle
  <2> QED BY <2>1, <2>2
<1>4. Plain(j) /\ Old(j) = {} /\ Needed(j) = {}
  BY <1>3 DEF Plain, Old, Needed
<1>5. Books({}, Old(j))'
  BY <1>4
<1> QED BY <1>1, <1>4, <1>5, PlainPhase

(* The entry of a service, and its place in the list.                      *)
LEMMA WorkedOn ==
    ASSUME NEW e, NEW b, IsJob(e, b), b.i <= Len(b.items)
    PROVE  /\ b.i \in 1..Len(b.items) /\ b.items[b.i].name \in Names
           /\ Past(b) \subseteq Whole(b) /\ Whole(b) \subseteq Names
           /\ Present(b) = {b.items[b.i].name} /\ Present(b) \subseteq Whole(b)
<1>1. b.i \in 1..Len(b.items) /\ DOMAIN b.items = 1..Len(b.items)
  BY DEF IsJob
<1>2. \A k \in 1..Len(b.items) : b.items[k].name \in Names
  BY NamesOf
<1>3. 1..(b.i - 1) \subseteq 1..Len(b.items)
  BY <1>1 DEF IsJob
<1> QED BY <1>1, <1>2, <1>3 DEF Past, Whole, Present

(* The next service of a list, or the end of it.                           *)
LEMMA WorkedOff ==
    ASSUME NEW e, NEW b, IsJob(e, b), b.i <= Len(b.items), NEW j, j.items = b.items
    PROVE  /\ j.i = b.i + 1 => Past(j) = Past(b) \cup Present(b)
           /\ j.i = 1 => Past(j) = {}
           /\ ~(b.i < Len(b.items)) => Whole(b) = Past(b) \cup Present(b)
           /\ Whole(j) = Whole(b)
<1>1. b.i \in 1..Len(b.items) /\ DOMAIN b.items = 1..Len(b.items) /\ Len(b.items) \in Nat
  BY DEF IsJob
<1>2. j.i = b.i + 1 => 1..(j.i - 1) = 1..(b.i - 1) \cup {b.i}
  BY <1>1
<1>3. j.i = 1 => 1..(j.i - 1) = {}
  OBVIOUS
<1>4. ~(b.i < Len(b.items)) => DOMAIN b.items = 1..(b.i - 1) \cup {b.i}
  BY <1>1
<1> QED BY <1>2, <1>3, <1>4 DEF Past, Whole, Present

LEMMA CreateParsePhase ==
    ASSUME TypeInv, NEW e \in Executors, Phase(job[e]), CreateParse(e)
    PROVE  Phase(job[e])'
<1>0. PICK b : b = job[e] /\ IsJob(e, b)
  BY JobFields DEF TypeInv
<1>i. JobInv
  BY DEF TypeInv
<1>1. b.op = "create" /\ b.pc = "parse" /\ UNCHANGED <<registry, config>>
  BY <1>0 DEF CreateParse, At
<1>2. Books({}, {})
  BY <1>0, <1>1 DEF Phase, New, Old
<1>3. failures' = failures \/ failures' = 1
  BY DEF CreateParse, ParseFails
<1>4. Books({}, {})'
  BY <1>1, <1>2, <1>3, BooksKept, EntriesKept
<1>5. CASE Finish(e)
  BY <1>i, <1>4, <1>5, FinishPhase
<1>6. CASE job' = [job EXCEPT ![e].held = Append(@, Fresh),
                              ![e].i = IF b.i < Len(b.items) THEN b.i + 1 ELSE 1,
                              ![e].pc = IF b.i < Len(b.items) THEN "parse" ELSE "register"]
  <2>1. PICK h, k, p : /\ h = Append(b.held, Fresh)
                       /\ k = IF b.i < Len(b.items) THEN b.i + 1 ELSE 1
                       /\ p = IF b.i < Len(b.items) THEN "parse" ELSE "register"
    OBVIOUS
  <2>2. PICK c : c = [b EXCEPT !.held = h]
    OBVIOUS
  <2>3. c = [op |-> b.op, pc |-> b.pc, items |-> b.items, i |-> b.i, held |-> h]
    BY <1>0, <2>2 DEF IsJob
  <2>4. PICK d : d = [c EXCEPT !.i = k]
    OBVIOUS
  <2>5. d = [op |-> b.op, pc |-> b.pc, items |-> b.items, i |-> k, held |-> h]
    BY <2>3, <2>4
  <2>6. PICK j : j = [d EXCEPT !.pc = p]
    OBVIOUS
  <2>7. j = [op |-> b.op, pc |-> p, items |-> b.items, i |-> k, held |-> h]
    BY <2>5, <2>6
  <2>8. job' = [job EXCEPT ![e] = [[[b EXCEPT !.held = h] EXCEPT !.i = k] EXCEPT !.pc = p]]
    BY <1>0, <1>6, <2>1
  <2>9. job'[e] = j
    BY <1>i, <2>2, <2>4, <2>6, <2>8 DEF JobInv
  <2>10. j.op = "create" /\ (j.pc = "parse" \/ (j.pc = "register" /\ j.i = 1))
    BY <1>1, <2>1, <2>7
  <2>11. New(j) = {} /\ Old(j) = {} /\ Needed(j) = {}
    <3>1. j.i = 1 => Past(j) = {}
      BY DEF Past
    <3> QED BY <2>10, <3>1 DEF New, Old, Needed
  <2>12. Books(New(j), Old(j))'
    BY <1>4, <2>11
  <2>13. j.pc = "register" => Distinct(j, j.i - 1)
    BY <2>10 DEF Distinct
  <2>14. Phase(j)'
    BY <2>10, <2>11, <2>12, <2>13 DEF Phase
  <2> QED BY <2>9, <2>14, PhaseAt
<1> QED BY <1>0, <1>5, <1>6 DEF CreateParse

LEMMA CreateRegisterPhase ==
    ASSUME TypeInv, NEW e \in Executors, Phase(job[e]), CreateRegister(e)
    PROVE  Phase(job[e])'
<1>0. PICK b : b = job[e] /\ IsJob(e, b)
  BY JobFields DEF TypeInv
<1>i. JobInv
  BY DEF TypeInv
<1>1. b.op = "create" /\ b.pc = "register" /\ UNCHANGED <<config, failures>>
  BY <1>0 DEF CreateRegister, At, history
<1>2. Books(Past(b), {}) /\ Distinct(b, b.i - 1)
  BY <1>0, <1>1 DEF Phase, New, Old
<1>3. PICK n : n = b.items[b.i].name
  OBVIOUS
<1>4. /\ b.i \in 1..Len(b.items) /\ n \in Names /\ Past(b) \subseteq Names /\ Present(b) = {n}
      /\ b.held[b.i] \in Ids
  BY <1>0, <1>1, <1>3, <1>i, CurrentType, WorkedOn DEF Working, OnHeld
<1>5. \A m \in Names : EntriesOf(m)' = EntriesOf(m) /\ (Once(m)' <=> Once(m))
  BY <1>1, EntriesKept DEF Once
<1>6. CASE n \in Registered
  <2>1. registry' = [m \in Names |-> IF m \in Past(b) THEN 0 ELSE registry[m]] /\ Finish(e)
    BY <1>0, <1>3, <1>6 DEF CreateRegister, Past, Current
  <2>2. \A m \in Names : m \in Registered' <=> m \in Registered \ Past(b)
    BY <2>1 DEF Registered
  <2>3. \A m \in Names : Matches(m)'
    BY <1>1, <1>2, <1>5, <2>2 DEF Books, Added, Matches
  <2>4. Books({}, {})'
    BY <2>3 DEF Books
  <2> QED BY <1>i, <2>1, <2>4, FinishPhase
<1>7. CASE n \notin Registered
  <2>1. registry' = [registry EXCEPT ![n] = b.held[b.i]] /\ Each(e, "register", "serve")
    BY <1>0, <1>3, <1>7 DEF CreateRegister, Current
  <2>2. \A m \in Names : m \in Registered' <=> m \in Registered \cup {n}
    <3>1. b.held[b.i] # 0
      BY <1>4, ServicesAssumption DEF Ids
    <3>2. PICK r : r = registry
      OBVIOUS
    <3>3. DOMAIN r = Names
      BY <3>2 DEF TypeInv, TypeOK
    <3>4. \A m \in Names : registry'[m] = IF m = n THEN b.held[b.i] ELSE r[m]
      BY <2>1, <3>2, <3>3
    <3> QED BY <1>4, <3>1, <3>2, <3>4 DEF Registered
  <2>3. PICK j : j = job'[e]
    OBVIOUS
  <2>4. /\ j.op = "create" /\ j.items = b.items
        /\ j.pc = IF b.i < Len(b.items) THEN "register" ELSE "serve"
        /\ j.i = IF b.i < Len(b.items) THEN b.i + 1 ELSE 1
    BY <1>0, <1>1, <1>i, <2>1, <2>3, EachPlace
  <2>5. n \notin Past(b)
    BY <1>2, <1>4, <1>7 DEF Books, Added
  <2>6. PICK new : new = Past(b) \cup {n}
    OBVIOUS
  <2>7. Books(new, {})'
    <3>1. Added(n)'
      BY <1>1, <1>2, <1>4, <1>5, <1>7, <2>2, <2>5 DEF Books, Added, Matches
    <3>2. \A m \in Past(b) : Added(m)'
      BY <1>1, <1>2, <1>4, <1>5, <2>2 DEF Books, Added
    <3>3. \A m \in Names \ new : Matches(m)'
      BY <1>1, <1>2, <1>5, <2>2, <2>6 DEF Books, Matches
    <3> QED BY <2>6, <3>1, <3>2, <3>3 DEF Books
  <2>8. Distinct(b, b.i)
    <3>1. \A k \in 1..(b.i - 1) : b.items[k].name # n
      BY <2>5 DEF Past
    <3> QED BY <1>2, <1>3, <1>4, <3>1 DEF Distinct
  <2>9. CASE b.i < Len(b.items)
    <3>1. New(j) = new /\ Old(j) = {} /\ Needed(j) = {}
      BY <1>0, <1>4, <2>4, <2>6, <2>9, WorkedOff DEF New, Old, Needed
    <3>2. Distinct(j, j.i - 1)
      BY <1>4, <2>4, <2>8, <2>9 DEF Distinct
    <3>3. Books(New(j), Old(j))'
      BY <2>7, <3>1
    <3>4. Phase(j)'
      BY <2>4, <2>9, <3>1, <3>2, <3>3 DEF Phase
    <3> QED BY <2>3, <3>4, PhaseAt
  <2>10. CASE ~(b.i < Len(b.items))
    <3>1. New(j) = new /\ Old(j) = {} /\ Needed(j) = {}
      BY <1>0, <1>4, <2>4, <2>6, <2>10, WorkedOff DEF New, Old, Needed
    <3>2. Distinct(j, Len(j.items))
      <4>1. Len(b.items) \in Nat
        BY <1>0 DEF IsJob
      <4>2. Len(b.items) = b.i
        BY <1>4, <2>10, <4>1
      <4> QED BY <2>4, <2>8, <4>2 DEF Distinct
    <3>3. Books(New(j), Old(j))'
      BY <2>7, <3>1
    <3>4. Phase(j)'
      BY <2>4, <2>10, <3>1, <3>2, <3>3 DEF Phase
    <3> QED BY <2>3, <3>4, PhaseAt
  <2> QED BY <2>9, <2>10
<1> QED BY <1>6, <1>7

LEMMA CreateServePhase ==
    ASSUME TypeInv, NEW e \in Executors, Phase(job[e]), CreateServe(e)
    PROVE  Phase(job[e])'
<1>0. PICK b : b = job[e]
  OBVIOUS
<1>1. b.op = "create" /\ b.pc = "serve" /\ UNCHANGED <<registry, config, failures>> /\ GoTo(e, "config")
  BY <1>0 DEF CreateServe, At, history
<1>2. Books(Whole(b), {}) /\ Distinct(b, Len(b.items))
  BY <1>0, <1>1 DEF Phase, New, Old
<1>3. PICK j : j = job'[e]
  OBVIOUS
<1>4. j.op = "create" /\ j.pc = "config" /\ j.items = b.items
  BY <1>0, <1>1, <1>3, GoToPlace DEF TypeInv
<1>5. New(j) = Whole(b) /\ Old(j) = {} /\ Needed(j) = {} /\ Distinct(j, Len(j.items))
  BY <1>2, <1>4 DEF New, Old, Needed, Whole, Distinct
<1>6. Books(Whole(b), {})'
  BY <1>1, <1>2, BooksKept, EntriesKept
<1>7. Phase(j)'
  BY <1>4, <1>5, <1>6 DEF Phase
<1> QED BY <1>3, <1>7, PhaseAt

LEMMA Joined ==
    ASSUME NEW S, NEW s \in Seq(S), NEW t \in Seq(S)
    PROVE  /\ DOMAIN (s \o t) = 1..(Len(s) + Len(t))
           /\ \A k \in 1..Len(s) : (s \o t)[k] = s[k]
           /\ \A k \in 1..Len(t) : (s \o t)[Len(s) + k] = t[k]
<1>1. DOMAIN (s \o t) = 1..(Len(s) + Len(t))
  OBVIOUS
<1>2. \A k \in 1..Len(s) : (s \o t)[k] = s[k]
  OBVIOUS
<1>3. ASSUME NEW k \in 1..Len(t) PROVE (s \o t)[Len(s) + k] = t[k]
  OBVIOUS
<1> QED BY <1>1, <1>2, <1>3

(* The configuration after a create.                                       *)
Named(b, n) == {h \in 1..Len(b.items) : b.items[h].name = n}
Behind(l, H) == {l + h : h \in H}

LEMMA AppendedConfig ==
    ASSUME TypeInv, NEW e \in Executors, NEW b, b = job[e], IsJob(e, b), CreateConfig(e),
           NEW l, NEW m, NEW new, l = Len(config), m = Len(b.items), new = Appended(b)
    PROVE  /\ DOMAIN config = 1..l /\ l \in Nat /\ m \in Nat
           /\ \A k \in 1..l : config'[k] = config[k]
           /\ \A k \in 1..m : config'[l + k] = new[k]
           /\ \A n : EntriesOf(n)' = EntriesOf(n) \cup Behind(l, Named(b, n))
<1>1. b.op = "create"
  BY DEF CreateConfig, At
<1>5. /\ config \in Seq(Entry) /\ DOMAIN config = 1..l /\ l \in Nat /\ m \in Nat
      /\ new \in Seq(Entry) /\ Len(new) = m
      /\ \A k \in 1..m : new[k].name = b.items[k].name
  <2>1. config \in Seq(Entry)
    BY DEF TypeInv, TypeOK
  <2>2. DOMAIN config = 1..l /\ l \in Nat
    BY <2>1
  <2>3. m \in Nat
    BY DEF IsJob
  <2>4. /\ Appended(b) \in Seq(Entry) /\ Len(Appended(b)) = Len(b.items)
        /\ \A k \in 1..Len(b.items) : Appended(b)[k].name = b.items[k].name
    BY <1>1, AppendedType
  <2> QED BY <2>1, <2>2, <2>3, <2>4
<1>6. /\ DOMAIN config' = 1..(l + m)
      /\ \A k \in 1..l : config'[k] = config[k]
      /\ \A k \in 1..m : config'[l + k] = new[k]
  <2>1. config' = config \o new
    BY DEF CreateConfig, Appended
  <2>2. /\ DOMAIN (config \o new) = 1..(l + m)
        /\ \A k \in 1..l : (config \o new)[k] = config[k]
        /\ \A k \in 1..m : (config \o new)[l + k] = new[k]
    <3>1. config \in Seq(Entry) /\ new \in Seq(Entry) /\ l = Len(config) /\ m = Len(new)
      BY <1>5
    <3>2. /\ DOMAIN (config \o new) = 1..(Len(config) + Len(new))
          /\ \A k \in 1..Len(config) : (config \o new)[k] = config[k]
          /\ \A k \in 1..Len(new) : (config \o new)[Len(config) + k] = new[k]
      <4>1. PICK c : c = config
        OBVIOUS
      <4>2. c \in Seq(Entry) /\ new \in Seq(Entry)
        BY <3>1, <4>1
      <4>3. /\ DOMAIN (c \o new) = 1..(Len(c) + Len(new))
            /\ \A k \in 1..Len(c) : (c \o new)[k] = c[k]
            /\ \A k \in 1..Len(new) : (c \o new)[Len(c) + k] = new[k]
        BY <4>2, Joined
      <4> QED BY <4>1, <4>3
    <3> QED BY <3>1, <3>2
  <2> QED BY <2>1, <2>2
<1>7. \A n : EntriesOf(n)' = EntriesOf(n) \cup Behind(l, Named(b, n))
  <2> SUFFICES ASSUME NEW n
               PROVE  EntriesOf(n)' = EntriesOf(n) \cup Behind(l, Named(b, n))
    OBVIOUS
  <2>1. \A k \in 1..(l + m) : k \in 1..l \/ \E h \in 1..m : k = l + h
    <3> SUFFICES ASSUME NEW k \in 1..(l + m), k \notin 1..l PROVE \E h \in 1..m : k = l + h
      OBVIOUS
    <3>1. k - l \in 1..m /\ k = l + (k - l)
      BY <1>5
    <3> QED BY <3>1
  <2>2. \A h \in 1..m : l + h \in 1..(l + m)
    BY <1>5
  <2>3. 1..l \subseteq 1..(l + m)
    BY <1>5
  <2>4. EntriesOf(n)' = {k \in 1..(l + m) : config'[k].name = n}
    BY <1>6 DEF EntriesOf
  <2>5. EntriesOf(n) = {k \in 1..l : config[k].name = n}
    BY <1>5 DEF EntriesOf
  <2>6. PICK H : H = {h \in 1..m : b.items[h].name = n}
    OBVIOUS
  <2>7. ASSUME NEW k \in EntriesOf(n)' PROVE k \in EntriesOf(n) \/ \E h \in H : k = l + h
    <3>1. k \in 1..(l + m) /\ config'[k].name = n
      BY <2>4, <2>7
    <3>2. CASE k \in 1..l
      BY <1>6, <2>5, <3>1, <3>2
    <3>3. ASSUME NEW h \in 1..m, k = l + h PROVE h \in H
      <4>1. config'[k] = new[h]
        BY <1>6, <3>3
      <4>2. new[h].name = n
        BY <3>1, <4>1
      <4> QED BY <1>5, <2>6, <4>2
    <3>4. \A h \in 1..m : k = l + h => h \in H
      BY <3>3
    <3>5. k \in 1..l \/ \E h \in 1..m : k = l + h
      BY <2>1, <3>1
    <3> QED BY <3>2, <3>4, <3>5
  <2>8. EntriesOf(n) \subseteq EntriesOf(n)'
    BY <1>6, <2>3, <2>4, <2>5
  <2>9. \A h \in H : l + h \in EntriesOf(n)'
    BY <1>5, <1>6, <2>2, <2>4, <2>6
  <2>10. PICK E, F : E = EntriesOf(n) /\ F = EntriesOf(n)'
    OBVIOUS
  <2>11. F = E \cup {l + h : h \in H}
    BY <2>7, <2>8, <2>9, <2>10
  <2> QED BY <2>6, <2>10, <2>11 DEF Named, Behind
<1> QED BY <1>5, <1>6, <1>7

LEMMA CreateConfigPhase ==
    ASSUME TypeInv, NEW e \in Executors, Phase(job[e]), CreateConfig(e)
    PROVE  Phase(job[e])'
<1>0. PICK b : b = job[e] /\ IsJob(e, b)
  BY JobFields DEF TypeInv
<1>1. /\ b.op = "create" /\ b.pc = "config" /\ Finish(e)
      /\ UNCHANGED <<registry, failures>>
  BY <1>0 DEF CreateConfig, At, history
<1>2. Books(Whole(b), {}) /\ Distinct(b, Len(b.items))
  BY <1>0, <1>1 DEF Phase, New, Old
<1>4. PICK l, m, new : l = Len(config) /\ m = Len(b.items) /\ new = Appended(b)
  OBVIOUS
<1>7. \A n : EntriesOf(n)' = EntriesOf(n) \cup Behind(l, Named(b, n))
  BY <1>0, <1>4, AppendedConfig
<1>8. \A n \in Names : n \in Registered' <=> n \in Registered
  BY <1>1 DEF Registered
<1>9. ASSUME NEW n \in Names PROVE Matches(n)'
  <2>1. CASE n \in Whole(b)
    <3>1. PICK k \in 1..m : b.items[k].name = n
      BY <1>0, <1>4, <2>1 DEF Whole, IsJob
    <3>2. Named(b, n) = {k}
      BY <1>2, <1>4, <3>1 DEF Distinct, Named
    <3>3. EntriesOf(n)' = EntriesOf(n) \cup {l + k}
      BY <1>7, <3>2 DEF Behind
    <3>4. Added(n)
      BY <1>2, <2>1 DEF Books
    <3> QED BY <1>1, <1>8, <3>3, <3>4 DEF Matches, Added, Once
  <2>2. CASE n \notin Whole(b)
    <3>1. Named(b, n) = {}
      BY <1>0, <1>4, <2>2 DEF Whole, IsJob, Named
    <3>2. EntriesOf(n)' = EntriesOf(n)
      BY <1>7, <3>1 DEF Behind
    <3>3. Matches(n)
      BY <1>2, <2>2 DEF Books
    <3> QED BY <1>1, <1>8, <3>2, <3>3 DEF Matches, Once
  <2> QED BY <2>1, <2>2
<1>10. Books({}, {})'
  BY <1>9 DEF Books
<1> QED BY <1>1, <1>10, FinishPhase DEF TypeInv

LEMMA CheckPhase ==
    ASSUME TypeInv, NEW e \in Executors, Phase(job[e]), Check(e)
    PROVE  Phase(job[e])'
<1>0. PICK b : b = job[e] /\ IsJob(e, b)
  BY JobFields DEF TypeInv
<1>i. JobInv
  BY DEF TypeInv
<1>1. b.pc = "check" /\ UNCHANGED <<registry, config, failures>>
  BY <1>0 DEF Check, history
<1>2. b.op \in {"update", "delete", "pause", "resume"}
  BY <1>0, <1>1 DEF IsJob, Operations, Phases
<1>3. Books({}, {})'
  <2>1. Books({}, {})
    BY <1>0, <1>1, <1>2 DEF Phase, New, Old
  <2> QED BY <1>1, <2>1, BooksKept, EntriesKept
<1>4. CASE Finish(e)
  BY <1>i, <1>3, <1>4, FinishPhase
<1>5. CASE ~Finish(e)
  <2>1. PICK sel \in Seq(Item) :
              /\ sel = Selected(e)
              /\ \A i \in DOMAIN sel : \E k \in DOMAIN b.items : sel[i] = b.items[k]
    BY <1>0, SelectedType
  <2>2. PICK pc, items, held :
          /\ pc = IF sel = <<>> THEN "config" ELSE AfterCheck(b.op)
          /\ items = [k \in DOMAIN sel |-> IF b.op = "update" THEN sel[k]
                                ELSE [sel[k] EXCEPT !.addr = AddrOf(sel[k].name)]]
          /\ held = [k \in DOMAIN sel |-> registry[sel[k].name]]
    OBVIOUS
  <2>3. PICK j : j = [op |-> b.op, i |-> 1, pc |-> pc, items |-> items, held |-> held]
    OBVIOUS
  <2>4. AllFound(e) /\ job' = [job EXCEPT ![e] = j]
    BY <1>0, <1>5, <2>1, <2>2, <2>3 DEF Check
  <2>5. j = job'[e]
    BY <1>i, <2>4 DEF JobInv
  <2>6. \A k \in DOMAIN items : k \in DOMAIN sel /\ items[k].name = sel[k].name
    <3>1. \A k \in DOMAIN sel : sel[k] \in Item
      BY <2>1
    <3> QED BY <2>2, <3>1 DEF Item
  <2>7. Whole(j) \subseteq Registered
    <3> SUFFICES ASSUME NEW k \in DOMAIN items PROVE items[k].name \in Registered
      BY <2>3 DEF Whole
    <3>1. PICK l \in DOMAIN b.items : sel[k] = b.items[l]
      BY <2>1, <2>6
    <3>2. b.items[l].name \in Registered
      BY <1>0, <2>4 DEF AllFound, ToSet
    <3> QED BY <2>6, <3>1, <3>2
  <2>8. Registered' = Registered
    BY <1>1 DEF Registered
  <2>9. Past(j) = {} /\ (j.pc = "config" /\ j.op = "delete" => Whole(j) = {})
    <3>1. Past(j) = {}
      BY <2>3 DEF Past
    <3>2. sel = <<>> => DOMAIN items = {}
      BY <2>2
    <3>3. sel # <<>> => pc # "config"
      BY <2>2 DEF AfterCheck
    <3> QED BY <2>3, <3>1, <3>2, <3>3 DEF Whole
  <2>10. j.op = b.op /\ j.pc \in {"config", "unload", "stop", "close"}
    BY <2>2, <2>3 DEF AfterCheck
  <2>11. Old(j) = {} /\ Needed(j) \subseteq Whole(j) /\ Plain(j)
    BY <1>2, <2>9, <2>10 DEF Old, Needed, Plain
  <2>12. Books({}, Old(j))'
    BY <1>3, <2>11
  <2>13. Needed(j) \subseteq Registered'
    BY <2>7, <2>8, <2>11
  <2> QED BY <2>5, <2>11, <2>12, <2>13, PlainPhase
<1> QED BY <1>4, <1>5

(* A step from one service's phase to the next, the lists being the same.  *)
LEMMA OnwardPhase ==
    ASSUME TypeInv, NEW e \in Executors, Phase(job[e]), NEW pc, GoTo(e, pc),
           UNCHANGED <<registry, config, failures>>,
           NEW b, b = job[e], NEW j, j = job'[e], b.pc # "load", New(b) = {}, Plain(j),
           Old(j) = Old(b), Needed(j) \subseteq Registered
    PROVE  Phase(job[e])'
<1>1. Books({}, Old(b))
  BY DEF Phase
<1>2. Books({}, Old(b))'
  BY <1>1, BooksKept, EntriesKept
<1>3. Registered' = Registered
  BY DEF Registered
<1>4. Books({}, Old(j))'
  BY <1>2
<1> QED BY <1>3, <1>4, PlainPhase

LEMMA CloseOldPhase ==
    ASSUME TypeInv, NEW e \in Executors, Phase(job[e]), CloseOld(e)
    PROVE  Phase(job[e])'
<1>0. PICK b : b = job[e] /\ IsJob(e, b)
  BY JobFields DEF TypeInv
<1>i. JobInv
  BY DEF TypeInv
<1>1. b.pc = "close" /\ b.op \in {"update", "resume"}
  BY <1>0 DEF CloseOld, IsJob, Operations, Phases
<1>2. /\ b.i <= Len(b.items) /\ b.held[b.i] \in Ids /\ Current(e) = b.items[b.i]
  BY <1>0, <1>1, <1>i, CurrentType DEF Working, OnHeld, IsJob, JobOK, Current
<1>3. Old(b) = {} /\ New(b) = {} /\ Needed(b) = Whole(b)
  BY <1>1 DEF Old, New, Needed
<1>4. Whole(b) \subseteq Registered
  BY <1>0, <1>3 DEF Phase
<1>5. registry[Current(e).name] # 0 /\ b.held[b.i] # 0
  <2>1. b.items[b.i].name \in Registered
    BY <1>0, <1>2, <1>4, WorkedOn
  <2> QED BY <1>2, <2>1, ServicesAssumption DEF Registered, Ids
<1>6. GoTo(e, "unload") /\ UNCHANGED <<registry, config, failures>>
  BY <1>0, <1>5 DEF CloseOld, history
<1>7. PICK j : j = job'[e]
  OBVIOUS
<1>8. j.pc = "unload" /\ j.op = b.op /\ j.items = b.items
  BY <1>0, <1>6, <1>7, <1>i, GoToPlace
<1>9. Plain(j) /\ Old(j) = {} /\ Needed(j) = Whole(b)
  BY <1>1, <1>8 DEF Plain, Old, Needed, Whole
<1> QED BY <1>0, <1>1, <1>3, <1>4, <1>6, <1>7, <1>9, OnwardPhase

LEMMA UnloadPhase ==
    ASSUME TypeInv, NEW e \in Executors, Phase(job[e]), Unload(e)
    PROVE  Phase(job[e])'
<1>0. PICK b : b = job[e] /\ IsJob(e, b)
  BY JobFields DEF TypeInv
<1>i. JobInv
  BY DEF TypeInv
<1>1. b.pc = "unload" /\ b.op \in {"update", "resume", "delete"}
      /\ UNCHANGED <<registry, config, failures>>
  BY <1>0 DEF Unload, IsJob, Operations, Phases, history
<1>2. b.i <= Len(b.items) /\ Current(e) = b.items[b.i]
  BY <1>0, <1>1 DEF Working, OnHeld, IsJob, JobOK, Current
<1>3. New(b) = {} /\ Needed(b) = Whole(b) \ Old(b)
  BY <1>1 DEF New, Needed
<1>4. Needed(b) \subseteq Registered
  BY <1>0 DEF Phase
<1>5. PICK n : n = b.items[b.i].name
  OBVIOUS
<1>6. n \in Whole(b) /\ Present(b) = {n}
  BY <1>0, <1>2, <1>5, WorkedOn
<1>7. PICK j : j = job'[e]
  OBVIOUS
<1>8. CASE n \in Registered
  <2>1. GoTo(e, "forget")
    BY <1>2, <1>5, <1>8 DEF Unload
  <2>2. j.pc = "forget" /\ j.op = b.op /\ j.items = b.items /\ j.i = b.i
    BY <1>0, <1>7, <1>i, <2>1, GoToPlace
  <2>3. Plain(j) /\ Old(j) = Old(b) /\ Needed(j) = Needed(b)
    BY <1>1, <2>2 DEF Plain, Old, Needed, Whole, Past
  <2> QED BY <1>0, <1>1, <1>3, <1>4, <1>7, <2>1, <2>3, OnwardPhase
<1>9. CASE n \notin Registered
  <2>1. n \in Old(b)
    BY <1>3, <1>4, <1>6, <1>9
  <2>2. b.op = "delete" /\ Old(b) = Past(b)
    BY <1>1, <2>1 DEF Old
  <2>3. GoTo(e, "closeFound")
    BY <1>0, <1>2, <1>5, <1>9, <2>2 DEF Unload
  <2>4. j.pc = "closeFound" /\ j.op = b.op /\ j.items = b.items /\ j.i = b.i
    BY <1>0, <1>7, <1>i, <2>3, GoToPlace
  <2>5. Past(j) = Past(b) /\ Present(j) = Present(b) /\ Whole(j) = Whole(b)
    BY <2>4 DEF Past, Present, Whole
  <2>6. Plain(j) /\ Old(j) = Old(b) /\ Needed(j) = Needed(b)
    BY <1>3, <1>6, <2>1, <2>2, <2>4, <2>5 DEF Plain, Old, Needed
  <2> QED BY <1>0, <1>1, <1>3, <1>4, <1>7, <2>3, <2>6, OnwardPhase
<1> QED BY <1>8, <1>9

LEMMA ForgetPhase ==
    ASSUME TypeInv, NEW e \in Executors, Phase(job[e]), Forget(e)
    PROVE  Phase(job[e])'
<1>0. PICK b : b = job[e] /\ IsJob(e, b)
  BY JobFields DEF TypeInv
<1>i. JobInv
  BY DEF TypeInv
<1>1. b.pc = "forget" /\ b.op \in {"update", "resume", "delete"} /\ UNCHANGED <<config, failures>>
  BY <1>0 DEF Forget, IsJob, Operations, Phases, history
<1>2. b.i <= Len(b.items) /\ Current(e) = b.items[b.i]
  BY <1>0, <1>1 DEF Working, OnHeld, IsJob, JobOK, Current
<1>3. New(b) = {} /\ Needed(b) = Whole(b) \ Old(b)
  BY <1>1 DEF New, Needed
<1>4. Needed(b) \subseteq Registered /\ Books({}, Old(b))
  BY <1>0, <1>1, <1>3 DEF Phase
<1>5. PICK n : n = b.items[b.i].name
  OBVIOUS
<1>6. n \in Names /\ n \in Whole(b) /\ Present(b) = {n}
  BY <1>0, <1>2, <1>5, WorkedOn
<1>7. PICK j, old : j = job'[e] /\ old = Old(b) \cup {n}
  OBVIOUS
<1>8. registry' = [registry EXCEPT ![n] = 0]
      /\ GoTo(e, IF b.op = "delete" THEN "closeFound" ELSE "renew")
  BY <1>0, <1>2, <1>5 DEF Forget
<1>9. \A m \in Names : m \in Registered' <=> m \in Registered \ {n}
  BY <1>8 DEF Registered, TypeInv, TypeOK
<1>10. \A m \in Names : EntriesOf(m)' = EntriesOf(m) /\ (Once(m)' <=> Once(m))
  BY <1>1, EntriesKept DEF Once
<1>11. Gone(n)
       \/ (n \in Registered /\ Matches(n))
  BY <1>3, <1>4, <1>6 DEF Books
<1>12. Gone(n)'
  BY <1>1, <1>6, <1>9, <1>10, <1>11 DEF Gone, Matches
<1>13. Books({}, old)'
  <2>1. \A m \in Old(b) : m \in Names => Gone(m)'
    BY <1>1, <1>4, <1>9, <1>10 DEF Books, Gone
  <2>2. \A m \in Names \ old : Matches(m)'
    BY <1>1, <1>4, <1>7, <1>9, <1>10 DEF Books, Matches
  <2> QED BY <1>7, <1>12, <2>1, <2>2 DEF Books
<1>14. /\ j.pc = IF b.op = "delete" THEN "closeFound" ELSE "renew"
       /\ j.op = b.op /\ j.items = b.items /\ j.i = b.i
  BY <1>0, <1>7, <1>8, <1>i, GoToPlace
<1>15. Past(j) = Past(b) /\ Present(j) = Present(b) /\ Whole(j) = Whole(b)
  BY <1>14 DEF Past, Present, Whole
<1>16. Plain(j) /\ Old(j) = old /\ Needed(j) = Whole(b) \ old
  BY <1>1, <1>6, <1>7, <1>14, <1>15 DEF Plain, Old, Needed
<1>17. Needed(j) \subseteq Registered'
  <2>1. Whole(b) \subseteq Names
    BY <1>0, <1>2, WorkedOn
  <2> QED BY <1>3, <1>4, <1>7, <1>9, <1>16, <2>1
<1>18. Books({}, Old(j))'
  BY <1>13, <1>16
<1> QED BY <1>7, <1>16, <1>17, <1>18, PlainPhase

(* What GivesUp does to the books.                                         *)
LEMMA GivesUpPhase ==
    ASSUME JobInv, NEW e \in Executors, Books({}, {})',
           job[e].op \in {"update", "resume"},
           IF job[e].op = "resume" THEN GoTo(e, "undo") ELSE Finish(e)
    PROVE  Phase(job[e])'
<1>1. CASE job[e].op # "resume"
  BY <1>1, FinishPhase
<1>2. CASE job[e].op = "resume"
  <2>1. PICK j : j = job'[e]
    OBVIOUS
  <2>2. j.pc = "undo" /\ j.op = "resume"
    BY <1>2, <2>1, GoToPlace
  <2>3. Plain(j) /\ Old(j) = {} /\ Needed(j) = {}
    BY <2>2 DEF Plain, Old, Needed
  <2>4. Books({}, Old(j))'
    BY <2>3
  <2> QED BY <2>1, <2>3, <2>4, PlainPhase
<1> QED BY <1>1, <1>2

LEMMA RenewPhase ==
    ASSUME TypeInv, NEW e \in Executors, Phase(job[e]), Renew(e)
    PROVE  Phase(job[e])'
<1>0. PICK b : b = job[e] /\ IsJob(e, b)
  BY JobFields DEF TypeInv
<1>i. JobInv
  BY DEF TypeInv
<1>1. b.pc = "renew" /\ b.op \in {"update", "resume"} /\ UNCHANGED <<registry, config>>
  BY <1>0 DEF Renew, IsJob, Operations, Phases
<1>2. New(b) = {} /\ Old(b) = Present(b) /\ Needed(b) = Whole(b) \ Present(b)
  BY <1>1 DEF New, Old, Needed
<1>3. Books({}, Present(b)) /\ Needed(b) \subseteq Registered
  BY <1>0, <1>1, <1>2 DEF Phase
<1>4. CASE ParseFails(Current(e).addr)
           /\ IF b.op = "resume" THEN GoTo(e, "undo") ELSE Finish(e)
  <2>1. failures' = 1
    BY <1>4 DEF ParseFails
  <2>2. Books({}, {})'
    BY <1>1, <1>3, <2>1, BooksExcused
  <2> QED BY <1>0, <1>1, <1>4, <1>i, <2>2, GivesUpPhase
<1>5. CASE /\ job' = [job EXCEPT ![e].pc = "reregister", ![e].held[b.i] = Fresh]
           /\ UNCHANGED failures
  <2>1. PICK h : h = [b.held EXCEPT ![b.i] = Fresh]
    OBVIOUS
  <2>2. PICK c : c = [b EXCEPT !.pc = "reregister"]
    OBVIOUS
  <2>3. c = [op |-> b.op, pc |-> "reregister", items |-> b.items, i |-> b.i, held |-> b.held]
    BY <1>0, <2>2 DEF IsJob
  <2>4. PICK j : j = [c EXCEPT !.held = h]
    OBVIOUS
  <2>5. j = [op |-> b.op, pc |-> "reregister", items |-> b.items, i |-> b.i, held |-> h]
    BY <2>3, <2>4
  <2>6. [c EXCEPT !.held[b.i] = Fresh] = [c EXCEPT !.held = h]
    BY <2>1, <2>3
  <2>7. job' = [job EXCEPT ![e] = [[b EXCEPT !.pc = "reregister"] EXCEPT !.held[b.i] = Fresh]]
    BY <1>0, <1>5
  <2>8. job' = [job EXCEPT ![e] = j]
    BY <2>2, <2>4, <2>6, <2>7
  <2>9. j = job'[e]
    BY <1>i, <2>8 DEF JobInv
  <2>10. Present(j) = Present(b) /\ Whole(j) = Whole(b)
    BY <2>5 DEF Present, Whole
  <2>11. Plain(j) /\ Old(j) = Present(b) /\ Needed(j) = Needed(b)
    BY <1>1, <1>2, <2>5, <2>10 DEF Plain, Old, Needed
  <2>12. Books({}, Present(b))'
    BY <1>1, <1>3, <1>5, BooksKept, EntriesKept
  <2>13. Books({}, Old(j))'
    BY <2>11, <2>12
  <2>14. Needed(j) \subseteq Registered'
    BY <1>1, <1>3, <2>11 DEF Registered
  <2> QED BY <2>9, <2>11, <2>13, <2>14, PlainPhase
<1> QED BY <1>0, <1>4, <1>5 DEF Renew

LEMMA ReregisterPhase ==
    ASSUME TypeInv, NEW e \in Executors, Phase(job[e]), Reregister(e)
    PROVE  Phase(job[e])'
<1>0. PICK b : b = job[e] /\ IsJob(e, b)
  BY JobFields DEF TypeInv
<1>i. JobInv
  BY DEF TypeInv
<1>1. b.pc = "reregister" /\ b.op \in {"update", "resume"} /\ UNCHANGED <<config, failures>>
  BY <1>0 DEF Reregister, IsJob, Operations, Phases, history
<1>2. b.i <= Len(b.items) /\ Current(e) = b.items[b.i] /\ b.held[b.i] \in Ids
  BY <1>0, <1>1, <1>i, CurrentType DEF Working, OnHeld, IsJob, JobOK, Current
<1>3. New(b) = {} /\ Old(b) = Present(b) /\ Needed(b) = Whole(b) \ Present(b)
  BY <1>1 DEF New, Old, Needed
<1>4. Books({}, Present(b)) /\ Needed(b) \subseteq Registered
  BY <1>0, <1>1, <1>3 DEF Phase
<1>5. PICK n : n = b.items[b.i].name
  OBVIOUS
<1>6. n \in Names /\ Present(b) = {n} /\ Whole(b) \subseteq Names
  BY <1>0, <1>2, <1>5, WorkedOn
<1>7. Gone(n)
  BY <1>4, <1>6 DEF Books
<1>8. registry' = [registry EXCEPT ![n] = b.held[b.i]] /\ Each(e, "close", "config")
  BY <1>0, <1>2, <1>5, <1>7 DEF Reregister, Gone
<1>9. \A m \in Names : m \in Registered' <=> m \in Registered \cup {n}
  BY <1>2, <1>6, <1>8, ServicesAssumption DEF Registered, TypeInv, TypeOK, Ids
<1>10. \A m \in Names : EntriesOf(m)' = EntriesOf(m) /\ (Once(m)' <=> Once(m))
  BY <1>1, EntriesKept DEF Once
<1>11. Books({}, {})'
  <2>1. Matches(n)'
    BY <1>1, <1>6, <1>7, <1>9, <1>10 DEF Gone, Matches
  <2>2. \A m \in Names \ {n} : Matches(m)'
    BY <1>1, <1>4, <1>6, <1>9, <1>10 DEF Books, Matches
  <2> QED BY <2>1, <2>2 DEF Books
<1>12. PICK j : j = job'[e]
  OBVIOUS
<1>13. j.pc \in {"close", "config"} /\ j.op = b.op /\ j.items = b.items
  BY <1>0, <1>8, <1>12, <1>i, EachPlace
<1>14. Plain(j) /\ Old(j) = {} /\ Needed(j) \subseteq Whole(b)
  BY <1>1, <1>13 DEF Plain, Old, Needed, Whole
<1>15. Needed(j) \subseteq Registered'
  BY <1>3, <1>4, <1>6, <1>9, <1>14
<1>16. Books({}, Old(j))'
  BY <1>11, <1>14
<1> QED BY <1>12, <1>14, <1>15, <1>16, PlainPhase

LEMMA DeleteClosePhase ==
    ASSUME TypeInv, NEW e \in Executors, Phase(job[e]), DeleteClose(e)
    PROVE  Phase(job[e])'
<1>0. PICK b : b = job[e] /\ IsJob(e, b)
  BY JobFields DEF TypeInv
<1>i. JobInv
  BY DEF TypeInv
<1>1. /\ b.pc = "closeFound" /\ b.op = "delete" /\ Each(e, "unload", "config")
      /\ UNCHANGED <<registry, config, failures>>
  BY <1>0 DEF DeleteClose, IsJob, Operations, Phases, history
<1>2. b.i <= Len(b.items)
  BY <1>0, <1>1 DEF Working, OnHeld, IsJob, JobOK
<1>3. PICK old : old = Past(b) \cup Present(b)
  OBVIOUS
<1>4. New(b) = {} /\ Old(b) = old /\ Needed(b) = Whole(b) \ old
  BY <1>1, <1>3 DEF New, Old, Needed
<1>5. Books({}, old)' /\ Needed(b) \subseteq Registered'
  <2>1. Books({}, old) /\ Needed(b) \subseteq Registered
    BY <1>0, <1>1, <1>4 DEF Phase
  <2>2. Books({}, old)'
    BY <1>1, <2>1, BooksKept, EntriesKept
  <2> QED BY <1>1, <2>1, <2>2 DEF Registered
<1>6. PICK j : j = job'[e]
  OBVIOUS
<1>7. /\ j.op = "delete" /\ j.items = b.items
      /\ j.pc = IF b.i < Len(b.items) THEN "unload" ELSE "config"
      /\ j.i = IF b.i < Len(b.items) THEN b.i + 1 ELSE 1
  BY <1>0, <1>1, <1>6, <1>i, EachPlace
<1>8. Plain(j) /\ Old(j) = old /\ Needed(j) \subseteq Needed(b)
  <2>1. /\ j.i = b.i + 1 => Past(j) = Past(b) \cup Present(b)
        /\ ~(b.i < Len(b.items)) => Whole(b) = Past(b) \cup Present(b)
        /\ Whole(j) = Whole(b)
    BY <1>0, <1>2, <1>7, WorkedOff
  <2>2. CASE b.i < Len(b.items)
    <3>1. j.pc = "unload" /\ j.i = b.i + 1
      BY <1>7, <2>2
    <3> QED BY <1>3, <1>4, <1>7, <2>1, <3>1 DEF Plain, Old, Needed
  <2>3. CASE ~(b.i < Len(b.items))
    <3>1. j.pc = "config"
      BY <1>7, <2>3
    <3> QED BY <1>3, <1>4, <1>7, <2>1, <2>3, <3>1 DEF Plain, Old, Needed
  <2> QED BY <2>2, <2>3
<1>9. Books({}, Old(j))'
  BY <1>5, <1>8
<1> QED BY <1>5, <1>6, <1>8, <1>9, PlainPhase

LEMMA PauseStopPhase ==
    ASSUME TypeInv, NEW e \in Executors, Phase(job[e]), PauseStop(e)
    PROVE  Phase(job[e])'
<1>0. PICK b : b = job[e]
  OBVIOUS
<1>1. b.pc = "stop" /\ b.op = "pause" /\ UNCHANGED <<registry, config, failures>>
  BY <1>0 DEF PauseStop, At, history
<1>2. New(b) = {} /\ Old(b) = {} /\ Needed(b) = Whole(b)
  BY <1>1 DEF New, Old, Needed
<1>3. Books({}, {})' /\ Whole(b) \subseteq Registered'
  <2>1. Books({}, {}) /\ Whole(b) \subseteq Registered
    BY <1>0, <1>1, <1>2 DEF Phase
  <2>2. Books({}, {})'
    BY <1>1, <2>1, BooksKept, EntriesKept
  <2> QED BY <1>1, <2>1, <2>2 DEF Registered
<1>4. PICK j : j = job'[e]
  OBVIOUS
<1>5. j.pc \in {"undo", "stop", "config"} /\ j.op = "pause" /\ j.items = b.items
  <2>1. CASE GoTo(e, "undo")
    BY <1>0, <1>1, <1>4, <2>1, GoToPlace DEF TypeInv
  <2>2. CASE Each(e, "stop", "config")
    BY <1>0, <1>1, <1>4, <2>2, EachPlace DEF TypeInv
  <2> QED BY <2>1, <2>2 DEF PauseStop
<1>6. Plain(j) /\ Old(j) = {} /\ Needed(j) \subseteq Whole(b)
  BY <1>5 DEF Plain, Old, Needed, Whole
<1>7. Books({}, Old(j))' /\ Needed(j) \subseteq Registered'
  BY <1>3, <1>6
<1> QED BY <1>4, <1>6, <1>7, PlainPhase

LEMMA UndoPausePhase ==
    ASSUME TypeInv, NEW e \in Executors, Phase(job[e]), UndoPause(e)
    PROVE  Phase(job[e])'
<1>0. PICK b : b = job[e] /\ IsJob(e, b)
  BY JobFields DEF TypeInv
<1>i. JobInv
  BY DEF TypeInv
<1>1. b.pc = "undo" /\ b.op = "pause" /\ Finish(e) /\ UNCHANGED failures
  BY <1>0 DEF UndoPause, At, history
<1>2. New(b) = {} /\ Old(b) = {} /\ Needed(b) = Whole(b)
  BY <1>1 DEF New, Old, Needed
<1>3. Books({}, {}) /\ Whole(b) \subseteq Registered
  BY <1>0, <1>1, <1>2 DEF Phase
<1>4. \A s \in Done(e) : s.name \in Registered
  <2>1. b.i <= Len(b.items)
    BY <1>0, <1>1 DEF Working, OnHeld, IsJob, JobOK
  <2>2. Past(b) \subseteq Registered
    BY <1>0, <1>3, <2>1, WorkedOn
  <2> QED BY <1>0, <2>2 DEF Done, Past
<1>5. UNCHANGED <<registry, config>>
  BY <1>4 DEF UndoPause
<1>6. Books({}, {})'
  BY <1>1, <1>3, <1>5, BooksKept, EntriesKept
<1> QED BY <1>1, <1>6, <1>i, FinishPhase

(* Pausing and resuming leaves every entry its name.                       *)
LEMMA NamesKept ==
    ASSUME config \in Seq(Entry), NEW names, NEW p \in BOOLEAN, config' = SetPaused(config, names, p)
    PROVE  \A n : EntriesOf(n)' = EntriesOf(n)
<1>1. PICK c, t : c = config /\ t = SetPaused(c, names, p)
  OBVIOUS
<1>2. c \in Seq(Entry) /\ \A k \in DOMAIN c : c[k] \in Entry
  BY <1>1
<1>3. DOMAIN t = DOMAIN c
  BY <1>1 DEF SetPaused
<1>4. ASSUME NEW k \in DOMAIN c PROVE t[k].name = c[k].name
  <2>1. [c[k] EXCEPT !.paused = p].name = c[k].name
    BY <1>2 DEF Entry
  <2>2. t[k] = c[k] \/ t[k] = [c[k] EXCEPT !.paused = p]
    BY <1>1 DEF SetPaused
  <2> QED BY <2>1, <2>2
<1>5. config' = t
  BY <1>1
<1> QED BY <1>1, <1>3, <1>4, <1>5 DEF EntriesOf

LEMMA UndoResumePhase ==
    ASSUME TypeInv, NEW e \in Executors, Phase(job[e]), UndoResume(e)
    PROVE  Phase(job[e])'
<1>1. /\ job[e].pc = "undo" /\ job[e].op = "resume" /\ Finish(e)
      /\ UNCHANGED <<registry, failures>>
  BY DEF UndoResume, At, history
<1>2. Books({}, {})
  BY <1>1 DEF Phase, New, Old
<1>3. \A n : EntriesOf(n)' = EntriesOf(n)
  BY NamesKept DEF UndoResume, TypeInv, TypeOK
<1>4. Books({}, {})'
  BY <1>1, <1>2, <1>3, BooksKept
<1> QED BY <1>1, <1>4, FinishPhase DEF TypeInv

LEMMA ConfigurePhase ==
    ASSUME TypeInv, NEW e \in Executors, Phase(job[e]), Configure(e)
    PROVE  Phase(job[e])'
<1>0. PICK b : b = job[e]
  OBVIOUS
<1>1. /\ b.pc = "config" /\ b.op \in {"update", "delete", "pause", "resume"} /\ Finish(e)
      /\ config' = NewConfig(e) /\ UNCHANGED <<registry, failures>>
  BY <1>0 DEF Configure, history
<1>2. Books({}, Old(b))
  <2>1. New(b) = {}
    BY <1>1 DEF New
  <2> QED BY <1>0, <1>1, <2>1 DEF Phase
<1>3. PICK names : names = {s.name : s \in ToSet(b.items)}
  OBVIOUS
<1>4. config \in Seq(Entry)
  BY DEF TypeInv, TypeOK
<1>5. CASE b.op # "delete"
  <2>1. \A n : EntriesOf(n)' = EntriesOf(n)
    <3>1. CASE b.op = "update"
      <4>1. /\ DOMAIN config' = DOMAIN config
            /\ \A k \in DOMAIN config : config'[k].name = config[k].name
        BY <1>0, <1>1, <1>3, <3>1 DEF NewConfig
      <4> QED BY <4>1 DEF EntriesOf
    <3>2. CASE b.op \in {"pause", "resume"}
      <4>1. config' = SetPaused(config, names, job[e].op = "pause")
        BY <1>0, <1>1, <1>3, <3>2 DEF NewConfig
      <4>2. (job[e].op = "pause") \in BOOLEAN
        OBVIOUS
      <4> QED BY <1>4, <4>1, <4>2, NamesKept
    <3> QED BY <1>1, <1>5, <3>1, <3>2
  <2>2. Old(b) = {}
    BY <1>1, <1>5 DEF Old
  <2>3. Books({}, {})
    BY <1>2, <2>2
  <2>4. Books({}, {})'
    BY <1>1, <2>1, <2>3, BooksKept
  <2> QED BY <1>1, <2>4, FinishPhase DEF TypeInv
<1>6. CASE b.op = "delete"
  <2>1. Old(b) = names
    <3>1. Old(b) = Whole(b)
      BY <1>1, <1>6 DEF Old
    <3> QED BY <1>3, <3>1 DEF Whole, ToSet
  <2>2. PICK K : K = {k \in DOMAIN config : config[k].name \notin names}
    OBVIOUS
  <2>3. config' = Only(config, K)
    BY <1>0, <1>1, <1>3, <1>6, <2>2 DEF NewConfig
  <2>4. PICK c, t : c = config /\ t = Only(c, K)
    OBVIOUS
  <2>5. c \in Seq(Entry) /\ K \in SUBSET (DOMAIN c) /\ t = config'
    BY <1>4, <2>2, <2>3, <2>4
  <2>6. ASSUME NEW n
        PROVE  /\ n \notin names => (EntriesOf(n)' = {} <=> EntriesOf(n) = {})
               /\ n \notin names => (Once(n) => Once(n)')
               /\ n \in names => EntriesOf(n)' = {}
    <3>1. PICK A : A = {k \in K : c[k].name = n}
      OBVIOUS
    <3>2. A \in SUBSET K
      BY <3>1
    <3>3. /\ \A i \in DOMAIN Only(c, K) :
                     Place(K, i) \in K /\ Only(c, K)[i] = c[Place(K, i)]
          /\ A = {} <=> Where(c, K, A) = {}
          /\ (\E k : A = {k}) => (\E i : Where(c, K, A) = {i})
      <4>1. c \in Seq(Entry) /\ K \in SUBSET (DOMAIN c)
        BY <2>5
      <4>2. \A i \in DOMAIN Only(c, K) : Place(K, i) \in K /\ Only(c, K)[i] = c[Place(K, i)]
        BY <4>1, OnlyType
      <4>3. A = {} <=> Where(c, K, A) = {}
        BY <3>2, <4>1, OnlyOnce
      <4>4. (\E k : A = {k}) => (\E i : Where(c, K, A) = {i})
        <5> SUFFICES ASSUME NEW k, A = {k} PROVE \E i : Where(c, K, A) = {i}
          OBVIOUS
        <5>1. Where(c, K, A) = {Rank(K, k)}
          BY <3>2, <4>1, OnlyOnce
        <5> QED BY <5>1
      <4> QED BY <4>2, <4>3, <4>4
    <3>4. EntriesOf(n)' = Where(c, K, A)
      <4>1. EntriesOf(n)' = {i \in DOMAIN t : t[i].name = n}
        BY <2>5 DEF EntriesOf
      <4>2. \A i \in DOMAIN t : t[i].name = n <=> Place(K, i) \in A
        BY <2>4, <3>1, <3>3
      <4> QED BY <2>4, <4>1, <4>2 DEF Where
    <3>5. n \notin names => EntriesOf(n) = A
      BY <2>2, <2>4, <3>1 DEF EntriesOf
    <3>6. n \in names => A = {}
      BY <2>2, <2>4, <3>1
    <3> QED BY <2>4, <3>3, <3>4, <3>5, <3>6 DEF Once
  <2>7. \A n \in Names : n \in Registered' <=> n \in Registered
    BY <1>1 DEF Registered
  <2>8. ASSUME NEW n \in Names PROVE Matches(n)'
    <3>1. CASE n \in names
      <4>1. Gone(n)
        BY <1>2, <2>1, <3>1 DEF Books
      <4> QED BY <2>6, <2>7, <3>1, <4>1 DEF Gone, Matches
    <3>2. CASE n \notin names
      <4>1. Matches(n)
        BY <1>2, <2>1, <3>2 DEF Books
      <4> QED BY <1>1, <2>6, <2>7, <3>2, <4>1 DEF Matches
    <3> QED BY <3>1, <3>2
  <2>9. Books({}, {})'
    BY <2>8 DEF Books
  <2> QED BY <1>1, <2>9, FinishPhase DEF TypeInv
<1> QED BY <1>5, <1>6

LEMMA SavePhase ==
    ASSUME TypeInv, NEW e \in Executors, Phase(job[e]), SaveCreate(e) \/ SaveWrite(e)
    PROVE  Phase(job[e])'
<1>0. PICK b : b = job[e]
  OBVIOUS
<1>1. b.op = "save" /\ b.pc \in {"create", "write"} /\ UNCHANGED <<registry, config, failures>>
  BY <1>0 DEF SaveCreate, SaveWrite, At, history
<1>2. Books({}, {})
  BY <1>0, <1>1 DEF Phase, New, Old
<1>3. Books({}, {})'
  BY <1>1, <1>2, BooksKept, EntriesKept
<1>4. CASE SaveWrite(e)
  BY <1>3, <1>4, FinishPhase DEF SaveWrite, TypeInv
<1>5. CASE SaveCreate(e)
  <2>1. PICK j : j = job'[e]
    OBVIOUS
  <2>2. j.op = "save" /\ j.pc = "write"
    BY <1>0, <1>1, <1>5, <2>1, GoToPlace DEF SaveCreate, TypeInv
  <2>3. Plain(j) /\ Old(j) = {} /\ Needed(j) = {}
    BY <2>2 DEF Plain, Old, Needed
  <2>4. Books({}, Old(j))'
    BY <1>3, <2>3
  <2> QED BY <2>1, <2>3, <2>4, PlainPhase
<1> QED BY <1>4, <1>5

LEMMA ReloadClearPhase ==
    ASSUME TypeInv, NEW e \in Executors, Phase(job[e]), ReloadClear(e)
    PROVE  Phase(job[e])'
<1>0. PICK b : b = job[e] /\ IsJob(e, b)
  BY JobFields DEF TypeInv
<1>1. b.op = "reload" /\ b.pc = "clear" /\ UNCHANGED failures
  BY <1>0 DEF ReloadClear, At
<1>2. Books({}, {}) /\ b.i = 1
  BY <1>0, <1>1 DEF Phase, New, Old
<1>3. CASE file = Torn
  <2>1. Finish(e) /\ UNCHANGED <<registry, config>>
    BY <1>3 DEF ReloadClear
  <2>2. Books({}, {})'
    BY <1>1, <1>2, <2>1, BooksKept, EntriesKept
  <2> QED BY <2>1, <2>2, FinishPhase DEF TypeInv
<1>4. CASE file # Torn
  <2>1. file \in Seq(Entry) /\ config' = file /\ registry' = [n \in Names |-> 0]
    BY <1>4 DEF ReloadClear, TypeInv, TypeOK
  <2>2. PICK items : items = [k \in DOMAIN file |-> [name |-> file[k].name, addr |-> file[k].addr]]
    OBVIOUS
  <2>3. PICK c : c = [b EXCEPT !.pc = "load"]
    OBVIOUS
  <2>4. c = [op |-> b.op, pc |-> "load", items |-> b.items, i |-> b.i, held |-> b.held]
    BY <1>0, <2>3 DEF IsJob
  <2>5. PICK j : j = [c EXCEPT !.items = items]
    OBVIOUS
  <2>6. j = [op |-> b.op, pc |-> "load", items |-> items, i |-> b.i, held |-> b.held]
    BY <2>4, <2>5
  <2>7. job' = [job EXCEPT ![e] = [[b EXCEPT !.pc = "load"] EXCEPT !.items = items]]
    BY <1>0, <1>4, <2>2 DEF ReloadClear
  <2>8. j = job'[e]
    BY <2>3, <2>5, <2>7 DEF TypeInv, JobInv
  <2>9. /\ DOMAIN j.items = DOMAIN config' /\ j.i = 1 /\ Len(j.items) \in Nat
        /\ \A k \in DOMAIN config' : config'[k].name = j.items[k].name
    <3>1. DOMAIN items = 1..Len(file) /\ Len(file) \in Nat
      BY <2>1, <2>2
    <3>2. Len(items) = Len(file)
      BY <2>2, <3>1
    <3> QED BY <1>2, <2>1, <2>2, <2>6, <3>1, <3>2
  <2>10. Past(j) = {} /\ Distinct(j, j.i - 1)
    BY <2>9 DEF Past, Distinct
  <2>11. \A n \in Names : n \notin Registered'
    BY <2>1 DEF Registered
  <2>12. Loading(j)'
    BY <2>9, <2>10, <2>11 DEF Loading
  <2>13. Needed(j) = {}
    BY <1>1, <2>6 DEF Needed
  <2>14. Phase(j)'
    BY <1>1, <2>6, <2>12, <2>13 DEF Phase
  <2> QED BY <2>8, <2>14, PhaseAt
<1> QED BY <1>3, <1>4

LEMMA ReloadServicePhase ==
    ASSUME TypeInv, NEW e \in Executors, Phase(job[e]), ReloadService(e)
    PROVE  Phase(job[e])'
<1>0. PICK b : b = job[e] /\ IsJob(e, b)
  BY JobFields DEF TypeInv
<1>i. JobInv
  BY DEF TypeInv
<1>1. b.op = "reload" /\ b.pc = "load" /\ UNCHANGED config
  BY <1>0 DEF ReloadService, At
<1>2. Loading(b)
  BY <1>0, <1>1 DEF Phase
<1>3. DOMAIN b.items = 1..Len(b.items) /\ Len(b.items) \in Nat /\ b.i \in Nat \ {0}
      /\ b.i - 1 <= Len(b.items)
  BY <1>0, <1>2 DEF IsJob, Loading
<1>4. \A n \in Past(b) : EntriesOf(n) # {}
  <2>1. \A k \in 1..(b.i - 1) : k \in DOMAIN config /\ config[k].name = b.items[k].name
    BY <1>2, <1>3 DEF Loading
  <2> QED BY <2>1 DEF Past, EntriesOf
<1>5. \A n : EntriesOf(n)' = EntriesOf(n)
  BY <1>1, EntriesKept
<1>6. CASE Finish(e) /\ UNCHANGED registry /\ failures' = 1
  <2>1. \A n \in Names : Matches(n)'
    BY <1>2, <1>4, <1>5, <1>6 DEF Matches, Loading, Registered
  <2>2. Books({}, {})'
    BY <2>1 DEF Books
  <2> QED BY <1>i, <1>6, <2>2, FinishPhase
<1>7. CASE /\ b.i > Len(b.items) /\ Finish(e) /\ UNCHANGED <<registry, failures>>
  <2>1. b.i - 1 = Len(b.items)
    BY <1>3, <1>7
  <2>2. ASSUME NEW n \in Names PROVE Matches(n)'
    <3>1. n \in Registered' <=> n \in Past(b)
      BY <1>2, <1>7 DEF Loading, Registered
    <3>2. CASE n \in Past(b)
      <4>1. PICK k \in 1..(b.i - 1) : b.items[k].name = n
        BY <3>2 DEF Past
      <4>2. \A l \in DOMAIN config : config[l].name = n <=> l = k
        BY <1>2, <1>3, <2>1, <4>1 DEF Loading, Distinct
      <4>3. k \in DOMAIN config
        BY <1>2, <1>3, <2>1 DEF Loading
      <4>4. EntriesOf(n) = {k}
        BY <4>2, <4>3 DEF EntriesOf
      <4> QED BY <1>5, <3>1, <3>2, <4>4 DEF Matches, Once
    <3>3. CASE n \notin Past(b)
      <4>1. \A l \in DOMAIN config : config[l].name # n
        BY <1>2, <1>3, <2>1, <3>3 DEF Loading, Past
      <4>2. EntriesOf(n) = {}
        BY <4>1 DEF EntriesOf
      <4> QED BY <1>5, <3>1, <3>3, <4>2 DEF Matches
    <3> QED BY <3>2, <3>3
  <2>3. Books({}, {})'
    BY <2>2 DEF Books
  <2> QED BY <1>i, <1>7, <2>3, FinishPhase
<1>8. CASE /\ b.i <= Len(b.items) /\ Current(e).name \notin Registered
           /\ ParseOK(Current(e).addr)
           /\ registry' = [registry EXCEPT ![Current(e).name] = Fresh]
           /\ job' = [job EXCEPT ![e].i = b.i + 1]
  <2>1. PICK n : n = b.items[b.i].name
    OBVIOUS
  <2>2. n \in Names /\ Present(b) = {n} /\ Current(e).name = n
    BY <1>0, <1>8, <2>1, WorkedOn DEF Current
  <2>3. Fresh \in Ids
    BY <1>8, FreshIsFree DEF ParseOK
  <2>4. \A m \in Names : m \in Registered' <=> m \in Registered \cup {n}
    BY <1>8, <2>2, <2>3, ServicesAssumption DEF Registered, TypeInv, TypeOK, Ids
  <2>5. PICK j : j = [b EXCEPT !.i = b.i + 1]
    OBVIOUS
  <2>6. j = [op |-> b.op, pc |-> b.pc, items |-> b.items, i |-> b.i + 1, held |-> b.held]
    BY <1>0, <2>5 DEF IsJob
  <2>7. j = job'[e]
    BY <1>0, <1>8, <1>i, <2>5 DEF JobInv
  <2>8. Past(j) = Past(b) \cup {n}
    BY <1>0, <1>8, <2>2, <2>6, WorkedOff
  <2>9. n \notin Past(b)
    BY <1>2, <1>8, <2>2 DEF Loading
  <2>10. Distinct(j, j.i - 1)
    <3>1. \A k \in 1..(b.i - 1) : b.items[k].name # n
      BY <2>9 DEF Past
    <3>2. Distinct(b, b.i - 1)
      BY <1>2 DEF Loading
    <3>3. j.i - 1 = b.i /\ j.items = b.items
      BY <1>3, <2>6
    <3> QED BY <1>3, <2>1, <3>1, <3>2, <3>3 DEF Distinct
  <2>11. Loading(j)'
    <3>1. DOMAIN j.items = DOMAIN config' /\ j.i - 1 <= Len(j.items)
          /\ \A k \in DOMAIN config' : config'[k].name = j.items[k].name
      BY <1>1, <1>2, <1>3, <1>8, <2>6 DEF Loading
    <3>2. \A m \in Names : m \in Registered' <=> m \in Past(j)
      BY <1>2, <2>4, <2>8 DEF Loading
    <3> QED BY <2>10, <3>1, <3>2 DEF Loading
  <2>12. Needed(j) = {}
    BY <1>1, <2>6 DEF Needed
  <2>13. Phase(j)'
    BY <1>1, <2>6, <2>11, <2>12 DEF Phase
  <2> QED BY <2>7, <2>13, PhaseAt
<1> QED BY <1>0, <1>6, <1>7, <1>8 DEF ReloadService, ParseFails

LEMMA StepPhase ==
    ASSUME TypeInv, NEW e \in Executors, Phase(job[e]), Step(e)
    PROVE  Phase(job[e])'
BY CreateParsePhase, CreateRegisterPhase, CreateServePhase, CreateConfigPhase, CheckPhase,
   CloseOldPhase, UnloadPhase, ForgetPhase, RenewPhase, ReregisterPhase, DeleteClosePhase,
   PauseStopPhase, UndoPausePhase, UndoResumePhase, ConfigurePhase, SavePhase,
   ReloadClearPhase, ReloadServicePhase DEF Step

(* A process that has just started, or none, has nothing to make good.     *)
LEMMA EmptyBooks ==
    ASSUME registry = [n \in Names |-> 0], config = <<>>
    PROVE  Books({}, {})
<1>1. \A n \in Names : n \notin Registered /\ EntriesOf(n) = {}
  BY DEF Registered, EntriesOf
<1> QED BY <1>1 DEF Books, Matches

LEMMA BootBooks == ASSUME TypeInv, Boot PROVE Books({}, {})'
<1>1. file \in Seq(Entry) /\ Loadable(file) /\ config' = file
  BY DEF Boot, Loadable, TypeInv, TypeOK
<1>2. DOMAIN file = 1..Len(file) /\ Len(file) \in Nat
  BY <1>1
<1>3. ASSUME NEW n \in Names PROVE Matches(n)'
  <2>1. EntriesOf(n)' = {k \in DOMAIN file : file[k].name = n}
    BY <1>1 DEF EntriesOf
  <2>2. CASE \E k \in DOMAIN file : file[k].name = n
    <3>1. PICK k \in DOMAIN file : file[k].name = n
      BY <2>2
    <3>2. EntriesOf(n)' = {k}
      BY <1>1, <2>1, <3>1 DEF Loadable
    <3>3. registry'[n] \in DOMAIN file
      BY <2>2 DEF Boot
    <3>4. n \in Registered'
      BY <1>2, <3>3 DEF Registered
    <3> QED BY <3>2, <3>4 DEF Matches, Once
  <2>3. CASE ~\E k \in DOMAIN file : file[k].name = n
    <3>1. EntriesOf(n)' = {}
      BY <2>1, <2>3
    <3>2. n \notin Registered'
      BY <2>3 DEF Boot, Registered
    <3> QED BY <3>1, <3>2 DEF Matches
  <2> QED BY <2>2, <2>3
<1> QED BY <1>3 DEF Books

(* A command begins with nothing done.                                     *)
LEMMA BeginPlace ==
    ASSUME JobInv, NEW e \in Executors, NEW op, NEW items, Begin(e, op, items)
    PROVE  job'[e] = [op |-> op, pc |-> FirstPhase(op), items |-> items, i |-> 1, held |-> <<>>]
<1>2. PICK c : c = [Idle EXCEPT !.op = op]
  OBVIOUS
<1>3. c = [op |-> op, pc |-> "idle", items |-> <<>>, i |-> 1, held |-> <<>>]
  BY <1>2 DEF Idle
<1>4. PICK d : d = [c EXCEPT !.items = items]
  OBVIOUS
<1>5. d = [op |-> op, pc |-> "idle", items |-> items, i |-> 1, held |-> <<>>]
  BY <1>3, <1>4
<1>6. PICK j : j = [d EXCEPT !.pc = FirstPhase(op)]
  OBVIOUS
<1>7. j = [op |-> op, pc |-> FirstPhase(op), items |-> items, i |-> 1, held |-> <<>>]
  BY <1>5, <1>6
<1>8. job' = [job EXCEPT ![e] = [[[Idle EXCEPT !.op = op] EXCEPT !.items = items]
                                                     EXCEPT !.pc = FirstPhase(op)]]
  BY DEF Begin
<1>9. j = job'[e]
  BY <1>2, <1>4, <1>6, <1>8 DEF JobInv
<1> QED BY <1>7, <1>9

LEMMA BeginPhase ==
    ASSUME TypeInv, NEW e \in Executors, Commands(e), Books({}, {})
    PROVE  Phase(job[e])'
<1>1. PICK op \in Operations \ {"none", "save"}, items \in Seq(Item) : Begin(e, op, items)
  BY CommandBegins
<1>2. PICK j : j = job'[e]
  OBVIOUS
<1>3. j = [op |-> op, pc |-> FirstPhase(op), items |-> items, i |-> 1, held |-> <<>>]
  BY <1>1, <1>2, BeginPlace DEF TypeInv
<1>4. j.pc \in {"parse", "clear", "check"} /\ j.i = 1
  BY <1>3 DEF FirstPhase
<1>5. New(j) = {} /\ Old(j) = {} /\ Needed(j) = {}
  BY <1>4 DEF New, Old, Needed
<1>6. Books({}, {})'
  <2>1. UNCHANGED <<registry, config, failures>>
    BY <1>1 DEF Begin
  <2> QED BY <2>1, BooksKept, EntriesKept
<1>7. Books(New(j), Old(j))'
  BY <1>5, <1>6
<1>8. Phase(j)'
  BY <1>4, <1>5, <1>7 DEF Phase
<1> QED BY <1>2, <1>8, PhaseAt

MatchInv == TypeInv /\ Alone /\ Still /\ BookInv

LEMMA MatchInit == Init => MatchInv
<1> SUFFICES ASSUME Init PROVE MatchInv
  OBVIOUS
<1>1. TypeInv
  BY InitTypes
<1>2. Alone /\ Still /\ \A e \in Executors : job[e] = Idle
  BY DEF Init, Alone, Still
<1>3. Books({}, {})
  BY EmptyBooks DEF Init
<1> QED BY <1>1, <1>2, <1>3 DEF MatchInv, BookInv

LEMMA BooksUnchanged ==
    ASSUME BookInv, UNCHANGED <<registry, config, job, failures, overlap>>
    PROVE  BookInv'
<1>1. Books({}, {}) => Books({}, {})'
  BY BooksKept, EntriesKept
<1>2. ASSUME NEW e \in Executors, Phase(job[e]) PROVE Phase(job[e])'
  <2>1. PICK j : j = job[e]
    OBVIOUS
  <2>2. Registered' = Registered
    BY DEF Registered
  <2>3. Books(New(j), Old(j)) => Books(New(j), Old(j))'
    BY BooksKept, EntriesKept
  <2>4. Loading(j) => Loading(j)'
    BY <2>2 DEF Loading
  <2>5. Phase(j)'
    BY <1>2, <2>1, <2>2, <2>3, <2>4 DEF Phase
  <2> QED BY <2>1, <2>5, PhaseAt
<1> QED BY <1>1, <1>2 DEF BookInv

LEMMA BookStep ==
    ASSUME MatchInv, NEW e \in Executors, Step(e)
    PROVE  BookInv'
<1>1. job[e].pc # "idle" /\ UNCHANGED <<overlap, rest>>
  BY StepShape DEF MatchInv
<1>2. job[e] # Idle
  BY <1>1, IdlePlace
<1>3. CASE Stopped
  <2>1. registry' = [n \in Names |-> 0] /\ config' = <<>> /\ \A f \in Executors : job'[f] = Idle
    BY <1>3 DEF Stopped
  <2>2. \A n \in Names : n \notin Registered' /\ EntriesOf(n)' = {}
    BY <2>1 DEF Registered, EntriesOf
  <2>3. Books({}, {})'
    BY <2>2 DEF Books, Matches
  <2> QED BY <2>1, <2>3 DEF BookInv
<1>4. ASSUME Others(e), ~overlap PROVE BookInv'
  <2>1. \A f \in Executors \ {e} : job'[f] = Idle
    BY <1>1, <1>4, OthersIdle DEF MatchInv, Others
  <2>2. Phase(job[e])
    BY <1>2, <1>4 DEF MatchInv, BookInv
  <2>3. Phase(job[e])'
    BY <2>2, StepPhase DEF MatchInv
  <2>4. job'[e] = Idle => Books({}, {})'
    <3> SUFFICES ASSUME job'[e] = Idle PROVE Books({}, {})'
      OBVIOUS
    <3>1. Idle.op = "none" /\ Idle.pc = "idle"
      BY DEF Idle
    <3>2. New(Idle) = {} /\ Old(Idle) = {}
      BY <3>1 DEF New, Old
    <3> QED BY <2>3, <3>1, <3>2 DEF Phase, Books, Matches, Added, Gone, Once, EntriesOf, Registered
  <2> QED BY <2>1, <2>3, <2>4 DEF BookInv
<1>5. Stopped \/ Others(e)
  BY StepShape DEF MatchInv, Usual
<1> QED BY <1>1, <1>3, <1>4, <1>5 DEF BookInv

LEMMA MatchNext == MatchInv /\ [Next]_vars => MatchInv'
<1> SUFFICES ASSUME MatchInv, [Next]_vars PROVE MatchInv'
  OBVIOUS
<1>1. CASE Next
  <2>1. TypeInv'
    BY <1>1, NextSteps, CommandTypes, StepTypes, CrashTypes, BootTypes, CollectTypes DEF MatchInv
  <2>2. Alone' /\ Still'
    BY <1>1, NextSteps, AloneKept DEF MatchInv
  <2>3. BookInv'
    <3>1. ASSUME NEW e \in Executors, Commands(e) PROVE BookInv'
      <4>1. PICK op, items : Begin(e, op, items)
        BY <3>1, CommandBegins
      <4>2. /\ overlap' = (overlap \/ ~AtRest) /\ \A f \in Executors \ {e} : job'[f] = job[f]
            /\ UNCHANGED <<registry, config, failures>>
        BY <4>1 DEF Begin, MatchInv, TypeInv, JobInv
      <4>3. ASSUME ~overlap'
            PROVE  /\ Books({}, {})'
                   /\ \A f \in Executors : job'[f] # Idle => Phase(job[f])'
        <5>1. Books({}, {}) /\ \A f \in Executors \ {e} : job'[f] = Idle
          BY <4>2, <4>3 DEF AtRest, MatchInv, BookInv
        <5>2. Phase(job[e])'
          BY <3>1, <5>1, BeginPhase DEF MatchInv
        <5>3. Books({}, {})'
          BY <4>2, <5>1, BooksKept, EntriesKept
        <5> QED BY <5>1, <5>2, <5>3
      <4> QED BY <4>3 DEF BookInv
    <3>2. ASSUME NEW e \in Executors, Step(e) PROVE BookInv'
      BY <3>2, BookStep
    <3>3. CASE Crash
      <4>1. registry' = [n \in Names |-> 0] /\ config' = <<>> /\ \A f \in Executors : job'[f] = Idle
        BY <3>3 DEF Crash
      <4>2. \A n \in Names : n \notin Registered' /\ EntriesOf(n)' = {}
        BY <4>1 DEF Registered, EntriesOf
      <4>3. Books({}, {})'
        BY <4>2 DEF Books, Matches
      <4> QED BY <4>1, <4>3 DEF BookInv
    <3>4. CASE Boot
      <4>1. \A e \in Executors : job'[e] = Idle
        BY <3>4 DEF Boot, MatchInv, Still
      <4>2. Books({}, {})'
        BY <3>4, BootBooks DEF MatchInv
      <4> QED BY <4>1, <4>2 DEF BookInv
    <3>5. ASSUME NEW id \in Ids, Collect(id) PROVE BookInv'
      <4>1. UNCHANGED <<registry, config, job, failures, overlap>>
        BY <3>5 DEF Collect, history
      <4> QED BY <4>1, BooksUnchanged DEF MatchInv
    <3> QED BY <1>1, <3>1, <3>2, <3>3, <3>4, <3>5, NextSteps
  <2> QED BY <2>1, <2>2, <2>3 DEF MatchInv
<1>2. CASE UNCHANGED vars
  <2>1. TypeInv' /\ Alone' /\ Still'
    BY <1>2 DEF vars, nodeVars, history, MatchInv, TypeInv, TypeOK, JobInv, Alone, Still
  <2>2. UNCHANGED <<registry, config, job, failures, overlap>>
    BY <1>2 DEF vars, nodeVars, history
  <2>3. BookInv'
    BY <2>2, BooksUnchanged DEF MatchInv
  <2> QED BY <2>1, <2>3 DEF MatchInv
<1> QED BY <1>1, <1>2

(* Between commands, every registered service has an entry in the          *)
(* configuration; without a parse failure the entries are the registered   *)
(* services, once each.                                                    *)
THEOREM RegistryIsConfigured == Spec => []ConfigMatchesRegistry
<1>1. MatchInv => ConfigMatchesRegistry
  <2> SUFFICES ASSUME MatchInv, ~overlap, AtRest
               PROVE  /\ \A n \in Registered : EntriesOf(n) # {}
                      /\ failures = 0 => \A n \in Names :
                           Cardinality(EntriesOf(n)) = IF n \in Registered THEN 1 ELSE 0
    BY DEF ConfigMatchesRegistry
  <2>1. \A n \in Names : Matches(n)
    BY DEF MatchInv, BookInv, AtRest, Books
  <2>2. \A n : /\ Once(n) => Cardinality(EntriesOf(n)) = 1
               /\ EntriesOf(n) = {} => Cardinality(EntriesOf(n)) = 0
    BY FS_Singleton, FS_EmptySet DEF Once
  <2>3. Registered \subseteq Names
    BY DEF Registered
  <2> QED BY <2>1, <2>2, <2>3 DEF Matches
<1> QED BY <1>1, MatchInit, MatchNext, PTL DEF Spec

-----------------------------------------------------------------------------
(* Paused services are shut and the others served.  What a paused service  *)
(* is, and one that is not, between the commands of the master and half-way*)
(* through them.  What configuration and registry have to do with each     *)
(* other in each phase comes from MatchInv.                                *)

Unshared == \A n, m \in Registered : registry[n] = registry[m] => n = m

Runs(n, a) == registry[n] \in serving /\ bound[registry[n]] = a
Shut(n) == registry[n] \notin serving
Right(n) == IF IsPaused(n) THEN Shut(n) ELSE Runs(n, AddrOf(n))

(* The services of a job that its phase, or the one before, has dealt with *)
(* (their places in the list), and what is then true of one.               *)
Handled(b) == IF b.pc \in {"serve", "config"} THEN DOMAIN b.items
              ELSE IF b.pc \in OnHeld THEN 1..(b.i - 1) ELSE {}
As(b, n, k) ==
    CASE b.op = "create" -> registry[n] = b.held[k]
      [] b.op = "pause" -> Shut(n)
      [] OTHER -> Runs(n, b.items[k].addr)

(* A service that a job names twice is as the last of these left it.       *)
Seen(b, H, n) ==
    \/ (\A k \in H : b.items[k].name # n) /\ Right(n)
    \/ \E k \in H : /\ b.items[k].name = n
                    /\ \A l \in H : b.items[l].name = n => l <= k
                    /\ As(b, n, k)
Ready(b, n) ==
    \/ n \notin Registered
    \/ b.pc \in {"unload", "forget"} /\ n = b.items[b.i].name
    \/ Seen(b, Handled(b), n)

(* The services a job holds are those of its names, or of none.            *)
Lent(b) ==
    /\ \A k \in DOMAIN b.held, n \in Registered : registry[n] = b.held[k] => n = b.items[k].name
    /\ \A k, l \in DOMAIN b.held : b.held[k] = b.held[l] => b.items[k].name = b.items[l].name
Opened(b) ==
    /\ b.op = "create" => \A k \in DOMAIN b.held : bound[b.held[k]] = b.items[k].addr
    /\ b.op = "create" /\ b.pc = "config" => \A k \in DOMAIN b.held : b.held[k] \in serving
    /\ b.op = "create" /\ b.pc \in {"serve", "config"} => DOMAIN b.held = DOMAIN b.items
    /\ b.pc = "reregister" => bound[b.held[b.i]] = b.items[b.i].addr
    /\ b.pc = "stop" => \A k \in DOMAIN b.held : registry[b.items[k].name] = b.held[k]
Asked(b) ==
    b.op \in {"pause", "resume"} /\ b.pc # "check" =>
       \A k \in DOMAIN b.items : /\ EntriesOf(b.items[k].name) # {}
                                 /\ b.items[k].addr = AddrOf(b.items[k].name)
Going(b) ==
    /\ \A n \in Names : Ready(b, n)
    /\ Lent(b) /\ Opened(b) /\ Asked(b)
    /\ b.pc \notin {"undo", "load"}

Calm == up /\ ~overlap /\ failures = 0 /\ ~rest /\ ~loaded

Running ==
    /\ Unshared
    /\ (\A e \in Executors : job[e] = Idle) => \A n \in Registered : Right(n)
    /\ \A e \in Executors : \A b \in {job[e]} \ {Idle} : Going(b)
RunInv == Calm => Running

(* A step that does not touch a service.                                   *)
SameView(n) ==
    /\ registry'[n] = registry[n]
    /\ bound'[registry[n]] = bound[registry[n]]
    /\ registry[n] \in serving' <=> registry[n] \in serving
    /\ AddrOf(n)' = AddrOf(n)
    /\ IsPaused(n)' <=> IsPaused(n)

LEMMA EntrySame ==
    ASSUME UNCHANGED config
    PROVE  \A n : AddrOf(n)' = AddrOf(n) /\ (IsPaused(n)' <=> IsPaused(n))
BY DEF AddrOf, IsPaused, EntriesOf, FirstOf

LEMMA ViewKept ==
    ASSUME NEW n, SameView(n)
    PROVE  /\ Right(n)' <=> Right(n)
           /\ \A a : Runs(n, a)' <=> Runs(n, a)
           /\ Shut(n)' <=> Shut(n)
BY DEF SameView, Right, Runs, Shut

LEMMA SeenKept ==
    ASSUME NEW n, SameView(n), NEW b, NEW H, Seen(b, H, n),
           NEW j, j.op = b.op, j.items = b.items, b.op = "create" => j.held = b.held
    PROVE  Seen(j, H, n)'
<1>1. \A k : As(b, n, k) => As(j, n, k)'
  BY ViewKept DEF As, SameView
<1>2. Right(n) => Right(n)'
  BY ViewKept
<1> QED BY <1>1, <1>2 DEF Seen

LEMMA SeenNone ==
    ASSUME NEW n, NEW b
    PROVE  Seen(b, {}, n) <=> Right(n)
BY DEF Seen

LEMMA SeenOther ==
    ASSUME NEW n, NEW b, NEW H, Seen(b, H, n), NEW i, b.items[i].name # n
    PROVE  Seen(b, H \cup {i}, n)
BY DEF Seen

LEMMA SeenNow ==
    ASSUME NEW n, NEW b, NEW i \in Nat \ {0}, b.items[i].name = n, As(b, n, i)
    PROVE  Seen(b, 1..i, n)
BY DEF Seen

LEMMA SeenNever ==
    ASSUME NEW n, NEW b, NEW H, Seen(b, H, n), \A k \in H : b.items[k].name # n
    PROVE  Right(n)
BY DEF Seen

(* The end of a command.                                                   *)
LEMMA RestsGoing ==
    ASSUME JobInv, NEW e \in Executors, Finish(e) \/ job' = [job EXCEPT ![e] = Idle],
           \A n \in Registered' : Right(n)', NEW j, j = job'[e]
    PROVE  Going(j)'
<1>2. PICK c : c = Idle
  OBVIOUS
<1>3. c = [op |-> "none", pc |-> "idle", items |-> <<>>, i |-> 1, held |-> <<>>]
  BY <1>2 DEF Idle
<1>4. PICK d : d = [[c EXCEPT !.op = "save"] EXCEPT !.pc = "create"]
  OBVIOUS
<1>5. d = [op |-> "save", pc |-> "create", items |-> <<>>, i |-> 1, held |-> <<>>]
  BY <1>3, <1>4
<1>6. j = c \/ j = d
  <2>1. CASE Finish(e)
    <3>1. Ended(e) = c \/ Ended(e) = d
      BY <1>2, <1>4 DEF Ended
    <3> QED BY <2>1, <3>1 DEF Finish, JobInv
  <2>2. CASE job' = [job EXCEPT ![e] = Idle]
    BY <1>2, <2>2 DEF JobInv
  <2> QED BY <2>1, <2>2
<1>7. /\ j.pc \in {"idle", "create"} /\ j.op \in {"none", "save"}
      /\ DOMAIN j.held = {} /\ DOMAIN j.items = {}
  BY <1>3, <1>5, <1>6
<1>8. Handled(j) = {}
  BY <1>7 DEF Handled, OnHeld
<1>9. \A n \in Names : Ready(j, n)'
  <2> SUFFICES ASSUME NEW n \in Names, n \in Registered' PROVE Ready(j, n)'
    BY DEF Ready
  <2>1. Right(n)'
    OBVIOUS
  <2>2. Seen(j, {}, n)'
    BY <2>1 DEF Seen
  <2> QED BY <1>8, <2>2 DEF Ready
<1>10. Lent(j)' /\ Opened(j)' /\ Asked(j)'
  BY <1>7 DEF Lent, Opened, Asked
<1> QED BY <1>7, <1>9, <1>10 DEF Going

(* A listener that is opened is nobody's yet, and the others stay.         *)
LEMMA ParsedView ==
    ASSUME TypeInv, NEW a, ParseOK(a), Parsed(a)
    PROVE  /\ Fresh \in Ids /\ bound'[Fresh] = a
           /\ \A id \in Ids \ {Fresh} : bound'[id] = bound[id]
           /\ \A n \in Names : registry[n] # Fresh
           /\ \A e \in Executors : \A k \in DOMAIN job[e].held : job[e].held[k] # Fresh
<1>1. PICK x : x = Fresh
  OBVIOUS
<1>2. x \in FreeIds /\ x \in Ids
  BY <1>1, FreshIsFree DEF ParseOK
<1>3. x \notin {registry[n] : n \in Names} \cup Held
  BY <1>2 DEF FreeIds
<1>4. bound' = [bound EXCEPT ![x] = a] /\ DOMAIN bound = Ids
  BY <1>1 DEF Parsed, TypeInv, TypeOK
<1>5. ASSUME NEW e \in Executors, NEW k \in DOMAIN job[e].held PROVE job[e].held[k] # x
  <2>1. job[e].held[k] \in ToSet(job[e].held)
    BY DEF ToSet
  <2> QED BY <1>3, <2>1 DEF Held
<1>6. /\ bound'[x] = a
      /\ \A id \in Ids \ {x} : bound'[id] = bound[id]
  BY <1>2, <1>4
<1> QED BY <1>1, <1>2, <1>3, <1>5, <1>6

LEMMA ClosedView ==
    ASSUME TypeInv, NEW ids, Close(ids)
    PROVE  /\ \A x \in Ids \ ids : bound'[x] = bound[x] /\ (x \in serving' <=> x \in serving)
           /\ \A x \in ids : x \notin serving'
BY DEF Close

LEMMA RegistryType ==
    ASSUME TypeInv, NEW n \in Registered
    PROVE  n \in Names /\ registry[n] \in Ids /\ registry[n] # 0
BY DEF Registered, TypeInv, TypeOK

(* Before the first service is dealt with, every service is as it should.  *)
LEMMA ReadyRight ==
    ASSUME NEW b, Going(b), Handled(b) = {}, b.pc \notin {"unload", "forget"}
    PROVE  \A n \in Registered : Right(n)
<1>1. \A n \in Registered : n \in Names
  BY DEF Registered
<1> QED BY <1>1, SeenNone DEF Going, Ready

LEMMA CreateParseGoing ==
    ASSUME TypeInv, NEW e \in Sockets, failures = 0, failures' = 0, Unshared, CreateParse(e),
           NEW b, b = job[e], Going(b), NEW j, j = job'[e]
    PROVE  Unshared' /\ Going(j)'
<1>e. e \in Executors
  BY DEF Executors
<1>0. IsJob(e, b)
  BY <1>e, JobFields DEF TypeInv
<1>i. JobInv
  BY DEF TypeInv
<1>1. b.op = "create" /\ b.pc = "parse" /\ UNCHANGED <<registry, serving, config>>
  BY DEF CreateParse, At
<1>2. Handled(b) = {}
  BY <1>1 DEF Handled, OnHeld
<1>3. \A n \in Registered : Right(n)
  BY <1>1, <1>2, ReadyRight
<1>4. Registered' = Registered /\ Unshared'
  BY <1>1 DEF Registered, Unshared
<1>5. CASE Finish(e) /\ UNCHANGED bound
  <2>1. \A n \in Registered : SameView(n)
    BY <1>1, <1>5, EntrySame DEF SameView
  <2>2. \A n \in Registered' : Right(n)'
    BY <1>3, <1>4, <2>1, ViewKept
  <2> QED BY <1>4, <1>5, <1>e, <1>i, <2>2, RestsGoing
<1>6. CASE /\ ParseOK(Current(e).addr) /\ Parsed(Current(e).addr)
           /\ job' = [job EXCEPT ![e].held = Append(@, Fresh),
                              ![e].i = IF b.i < Len(b.items) THEN b.i + 1 ELSE 1,
                              ![e].pc = IF b.i < Len(b.items) THEN "parse" ELSE "register"]
  <2>0. PICK x, a : x = Fresh /\ a = Current(e).addr
    OBVIOUS
  <2>1. PICK h, k, p : /\ h = Append(b.held, x)
                       /\ k = IF b.i < Len(b.items) THEN b.i + 1 ELSE 1
                       /\ p = IF b.i < Len(b.items) THEN "parse" ELSE "register"
    OBVIOUS
  <2>2. PICK c : c = [b EXCEPT !.held = h]
    OBVIOUS
  <2>3. c = [op |-> b.op, pc |-> b.pc, items |-> b.items, i |-> b.i, held |-> h]
    BY <1>0, <2>2 DEF IsJob
  <2>4. PICK d : d = [c EXCEPT !.i = k]
    OBVIOUS
  <2>5. d = [op |-> b.op, pc |-> b.pc, items |-> b.items, i |-> k, held |-> h]
    BY <2>3, <2>4
  <2>6. PICK f : f = [d EXCEPT !.pc = p]
    OBVIOUS
  <2>7. f = [op |-> b.op, pc |-> p, items |-> b.items, i |-> k, held |-> h]
    BY <2>5, <2>6
  <2>8. job' = [job EXCEPT ![e] = [[[b EXCEPT !.held = h] EXCEPT !.i = k] EXCEPT !.pc = p]]
    BY <1>6, <2>0, <2>1
  <2>9. j = [op |-> b.op, pc |-> p, items |-> b.items, i |-> k, held |-> h]
    BY <1>e, <1>i, <2>2, <2>4, <2>6, <2>7, <2>8 DEF JobInv
  <2>10. j.op = "create" /\ (j.pc = "parse" \/ (j.pc = "register" /\ j.i = 1))
         /\ j.items = b.items /\ j.held = h
    BY <1>1, <2>1, <2>9
  <2>11. Handled(j) = {}
    BY <2>10 DEF Handled, OnHeld
  <2>12. /\ x \in Ids /\ bound'[x] = a
         /\ \A id \in Ids \ {x} : bound'[id] = bound[id]
         /\ \A n \in Names : registry[n] # x
         /\ \A l \in DOMAIN b.held : b.held[l] # x
    BY <1>6, <1>e, <2>0, ParsedView
  <2>13. \A n \in Registered : SameView(n)
    BY <1>1, <2>12, EntrySame, RegistryType DEF SameView
  <2>14. \A n \in Names : Ready(j, n)'
    <3> SUFFICES ASSUME NEW n \in Names, n \in Registered' PROVE Ready(j, n)'
      BY DEF Ready
    <3>1. Right(n)'
      BY <1>3, <1>4, <2>13, ViewKept
    <3>2. Seen(j, {}, n)'
      BY <3>1 DEF Seen
    <3> QED BY <2>11, <3>2 DEF Ready
  <2>15. /\ b.held \in Seq(Ids) /\ Len(b.held) = b.i - 1 /\ b.i \in Nat \ {0}
         /\ b.i <= Len(b.items)
    BY <1>0, <1>1 DEF IsJob, JobOK, Jobs, Working
  <2>16. /\ DOMAIN h = DOMAIN b.held \cup {b.i} /\ h[b.i] = x /\ b.i \notin DOMAIN b.held
         /\ \A l \in DOMAIN b.held : h[l] = b.held[l] /\ b.held[l] \in Ids
    <3>1. DOMAIN b.held = 1..(b.i - 1)
      BY <2>15
    <3>2. h \in Seq(Ids) /\ Len(h) = b.i
      BY <2>1, <2>12, <2>15
    <3>3. DOMAIN h = 1..b.i
      BY <3>2
    <3>4. h[b.i] = x
      BY <2>1, <2>12, <2>15
    <3>5. \A l \in 1..(b.i - 1) : h[l] = b.held[l] /\ b.held[l] \in Ids
      BY <2>1, <2>12, <2>15
    <3>6. 1..b.i = 1..(b.i - 1) \cup {b.i} /\ b.i \notin 1..(b.i - 1)
      BY <2>15
    <3> QED BY <3>1, <3>3, <3>4, <3>5, <3>6
  <2>17. Lent(j)'
    <3>1. ASSUME NEW l \in DOMAIN h, NEW n \in Registered, registry[n] = h[l]
          PROVE  n = b.items[l].name
      <4>1. n \in Names
        BY DEF Registered
      <4>2. l \in DOMAIN b.held
        BY <2>12, <2>16, <3>1, <4>1
      <4> QED BY <2>16, <3>1, <4>2 DEF Going, Lent
    <3>2. ASSUME NEW l \in DOMAIN h, NEW m \in DOMAIN h, h[l] = h[m]
          PROVE  b.items[l].name = b.items[m].name
      <4>1. l = m \/ (l \in DOMAIN b.held /\ m \in DOMAIN b.held)
        BY <2>12, <2>16, <3>2
      <4> QED BY <2>16, <3>2, <4>1 DEF Going, Lent
    <3> QED BY <1>1, <1>4, <2>10, <3>1, <3>2 DEF Lent
  <2>18. Opened(j)'
    <3>1. ASSUME NEW l \in DOMAIN h PROVE bound'[h[l]] = b.items[l].addr
      <4>1. CASE l = b.i
        BY <2>0, <2>12, <2>16, <4>1 DEF Current
      <4>2. CASE l \in DOMAIN b.held
        <5>1. bound'[h[l]] = bound[b.held[l]]
          BY <2>12, <2>16, <4>2
        <5> QED BY <1>1, <4>2, <5>1 DEF Going, Opened
      <4> QED BY <2>16, <4>1, <4>2
    <3> QED BY <2>10, <3>1 DEF Opened
  <2>19. Asked(j)' /\ j.pc \notin {"undo", "load"}
    BY <2>10 DEF Asked
  <2> QED BY <1>4, <2>14, <2>17, <2>18, <2>19 DEF Going
<1>7. ~ParseFails(Current(e).addr)
  BY DEF ParseFails
<1> QED BY <1>5, <1>6, <1>7 DEF CreateParse

(* Services that a step takes off the registry and closes.                 *)
LEMMA RemovedView ==
    ASSUME TypeInv, Unshared, NEW mine \in SUBSET Names, UNCHANGED config,
           registry' = [n \in Names |-> IF n \in mine THEN 0 ELSE registry[n]],
           Close({registry[n] : n \in mine})
    PROVE  /\ Registered' = Registered \ mine
           /\ \A n \in Registered \ mine : SameView(n)
           /\ Unshared'
<1>1. Registered' = Registered \ mine
  BY DEF Registered
<1>2. PICK ids : ids = {registry[n] : n \in mine}
  OBVIOUS
<1>3. \A n \in Registered \ mine : registry[n] \in Ids \ ids /\ registry'[n] = registry[n]
  <2> SUFFICES ASSUME NEW n \in Registered \ mine
               PROVE  registry[n] \notin ids /\ registry'[n] = registry[n] /\ registry[n] \in Ids
    OBVIOUS
  <2>1. n \in Names /\ registry[n] \in Ids /\ registry[n] # 0
    BY RegistryType
  <2>2. ASSUME NEW m \in mine, registry[m] = registry[n] PROVE FALSE
    <3>1. m \in Registered
      BY <2>1, <2>2 DEF Registered
    <3> QED BY <2>2, <3>1 DEF Unshared
  <2> QED BY <1>2, <2>1, <2>2
<1>4. \A x \in Ids \ ids : bound'[x] = bound[x] /\ (x \in serving' <=> x \in serving)
  BY <1>2, ClosedView
<1>5. \A n \in Registered \ mine : SameView(n)
  BY <1>3, <1>4, EntrySame DEF SameView
<1>6. Unshared'
  BY <1>1, <1>3 DEF Unshared
<1> QED BY <1>1, <1>5, <1>6

(* The service a step puts on the registry.                                *)
LEMMA AddedView ==
    ASSUME TypeInv, Unshared, NEW n \in Names \ Registered, NEW id \in Ids,
           registry' = [registry EXCEPT ![n] = id], \A m \in Registered : registry[m] # id
    PROVE  /\ Registered' = Registered \cup {n}
           /\ registry'[n] = id
           /\ \A m \in Registered : m # n /\ registry'[m] = registry[m]
           /\ Unshared'
<1>1. DOMAIN registry = Names /\ id # 0
  BY ServicesAssumption DEF TypeInv, TypeOK, Ids
<1>2. \A m \in Names : registry'[m] = IF m = n THEN id ELSE registry[m]
  BY <1>1
<1>3. Registered' = Registered \cup {n}
  BY <1>1, <1>2 DEF Registered
<1>4. \A m \in Registered : m # n /\ registry'[m] = registry[m]
  BY <1>2 DEF Registered
<1>5. registry'[n] = id
  BY <1>2
<1>6. \A m, l \in Registered \cup {n} : registry'[m] = registry'[l] => m = l
  BY <1>4, <1>5 DEF Unshared
<1>7. Unshared'
  BY <1>3, <1>6 DEF Unshared
<1> QED BY <1>3, <1>4, <1>5, <1>7

LEMMA CreateRegisterGoing ==
    ASSUME TypeInv, NEW e \in Sockets, failures = 0, failures' = 0, Unshared, CreateRegister(e),
           NEW b, b = job[e], Going(b), Phase(b), NEW j, j = job'[e]
    PROVE  Unshared' /\ Going(j)'
<1>e. e \in Executors /\ e \notin Requests
  BY ServicesAssumption DEF Executors
<1>0. IsJob(e, b)
  BY <1>e, JobFields DEF TypeInv
<1>i. JobInv
  BY DEF TypeInv
<1>1. b.op = "create" /\ b.pc = "register" /\ UNCHANGED config
  BY DEF CreateRegister, At
<1>2. Books(Past(b), {})
  BY <1>1 DEF Phase, New, Old
<1>3. PICK n : n = b.items[b.i].name
  OBVIOUS
<1>4. /\ b.i \in 1..Len(b.items) /\ n \in Names /\ Past(b) \subseteq Names
      /\ b.held[b.i] \in Ids /\ Len(b.held) = Len(b.items) /\ b.held \in Seq(Ids)
      /\ DOMAIN b.items = 1..Len(b.items) /\ Len(b.items) \in Nat
  BY <1>e, <1>0, <1>1, <1>3, <1>i, CurrentType, WorkedOn DEF Working, OnHeld, IsJob, JobOK, Jobs
<1>5. Handled(b) = 1..(b.i - 1)
  BY <1>1 DEF Handled, OnHeld
<1>6. \A m \in Registered : m \in Names /\ Seen(b, 1..(b.i - 1), m)
  <2>1. \A m \in Registered : m \in Names
    BY DEF Registered
  <2> QED BY <1>1, <1>5, <2>1 DEF Going, Ready
<1>7. CASE n \in Registered
  <2>1. PICK mine : mine = Past(b)
    OBVIOUS
  <2>2. /\ registry' = [m \in Names |-> IF m \in mine THEN 0 ELSE registry[m]]
        /\ Close({registry[m] : m \in mine}) /\ Finish(e)
    BY <1>e, <1>3, <1>7, <2>1 DEF CreateRegister, Past, Current
  <2>3. /\ Registered' = Registered \ mine
        /\ \A m \in Registered \ mine : SameView(m)
        /\ Unshared'
    BY <1>1, <1>4, <2>1, <2>2, RemovedView
  <2>4. \A m \in Registered' : Right(m)'
    <3> SUFFICES ASSUME NEW m \in Registered \ mine PROVE Right(m)'
      BY <2>3
    <3>1. \A k \in 1..(b.i - 1) : b.items[k].name # m
      BY <2>1 DEF Past
    <3>2. Right(m)
      BY <1>6, <3>1, SeenNever
    <3> QED BY <2>3, <3>2, ViewKept
  <2>5. Going(j)'
    BY <1>e, <1>i, <2>2, <2>4, RestsGoing
  <2> QED BY <2>3, <2>5
<1>8. CASE n \notin Registered
  <2>1. PICK id : id = b.held[b.i]
    OBVIOUS
  <2>2. /\ registry' = [registry EXCEPT ![n] = id] /\ Each(e, "register", "serve")
        /\ UNCHANGED <<bound, serving>>
    BY <1>3, <1>8, <2>1 DEF CreateRegister, Current
  <2>3. b.i \in DOMAIN b.held /\ DOMAIN b.held = DOMAIN b.items
    BY <1>4
  <2>4. \A m \in Registered : registry[m] # id
    BY <1>3, <1>8, <2>1, <2>3 DEF Going, Lent
  <2>5. /\ Registered' = Registered \cup {n}
        /\ registry'[n] = id
        /\ \A m \in Registered : m # n /\ registry'[m] = registry[m]
        /\ Unshared'
    <3>1. n \in Names \ Registered /\ id \in Ids
      BY <1>4, <1>8, <2>1
    <3> QED BY <2>2, <2>4, <3>1, AddedView
  <2>6. /\ j.op = "create" /\ j.items = b.items /\ j.held = b.held
        /\ j.pc = IF b.i < Len(b.items) THEN "register" ELSE "serve"
        /\ j.i = IF b.i < Len(b.items) THEN b.i + 1 ELSE 1
    BY <1>e, <1>1, <1>i, <2>2, EachPlace
  <2>7. Handled(j) = 1..b.i
    <3>1. CASE b.i < Len(b.items)
      <4>1. j.pc = "register" /\ j.i - 1 = b.i
        BY <1>4, <2>6, <3>1
      <4> QED BY <4>1 DEF Handled, OnHeld
    <3>2. CASE ~(b.i < Len(b.items))
      <4>1. j.pc = "serve" /\ Len(b.items) = b.i
        BY <1>4, <2>6, <3>2
      <4> QED BY <1>4, <2>6, <4>1 DEF Handled
    <3> QED BY <3>1, <3>2
  <2>8. \A m \in Registered : SameView(m)
    BY <1>1, <2>2, <2>5, EntrySame DEF SameView
  <2>9. ASSUME NEW m \in Names, m \in Registered' PROVE Seen(j, 1..b.i, m)'
    <3>1. CASE m = n
      <4>1. As(j, n, b.i)'
        BY <2>1, <2>5, <2>6 DEF As
      <4>2. \A l \in 1..b.i : l <= b.i
        BY <1>4
      <4>3. b.i \in 1..b.i /\ j.items[b.i].name = n
        BY <1>3, <1>4, <2>6
      <4> QED BY <3>1, <4>1, <4>2, <4>3 DEF Seen
    <3>2. CASE m \in Registered
      <4>1. Seen(j, 1..(b.i - 1), m)'
        <5>1. PICK H : H = 1..(b.i - 1)
          OBVIOUS
        <5>2. SameView(m) /\ Seen(b, H, m)
          BY <1>6, <2>8, <3>2, <5>1
        <5>3. Seen(j, H, m)'
          BY <1>1, <2>6, <5>2, SeenKept
        <5> QED BY <5>1, <5>3
      <4>2. 1..b.i = 1..(b.i - 1) \cup {b.i} /\ j.items[b.i].name # m
        BY <1>3, <1>4, <2>5, <2>6, <3>2
      <4> QED BY <4>1, <4>2 DEF Seen
    <3> QED BY <2>5, <2>9, <3>1, <3>2
  <2>10. \A m \in Names : Ready(j, m)'
    BY <2>7, <2>9 DEF Ready
  <2>11. Lent(j)'
    <3>1. ASSUME NEW k \in DOMAIN b.held, NEW m \in Registered', registry'[m] = b.held[k]
          PROVE  m = b.items[k].name
      BY <1>3, <2>1, <2>3, <2>5, <3>1 DEF Going, Lent
    <3> QED BY <2>6, <3>1 DEF Going, Lent
  <2>12. Opened(j)'
    <3>1. bound' = bound /\ serving' = serving /\ j.pc \in {"register", "serve"}
      BY <2>2, <2>6
    <3> QED BY <1>1, <2>3, <2>6, <3>1 DEF Going, Opened
  <2>13. Asked(j)' /\ j.pc \notin {"undo", "load"}
    BY <2>6 DEF Asked
  <2> QED BY <2>5, <2>10, <2>11, <2>12, <2>13 DEF Going
<1> QED BY <1>7, <1>8

(* The services of a create whose names are all different.                 *)
LEMMA CreatedHeld ==
    ASSUME TypeInv, failures = 0, NEW b, b.op = "create", b.pc \in {"serve", "config"}, Going(b),
           Phase(b), DOMAIN b.items = 1..Len(b.items)
    PROVE  /\ Distinct(b, Len(b.items))
           /\ \A k \in DOMAIN b.items : LET n == b.items[k].name IN
                 n \in Names => n \in Registered /\ EntriesOf(n) = {} /\ registry[n] = b.held[k]
           /\ \A n \in Registered : (\A k \in DOMAIN b.items : b.items[k].name # n) =>
                 Matches(n) /\ Right(n)
<1>1. Books(Whole(b), {}) /\ Distinct(b, Len(b.items))
  BY DEF Phase, New, Old
<1>2. Handled(b) = DOMAIN b.items
  BY DEF Handled
<1>3. \A n \in Registered : n \in Names /\ Seen(b, DOMAIN b.items, n)
  <2>1. \A n \in Registered : n \in Names
    BY DEF Registered
  <2> QED BY <1>2, <2>1 DEF Going, Ready
<1>4. ASSUME NEW k \in DOMAIN b.items, NEW n \in Names, n = b.items[k].name
      PROVE  n \in Registered /\ EntriesOf(n) = {} /\ registry[n] = b.held[k]
  <2>1. Added(n)
    BY <1>1, <1>4 DEF Books, Whole
  <2>2. n \in Registered /\ EntriesOf(n) = {}
    BY <2>1 DEF Added
  <2>3. PICK l \in DOMAIN b.items : b.items[l].name = n /\ As(b, n, l)
    BY <1>3, <1>4, <2>2 DEF Seen
  <2>4. l = k
    BY <1>1, <1>4, <2>3 DEF Distinct
  <2> QED BY <2>2, <2>3, <2>4 DEF As
<1>5. ASSUME NEW n \in Registered, \A k \in DOMAIN b.items : b.items[k].name # n
      PROVE  Matches(n) /\ Right(n)
  <2>1. n \notin Whole(b)
    BY <1>5 DEF Whole
  <2>2. Matches(n)
    BY <1>1, <1>3, <2>1 DEF Books
  <2> QED BY <1>3, <1>5, <2>2, SeenNever
<1> QED BY <1>1, <1>4, <1>5

LEMMA CreateServeGoing ==
    ASSUME TypeInv, NEW e \in Sockets, failures = 0, failures' = 0, Unshared, CreateServe(e),
           NEW b, b = job[e], Going(b), Phase(b), NEW j, j = job'[e]
    PROVE  Unshared' /\ Going(j)'
<1>e. e \in Executors
  BY DEF Executors
<1>0. IsJob(e, b)
  BY <1>e, JobFields DEF TypeInv
<1>i. JobInv
  BY DEF TypeInv
<1>1. b.op = "create" /\ b.pc = "serve" /\ GoTo(e, "config") /\ UNCHANGED <<registry, bound, config>>
  BY DEF CreateServe, At
<1>2. /\ j.pc = "config" /\ j.op = b.op /\ j.items = b.items /\ j.i = b.i /\ j.held = b.held
  BY <1>e, <1>1, <1>i, GoToPlace
<1>3. /\ DOMAIN b.items = 1..Len(b.items) /\ \A k \in DOMAIN b.items : b.items[k].name \in Names
      /\ \A k \in DOMAIN b.items : b.items[k].addr \in Addrs
  <2>1. DOMAIN b.items = 1..Len(b.items)
    BY <1>0 DEF IsJob
  <2>2. \A k \in DOMAIN b.items : b.items[k].addr \in Addrs
    BY <1>0, <1>1 DEF IsJob, JobOK
  <2> QED BY <1>0, <2>1, <2>2, NamesOf
<1>4. /\ \A k \in DOMAIN b.items : LET n == b.items[k].name IN
            n \in Names => n \in Registered /\ EntriesOf(n) = {} /\ registry[n] = b.held[k]
      /\ \A n \in Registered : (\A k \in DOMAIN b.items : b.items[k].name # n) =>
            Matches(n) /\ Right(n)
  BY <1>1, <1>3, CreatedHeld
<1>5. PICK started : started = {registry[s.name] : s \in ToSet(b.items)}
  OBVIOUS
<1>6. serving' = serving \cup {id \in started \ {0} : bound[id] # NoAddr}
  BY <1>5 DEF CreateServe
<1>7. \A id \in started : \E k \in DOMAIN b.items : id = registry[b.items[k].name]
  BY <1>5 DEF ToSet
<1>8. Registered' = Registered /\ Unshared'
  BY <1>1 DEF Registered, Unshared
<1>9. ASSUME NEW n \in Registered PROVE Ready(j, n)'
  <2>1. CASE \E k \in DOMAIN b.items : b.items[k].name = n
    <3>1. PICK k \in DOMAIN b.items : b.items[k].name = n
      BY <2>1
    <3>2. n \in Names
      BY DEF Registered
    <3>3. Seen(b, DOMAIN b.items, n)
      BY <1>1, <3>2 DEF Going, Ready, Handled
    <3>4. PICK h \in DOMAIN b.items : /\ b.items[h].name = n /\ As(b, n, h)
                                      /\ \A l \in DOMAIN b.items : b.items[l].name = n => l <= h
      BY <3>1, <3>3 DEF Seen
    <3>5. As(j, n, h)'
      BY <1>1, <1>2, <3>4 DEF As
    <3>6. Seen(j, DOMAIN b.items, n)'
      BY <1>2, <3>4, <3>5 DEF Seen
    <3> QED BY <1>2, <3>6 DEF Ready, Handled
  <2>2. CASE \A k \in DOMAIN b.items : b.items[k].name # n
    <3>1. registry[n] \notin started
      <4> SUFFICES ASSUME NEW k \in DOMAIN b.items, registry[n] = registry[b.items[k].name]
                   PROVE  FALSE
        BY <1>7
      <4>1. b.items[k].name \in Registered
        BY <1>3, <1>4
      <4> QED BY <2>2, <4>1 DEF Unshared
    <3>2. SameView(n)
      BY <1>1, <1>6, <3>1, EntrySame DEF SameView
    <3>3. Right(n)'
      BY <1>4, <2>2, <3>2, ViewKept
    <3>4. Seen(j, DOMAIN b.items, n)'
      BY <1>2, <2>2, <3>3 DEF Seen
    <3> QED BY <1>2, <3>4 DEF Ready, Handled
  <2> QED BY <2>1, <2>2
<1>10. \A n \in Names : Ready(j, n)'
  BY <1>8, <1>9 DEF Ready
<1>11. Lent(j)'
  BY <1>1, <1>2, <1>8 DEF Going, Lent
<1>12. Opened(j)'
  <2>1. \A k \in DOMAIN b.held : bound[b.held[k]] = b.items[k].addr
    BY <1>1 DEF Going, Opened
  <2>2. ASSUME NEW k \in DOMAIN b.held PROVE b.held[k] \in serving'
    <3>1. k \in DOMAIN b.items
      BY <1>1 DEF Going, Opened
    <3>2. b.held[k] = registry[b.items[k].name] /\ b.items[k].name \in Registered
      BY <1>3, <1>4, <3>1
    <3>3. b.held[k] \in started
      BY <1>5, <3>1, <3>2 DEF ToSet
    <3>4. bound[b.held[k]] # NoAddr
      BY <1>3, <2>1, <3>1, ServicesAssumption
    <3>5. b.held[k] # 0
      BY <3>2, RegistryType
    <3> QED BY <1>6, <3>3, <3>4, <3>5
  <2>3. DOMAIN b.held = DOMAIN b.items
    BY <1>1 DEF Going, Opened
  <2> QED BY <1>1, <1>2, <2>1, <2>2, <2>3 DEF Opened
<1>13. Asked(j)' /\ j.pc \notin {"undo", "load"}
  BY <1>1, <1>2 DEF Asked
<1> QED BY <1>8, <1>10, <1>11, <1>12, <1>13 DEF Going

(* The one entry of a service.                                             *)
LEMMA OnlyEntry ==
    ASSUME NEW n, NEW k, EntriesOf(n) = {k}
    PROVE  AddrOf(n) = config[k].addr /\ (IsPaused(n) <=> config[k].paused)
<1>1. FirstOf(n) = k
  BY DEF FirstOf
<1> QED BY <1>1 DEF AddrOf, IsPaused

LEMMA NextEntry ==
    ASSUME NEW n, NEW k, EntriesOf(n)' = {k}
    PROVE  AddrOf(n)' = config'[k].addr /\ (IsPaused(n)' <=> config'[k].paused)
<1>1. FirstOf(n)' = k
  BY DEF FirstOf
<1> QED BY <1>1 DEF AddrOf, IsPaused

LEMMA CreateConfigGoing ==
    ASSUME TypeInv, NEW e \in Sockets, failures = 0, failures' = 0, Unshared, CreateConfig(e),
           NEW b, b = job[e], Going(b), Phase(b), NEW j, j = job'[e]
    PROVE  Unshared' /\ Going(j)'
<1>e. e \in Executors
  BY DEF Executors
<1>0. IsJob(e, b)
  BY <1>e, JobFields DEF TypeInv
<1>i. JobInv
  BY DEF TypeInv
<1>1. b.op = "create" /\ b.pc = "config" /\ Finish(e) /\ UNCHANGED <<registry, bound, serving>>
  BY DEF CreateConfig, At
<1>2. Registered' = Registered /\ Unshared'
  BY <1>1 DEF Registered, Unshared
<1>3. DOMAIN b.items = 1..Len(b.items) /\ \A k \in DOMAIN b.items : b.items[k].name \in Names
  BY <1>0, NamesOf DEF IsJob
<1>4. /\ Distinct(b, Len(b.items))
      /\ \A k \in DOMAIN b.items : LET n == b.items[k].name IN
            n \in Names => n \in Registered /\ EntriesOf(n) = {} /\ registry[n] = b.held[k]
      /\ \A n \in Registered : (\A k \in DOMAIN b.items : b.items[k].name # n) =>
            Matches(n) /\ Right(n)
  BY <1>1, <1>3, CreatedHeld
<1>5. PICK l, m, new : l = Len(config) /\ m = Len(b.items) /\ new = Appended(b)
  OBVIOUS
<1>6. /\ DOMAIN config = 1..l /\ l \in Nat /\ m \in Nat
      /\ \A k \in 1..l : config'[k] = config[k]
      /\ \A k \in 1..m : config'[l + k] = new[k]
      /\ \A n : EntriesOf(n)' = EntriesOf(n) \cup Behind(l, Named(b, n))
  <2>1. TypeInv /\ CreateConfig(e) /\ b = job[e]
    OBVIOUS
  <2> QED BY ONLY <1>0, <1>e, <1>5, <2>1, AppendedConfig, SMTT(30)
<1>7. ASSUME NEW n \in Registered, NEW k \in DOMAIN b.items, b.items[k].name = n
      PROVE  Right(n)'
  <2>1. Named(b, n) = {k}
    BY <1>3, <1>4, <1>7 DEF Distinct, Named
  <2>2. n \in Names /\ EntriesOf(n) = {} /\ registry[n] = b.held[k]
    BY <1>3, <1>4, <1>7
  <2>3. EntriesOf(n)' = {l + k}
    BY <1>6, <2>1, <2>2 DEF Behind
  <2>4. config'[l + k] = [name |-> b.items[k].name, addr |-> b.items[k].addr, paused |-> FALSE]
    BY <1>3, <1>5, <1>6, <1>7 DEF Appended
  <2>5. AddrOf(n)' = b.items[k].addr /\ ~IsPaused(n)'
    BY <2>3, <2>4, NextEntry
  <2>6. b.held[k] \in serving /\ bound[b.held[k]] = b.items[k].addr
    BY <1>1, <1>7 DEF Going, Opened
  <2> QED BY <1>1, <2>2, <2>5, <2>6 DEF Right, Runs
<1>8. ASSUME NEW n \in Registered, \A k \in DOMAIN b.items : b.items[k].name # n
      PROVE  Right(n)'
  <2>1. Matches(n) /\ Right(n)
    BY <1>4, <1>8
  <2>2. PICK q : EntriesOf(n) = {q}
    BY <2>1 DEF Matches, Once
  <2>3. Named(b, n) = {}
    BY <1>3, <1>8 DEF Named
  <2>4. EntriesOf(n)' = {q}
    BY <1>6, <2>2, <2>3 DEF Behind
  <2>5. config'[q] = config[q]
    BY <1>6, <2>2 DEF EntriesOf
  <2>6. AddrOf(n)' = AddrOf(n) /\ (IsPaused(n)' <=> IsPaused(n))
    BY <2>2, <2>4, <2>5, OnlyEntry, NextEntry
  <2>7. SameView(n)
    BY <1>1, <2>6 DEF SameView
  <2> QED BY <2>1, <2>7, ViewKept
<1>9. \A n \in Registered' : Right(n)'
  BY <1>2, <1>7, <1>8
<1> QED BY <1>1, <1>2, <1>9, <1>e, <1>i, RestsGoing

LEMMA CheckGoing ==
    ASSUME TypeInv, NEW e \in Sockets, failures = 0, failures' = 0, Unshared, Check(e),
           NEW b, b = job[e], Going(b), Phase(b), NEW j, j = job'[e]
    PROVE  Unshared' /\ Going(j)'
<1>e. e \in Executors
  BY DEF Executors
<1>0. IsJob(e, b)
  BY <1>e, JobFields DEF TypeInv
<1>i. JobInv
  BY DEF TypeInv
<1>1. b.pc = "check" /\ UNCHANGED <<registry, bound, serving, config>>
  BY DEF Check
<1>2. b.op \in {"update", "delete", "pause", "resume"}
  BY <1>0, <1>1 DEF IsJob, Operations, Phases
<1>3. \A n \in Registered : Right(n)
  <2>1. Handled(b) = {}
    BY <1>1 DEF Handled, OnHeld
  <2> QED BY <1>1, <2>1, ReadyRight
<1>4. Registered' = Registered /\ Unshared'
  BY <1>1 DEF Registered, Unshared
<1>5. \A n \in Registered' : Right(n)'
  <2>1. \A n \in Registered : SameView(n)
    BY <1>1, EntrySame DEF SameView
  <2> QED BY <1>3, <1>4, <2>1, ViewKept
<1>6. CASE Finish(e)
  BY <1>4, <1>5, <1>6, <1>e, <1>i, RestsGoing
<1>7. CASE ~Finish(e)
  <2>1. PICK sel \in Seq(Item) :
              /\ sel = Selected(e)
              /\ \A i \in DOMAIN sel : \E k \in DOMAIN b.items : sel[i] = b.items[k]
    BY <1>0, SelectedType
  <2>2. PICK pc, items, held :
          /\ pc = IF sel = <<>> THEN "config" ELSE AfterCheck(b.op)
          /\ items = [k \in DOMAIN sel |-> IF b.op = "update" THEN sel[k]
                                ELSE [sel[k] EXCEPT !.addr = AddrOf(sel[k].name)]]
          /\ held = [k \in DOMAIN sel |-> registry[sel[k].name]]
    OBVIOUS
  <2>3. PICK c : c = [op |-> b.op, i |-> 1, pc |-> pc, items |-> items, held |-> held]
    OBVIOUS
  <2>4. AllFound(e) /\ job' = [job EXCEPT ![e] = c]
    BY <1>7, <2>1, <2>2, <2>3 DEF Check
  <2>5. j = c
    BY <1>e, <1>i, <2>4 DEF JobInv
  <2>6. /\ j.op = b.op /\ j.pc = pc /\ j.items = items /\ j.held = held /\ j.i = 1
        /\ DOMAIN items = DOMAIN sel /\ DOMAIN held = DOMAIN sel
    BY <2>2, <2>3, <2>5
  <2>7. \A k \in DOMAIN sel : /\ items[k].name = sel[k].name
                              /\ b.op # "update" => items[k].addr = AddrOf(sel[k].name)
    <3>1. \A k \in DOMAIN sel : sel[k] \in Item
      BY <2>1
    <3> QED BY <2>2, <3>1 DEF Item
  <2>8. \A k \in DOMAIN sel : sel[k].name \in Registered
    <3> SUFFICES ASSUME NEW k \in DOMAIN sel PROVE sel[k].name \in Registered
      OBVIOUS
    <3>1. PICK l \in DOMAIN b.items : sel[k] = b.items[l]
      BY <2>1
    <3> QED BY <2>4, <3>1 DEF AllFound, ToSet
  <2>9. j.pc \in {"config", "unload", "stop", "close"}
    BY <1>2, <2>2, <2>6 DEF AfterCheck
  <2>10. Handled(j) = {}
    <3>1. sel = <<>> => DOMAIN items = {}
      BY <2>2
    <3>2. sel # <<>> => pc # "config"
      BY <2>2 DEF AfterCheck
    <3>3. pc = "config" => DOMAIN j.items = {}
      BY <2>6, <3>1, <3>2
    <3> QED BY <2>6, <2>9, <3>3 DEF Handled
  <2>11. \A n \in Names : Ready(j, n)'
    <3> SUFFICES ASSUME NEW n \in Names, n \in Registered' PROVE Ready(j, n)'
      BY DEF Ready
    <3>1. Right(n)'
      BY <1>5
    <3>2. Seen(j, {}, n)'
      BY <3>1 DEF Seen
    <3> QED BY <2>10, <3>2 DEF Ready
  <2>12. Lent(j)'
    <3>1. \A k \in DOMAIN sel : held[k] = registry[sel[k].name]
      BY <2>2
    <3>2. \A k \in DOMAIN sel, n \in Registered : registry[n] = held[k] => n = items[k].name
      BY <2>7, <2>8, <3>1 DEF Unshared
    <3>3. \A k, l \in DOMAIN sel : held[k] = held[l] => items[k].name = items[l].name
      BY <2>7, <2>8, <3>1 DEF Unshared
    <3> QED BY <1>1, <1>4, <2>6, <3>2, <3>3 DEF Lent
  <2>13. Opened(j)' /\ j.pc \notin {"undo", "load"}
    <3>1. \A k \in DOMAIN sel : held[k] = registry'[items[k].name]
      BY <1>1, <2>2, <2>7
    <3> QED BY <1>2, <2>6, <2>9, <3>1 DEF Opened
  <2>14. Asked(j)'
    <3> SUFFICES ASSUME b.op \in {"pause", "resume"}, NEW k \in DOMAIN items
                 PROVE  /\ EntriesOf(items[k].name)' # {}
                        /\ items[k].addr = AddrOf(items[k].name)'
      BY <2>6 DEF Asked
    <3>1. New(b) = {} /\ Old(b) = {}
      BY <1>1, <1>2 DEF New, Old
    <3>2. Books({}, {})
      BY <1>1, <3>1 DEF Phase
    <3>3. items[k].name \in Registered /\ items[k].name \in Names
      BY <2>6, <2>7, <2>8 DEF Registered
    <3>4. Matches(items[k].name)
      BY <3>2, <3>3 DEF Books
    <3>5. EntriesOf(items[k].name) # {} /\ items[k].addr = AddrOf(items[k].name)
      BY <2>6, <2>7, <3>3, <3>4 DEF Matches
    <3> QED BY <1>1, <3>5, EntrySame, EntriesKept
  <2> QED BY <1>4, <2>11, <2>12, <2>13, <2>14 DEF Going
<1> QED BY <1>6, <1>7

(* What a step carries over that leaves the lists of its job alone.        *)
LEMMA Carried ==
    ASSUME NEW b, Going(b), NEW j, j.op = b.op, j.items = b.items, j.held = b.held,
           b.op # "create", b.pc # "check", UNCHANGED config,
           j.pc \notin {"undo", "load", "reregister"},
           j.pc = "stop" => b.pc = "stop" /\ UNCHANGED registry,
           \A n \in Registered' : n \in Registered /\ registry'[n] = registry[n]
    PROVE  Lent(j)' /\ Opened(j)' /\ Asked(j)'
<1>1. Lent(b) /\ Opened(b) /\ Asked(b)
  BY DEF Going
<1>2. Lent(j)'
  BY <1>1 DEF Lent
<1>3. Opened(j)'
  BY <1>1 DEF Opened
<1>4. \A n : AddrOf(n)' = AddrOf(n) /\ EntriesOf(n)' = EntriesOf(n)
  BY EntrySame, EntriesKept
<1>5. Asked(j)'
  BY <1>1, <1>4 DEF Asked
<1> QED BY <1>2, <1>3, <1>5

(* The services that are not the one a job works on.                       *)
LEMMA CarriedReady ==
    ASSUME NEW b, Going(b), NEW j, j.op = b.op, j.items = b.items, b.op = "create" => j.held = b.held,
           Handled(j) = Handled(b), NEW n \in Names, n \in Registered, SameView(n),
           b.pc \in {"unload", "forget"} => n # b.items[b.i].name
    PROVE  Ready(j, n)'
<1>1. Seen(b, Handled(b), n)
  BY DEF Going, Ready
<1>2. PICK H : H = Handled(b)
  OBVIOUS
<1>3. Seen(b, H, n)
  BY <1>1, <1>2
<1>4. Seen(j, H, n)'
  BY <1>3, SeenKept
<1>5. Handled(j)' = H
  BY <1>2 DEF Handled
<1> QED BY <1>4, <1>5 DEF Ready

LEMMA CloseOldGoing ==
    ASSUME TypeInv, NEW e \in Sockets, failures = 0, failures' = 0, Unshared, CloseOld(e),
           NEW b, b = job[e], Going(b), Phase(b), NEW j, j = job'[e]
    PROVE  Unshared' /\ Going(j)'
<1>e. e \in Executors
  BY DEF Executors
<1>0. IsJob(e, b)
  BY <1>e, JobFields DEF TypeInv
<1>i. JobInv
  BY DEF TypeInv
<1>1. b.pc = "close" /\ b.op \in {"update", "resume"}
  BY <1>0 DEF CloseOld, IsJob, Operations, Phases
<1>2. PICK n : n = b.items[b.i].name
  OBVIOUS
<1>3. /\ b.i <= Len(b.items) /\ b.held[b.i] \in Ids /\ n \in Names /\ n \in Whole(b)
      /\ Current(e).name = n /\ b.i \in DOMAIN b.held /\ b.i \in DOMAIN b.items
  <2>1. b.i \in 1..Len(b.items) /\ b.held[b.i] \in Ids
    BY <1>e, <1>1, <1>i, CurrentType DEF Working, OnHeld
  <2>2. n \in Names /\ n \in Whole(b)
    BY <1>0, <1>2, <2>1, WorkedOn
  <2>3. Len(b.held) = Len(b.items)
    BY <1>0, <1>1 DEF OnHeld, IsJob, JobOK
  <2>4. DOMAIN b.held = 1..Len(b.items) /\ DOMAIN b.items = 1..Len(b.items)
    BY <1>0, <2>3 DEF IsJob
  <2> QED BY <1>2, <2>1, <2>2, <2>4 DEF Current
<1>4. n \in Registered
  <2>1. Needed(b) = Whole(b)
    BY <1>1 DEF Needed, Old
  <2> QED BY <1>3, <2>1 DEF Phase
<1>5. PICK old : old = IF b.op = "update" THEN registry[n] ELSE b.held[b.i]
  OBVIOUS
<1>6. Close({old}) /\ GoTo(e, "unload") /\ UNCHANGED <<registry, config>>
  <2>1. old # 0
    BY <1>3, <1>4, <1>5, ServicesAssumption DEF Registered, Ids
  <2> QED BY <1>3, <1>5, <2>1 DEF CloseOld
<1>7. /\ j.pc = "unload" /\ j.op = b.op /\ j.items = b.items /\ j.i = b.i /\ j.held = b.held
  BY <1>e, <1>6, <1>i, GoToPlace
<1>8. Registered' = Registered /\ Unshared'
  BY <1>6 DEF Registered, Unshared
<1>9. ASSUME NEW m \in Registered, m # n PROVE SameView(m)
  <2>1. registry[m] # old
    BY <1>2, <1>3, <1>4, <1>5, <1>9 DEF Unshared, Going, Lent
  <2>2. registry[m] \in Ids \ {old}
    BY <2>1, RegistryType
  <2>3. \A x \in Ids \ {old} : bound'[x] = bound[x] /\ (x \in serving' <=> x \in serving)
    BY <1>6, ClosedView
  <2> QED BY <1>6, <2>2, <2>3, EntrySame DEF SameView
<1>10. Handled(j) = Handled(b)
  BY <1>1, <1>7 DEF Handled, OnHeld
<1>11. \A m \in Names : Ready(j, m)'
  <2> SUFFICES ASSUME NEW m \in Names, m \in Registered PROVE Ready(j, m)'
    BY <1>8 DEF Ready
  <2>1. CASE m = n
    BY <1>2, <1>7, <2>1 DEF Ready
  <2>2. CASE m # n
    BY <1>1, <1>7, <1>9, <1>10, <2>2, CarriedReady
  <2> QED BY <2>1, <2>2
<1>12. Lent(j)' /\ Opened(j)' /\ Asked(j)'
  BY <1>1, <1>6, <1>7, <1>8, Carried
<1> QED BY <1>7, <1>8, <1>11, <1>12 DEF Going

LEMMA UnloadGoing ==
    ASSUME TypeInv, NEW e \in Sockets, failures = 0, failures' = 0, Unshared, Unload(e),
           NEW b, b = job[e], Going(b), Phase(b), NEW j, j = job'[e]
    PROVE  Unshared' /\ Going(j)'
<1>e. e \in Executors
  BY DEF Executors
<1>0. IsJob(e, b)
  BY <1>e, JobFields DEF TypeInv
<1>i. JobInv
  BY DEF TypeInv
<1>1. b.pc = "unload" /\ b.op \in {"update", "resume", "delete"} /\ UNCHANGED <<registry, config>>
  BY <1>0 DEF Unload, IsJob, Operations, Phases
<1>2. PICK n : n = b.items[b.i].name
  OBVIOUS
<1>3. Current(e).name = n
  BY <1>2 DEF Current
<1>4. PICK pc : GoTo(e, pc) /\ pc \in {"forget", "closeFound", "renew"}
                /\ (n \in Registered => pc = "forget")
  BY <1>3 DEF Unload
<1>5. /\ j.pc = pc /\ j.op = b.op /\ j.items = b.items /\ j.i = b.i /\ j.held = b.held
  BY <1>e, <1>4, <1>i, GoToPlace
<1>6. Registered' = Registered /\ Unshared'
  BY <1>1 DEF Registered, Unshared
<1>7. ASSUME NEW m \in Registered, m # n PROVE SameView(m)
  <2>1. CASE n \in Registered
    <3>1. PICK id : id = registry[n]
      OBVIOUS
    <3>2. Close({id})
      BY <1>3, <2>1, <3>1 DEF Unload
    <3>3. registry[m] \in Ids \ {id}
      BY <1>7, <2>1, <3>1, RegistryType DEF Unshared
    <3>4. \A x \in Ids \ {id} : bound'[x] = bound[x] /\ (x \in serving' <=> x \in serving)
      BY <3>2, ClosedView
    <3> QED BY <1>1, <3>3, <3>4, EntrySame DEF SameView
  <2>2. CASE n \notin Registered
    <3>1. UNCHANGED <<bound, serving>>
      BY <1>3, <2>2 DEF Unload
    <3> QED BY <1>1, <3>1, EntrySame DEF SameView
  <2> QED BY <2>1, <2>2
<1>8. Handled(j) = Handled(b)
  BY <1>1, <1>4, <1>5 DEF Handled, OnHeld
<1>9. \A m \in Names : Ready(j, m)'
  <2> SUFFICES ASSUME NEW m \in Names, m \in Registered PROVE Ready(j, m)'
    BY <1>6 DEF Ready
  <2>1. CASE m = n
    BY <1>2, <1>4, <1>5, <2>1 DEF Ready
  <2>2. CASE m # n
    BY <1>1, <1>2, <1>5, <1>7, <1>8, <2>2, CarriedReady
  <2> QED BY <2>1, <2>2
<1>10. Lent(j)' /\ Opened(j)' /\ Asked(j)'
  BY <1>1, <1>4, <1>5, <1>6, Carried
<1> QED BY <1>4, <1>5, <1>6, <1>9, <1>10 DEF Going

LEMMA ForgetGoing ==
    ASSUME TypeInv, NEW e \in Sockets, failures = 0, failures' = 0, Unshared, Forget(e),
           NEW b, b = job[e], Going(b), Phase(b), NEW j, j = job'[e]
    PROVE  Unshared' /\ Going(j)'
<1>e. e \in Executors
  BY DEF Executors
<1>0. IsJob(e, b)
  BY <1>e, JobFields DEF TypeInv
<1>i. JobInv
  BY DEF TypeInv
<1>1. b.pc = "forget" /\ b.op \in {"update", "resume", "delete"}
      /\ UNCHANGED <<bound, serving, config>>
  BY <1>0 DEF Forget, IsJob, Operations, Phases
<1>2. PICK n : n = b.items[b.i].name
  OBVIOUS
<1>3. registry' = [registry EXCEPT ![n] = 0]
  BY <1>2 DEF Forget, Current
<1>4. PICK pc : GoTo(e, pc) /\ pc \in {"closeFound", "renew"}
  BY DEF Forget
<1>5. /\ j.pc = pc /\ j.op = b.op /\ j.items = b.items /\ j.i = b.i /\ j.held = b.held
  BY <1>e, <1>4, <1>i, GoToPlace
<1>6. \A m \in Registered' : m \in Names /\ m \in Registered /\ m # n /\ registry'[m] = registry[m]
  BY <1>3 DEF Registered, TypeInv, TypeOK
<1>7. Unshared'
  BY <1>6 DEF Unshared
<1>8. \A m \in Registered' : SameView(m)
  BY <1>1, <1>6, EntrySame DEF SameView
<1>9. Handled(j) = Handled(b)
  BY <1>1, <1>4, <1>5 DEF Handled, OnHeld
<1>10. \A m \in Names : Ready(j, m)'
  <2> SUFFICES ASSUME NEW m \in Names, m \in Registered' PROVE Ready(j, m)'
    BY DEF Ready
  <2>1. m \in Registered /\ m # n /\ SameView(m)
    BY <1>6, <1>8
  <2> QED BY <1>1, <1>2, <1>5, <1>9, <2>1, CarriedReady
<1>11. Lent(j)' /\ Opened(j)' /\ Asked(j)'
  BY <1>1, <1>4, <1>5, <1>6, Carried
<1> QED BY <1>4, <1>5, <1>7, <1>10, <1>11 DEF Going

LEMMA RenewGoing ==
    ASSUME TypeInv, NEW e \in Sockets, failures = 0, failures' = 0, Unshared, Renew(e),
           NEW b, b = job[e], Going(b), Phase(b), NEW j, j = job'[e]
    PROVE  Unshared' /\ Going(j)'
<1>e. e \in Executors
  BY DEF Executors
<1>0. IsJob(e, b)
  BY <1>e, JobFields DEF TypeInv
<1>i. JobInv
  BY DEF TypeInv
<1>1. b.pc = "renew" /\ b.op \in {"update", "resume"} /\ UNCHANGED <<registry, serving, config>>
  BY <1>0 DEF Renew, IsJob, Operations, Phases
<1>2. PICK x, a : x = Fresh /\ a = b.items[b.i].addr
  OBVIOUS
<1>3. /\ ParseOK(a) /\ Parsed(a)
      /\ job' = [job EXCEPT ![e].pc = "reregister", ![e].held[b.i] = x]
  <2>1. ~ParseFails(a)
    BY DEF ParseFails
  <2> QED BY <1>2, <2>1 DEF Renew, Current
<1>4. PICK h : h = [b.held EXCEPT ![b.i] = x]
  OBVIOUS
<1>5. /\ j.op = b.op /\ j.pc = "reregister" /\ j.items = b.items /\ j.i = b.i /\ j.held = h
  <2>2. PICK c : c = [b EXCEPT !.pc = "reregister"]
    OBVIOUS
  <2>3. c = [op |-> b.op, pc |-> "reregister", items |-> b.items, i |-> b.i, held |-> b.held]
    BY <1>0, <2>2 DEF IsJob
  <2>4. PICK d : d = [c EXCEPT !.held = h]
    OBVIOUS
  <2>5. d = [op |-> b.op, pc |-> "reregister", items |-> b.items, i |-> b.i, held |-> h]
    BY <2>3, <2>4
  <2>6. [c EXCEPT !.held[b.i] = x] = [c EXCEPT !.held = h]
    BY <1>4, <2>3
  <2>7. job' = [job EXCEPT ![e] = [[b EXCEPT !.pc = "reregister"] EXCEPT !.held[b.i] = x]]
    BY <1>3
  <2>8. job' = [job EXCEPT ![e] = d]
    BY <2>2, <2>4, <2>6, <2>7
  <2>9. d = job'[e]
    BY <1>e, <1>i, <2>8 DEF JobInv
  <2> QED BY <2>5, <2>9
<1>6. /\ x \in Ids /\ bound'[x] = a
      /\ \A id \in Ids \ {x} : bound'[id] = bound[id]
      /\ \A n \in Names : registry[n] # x
      /\ \A k \in DOMAIN b.held : b.held[k] # x
  BY <1>2, <1>3, <1>e, ParsedView
<1>7. DOMAIN h = DOMAIN b.held /\ b.i \in DOMAIN b.held /\ h[b.i] = x
      /\ \A k \in DOMAIN b.held : k # b.i => h[k] = b.held[k]
  <2>1. b.i \in 1..Len(b.items) /\ Len(b.held) = Len(b.items)
    BY <1>0, <1>1 DEF Working, OnHeld, IsJob, JobOK
  <2>2. b.i \in DOMAIN b.held
    BY <1>0, <2>1 DEF IsJob
  <2> QED BY <1>4, <2>2
<1>8. Registered' = Registered /\ Unshared' /\ \A n \in Registered : n \in Names
  BY <1>1 DEF Registered, Unshared
<1>9. \A n \in Registered : SameView(n)
  <2> SUFFICES ASSUME NEW n \in Registered PROVE SameView(n)
    OBVIOUS
  <2>1. registry[n] \in Ids \ {x}
    BY <1>6, <1>8, RegistryType
  <2> QED BY <1>1, <1>6, <2>1, EntrySame DEF SameView
<1>10. Handled(j) = Handled(b)
  BY <1>1, <1>5 DEF Handled, OnHeld
<1>11. \A n \in Names : Ready(j, n)'
  <2> SUFFICES ASSUME NEW n \in Names, n \in Registered PROVE Ready(j, n)'
    BY <1>8 DEF Ready
  <2> QED BY <1>1, <1>5, <1>9, <1>10, CarriedReady
<1>12. Lent(j)'
  <2>1. \A k \in DOMAIN h, n \in Registered : registry[n] = h[k] => n = b.items[k].name
    BY <1>6, <1>7, <1>8 DEF Going, Lent
  <2>2. ASSUME NEW k \in DOMAIN h, NEW l \in DOMAIN h, h[k] = h[l]
        PROVE  b.items[k].name = b.items[l].name
    <3>1. k = l \/ (k # b.i /\ l # b.i)
      BY <1>6, <1>7, <2>2
    <3> QED BY <1>7, <2>2, <3>1 DEF Going, Lent
  <2> QED BY <1>1, <1>5, <1>8, <2>1, <2>2 DEF Lent
<1>13. Opened(j)'
  BY <1>1, <1>2, <1>5, <1>6, <1>7 DEF Opened
<1>14. Asked(j)'
  <2>1. \A n : AddrOf(n)' = AddrOf(n) /\ EntriesOf(n)' = EntriesOf(n)
    BY <1>1, EntrySame, EntriesKept
  <2>2. Asked(b)
    BY DEF Going
  <2> QED BY <1>1, <1>5, <2>1, <2>2 DEF Asked
<1> QED BY <1>5, <1>8, <1>11, <1>12, <1>13, <1>14 DEF Going

LEMMA ReregisterGoing ==
    ASSUME TypeInv, NEW e \in Sockets, failures = 0, failures' = 0, Unshared, Reregister(e),
           NEW b, b = job[e], Going(b), Phase(b), NEW j, j = job'[e]
    PROVE  Unshared' /\ Going(j)'
<1>e. e \in Executors
  BY DEF Executors
<1>0. IsJob(e, b)
  BY <1>e, JobFields DEF TypeInv
<1>i. JobInv
  BY DEF TypeInv
<1>1. b.pc = "reregister" /\ b.op \in {"update", "resume"} /\ UNCHANGED config
  BY <1>0 DEF Reregister, IsJob, Operations, Phases
<1>2. PICK n, id : n = b.items[b.i].name /\ id = b.held[b.i]
  OBVIOUS
<1>3. /\ b.i \in 1..Len(b.items) /\ n \in Names /\ id \in Ids /\ b.i \in DOMAIN b.held
      /\ DOMAIN b.items = 1..Len(b.items) /\ Len(b.items) \in Nat /\ Present(b) = {n}
  <2>1. b.i \in 1..Len(b.items) /\ b.held[b.i] \in Ids
    BY <1>e, <1>1, <1>i, CurrentType DEF Working, OnHeld
  <2>2. n \in Names /\ Present(b) = {n}
    BY <1>0, <1>2, <2>1, WorkedOn
  <2>3. Len(b.held) = Len(b.items)
    BY <1>0, <1>1 DEF OnHeld, IsJob, JobOK
  <2> QED BY <1>0, <1>2, <2>1, <2>2, <2>3 DEF IsJob
<1>4. n \notin Registered
  <2>1. Old(b) = {n} /\ New(b) = {}
    BY <1>1, <1>3 DEF Old, New
  <2>2. Books({}, {n})
    BY <1>1, <2>1 DEF Phase
  <2> QED BY <1>3, <2>2 DEF Books, Gone
<1>5. /\ registry' = [registry EXCEPT ![n] = id] /\ serving' = serving \cup {id}
      /\ Each(e, "close", "config") /\ UNCHANGED bound
  BY <1>2, <1>4 DEF Reregister, Current
<1>6. /\ Registered' = Registered \cup {n}
      /\ registry'[n] = id
      /\ \A m \in Registered : m # n /\ registry'[m] = registry[m] /\ registry[m] # id
      /\ Unshared'
  <2>1. \A m \in Registered : registry[m] # id
    BY <1>2, <1>3, <1>4 DEF Going, Lent
  <2>2. n \in Names \ Registered /\ id \in Ids
    BY <1>3, <1>4
  <2>3. /\ Registered' = Registered \cup {n}
        /\ registry'[n] = id
        /\ \A m \in Registered : m # n /\ registry'[m] = registry[m]
        /\ Unshared'
    BY <1>5, <2>1, <2>2, AddedView
  <2> QED BY <2>1, <2>3
<1>7. /\ j.op = b.op /\ j.items = b.items /\ j.held = b.held
      /\ j.pc = IF b.i < Len(b.items) THEN "close" ELSE "config"
      /\ j.i = IF b.i < Len(b.items) THEN b.i + 1 ELSE 1
  BY <1>e, <1>5, <1>i, EachPlace
<1>8. Handled(j) = 1..b.i /\ Handled(b) = 1..(b.i - 1) /\ 1..b.i = 1..(b.i - 1) \cup {b.i}
  <2>1. CASE b.i < Len(b.items)
    <3>1. j.pc = "close" /\ j.i - 1 = b.i
      BY <1>3, <1>7, <2>1
    <3> QED BY <1>1, <1>3, <3>1 DEF Handled, OnHeld
  <2>2. CASE ~(b.i < Len(b.items))
    <3>1. j.pc = "config" /\ Len(b.items) = b.i
      BY <1>3, <1>7, <2>2
    <3> QED BY <1>1, <1>3, <1>7, <3>1 DEF Handled, OnHeld
  <2> QED BY <2>1, <2>2
<1>9. \A m \in Registered : SameView(m)
  BY <1>1, <1>5, <1>6, EntrySame DEF SameView
<1>10. ASSUME NEW m \in Names, m \in Registered' PROVE Seen(j, 1..b.i, m)'
  <2>1. CASE m = n
    <3>1. Runs(n, b.items[b.i].addr)'
      <4>1. bound[id] = b.items[b.i].addr
        BY <1>1, <1>2 DEF Going, Opened
      <4> QED BY <1>5, <1>6, <4>1 DEF Runs
    <3>2. As(j, n, b.i)'
      BY <1>1, <1>7, <3>1 DEF As
    <3>3. \A l \in 1..b.i : l <= b.i
      BY <1>3
    <3>4. b.i \in 1..b.i /\ j.items[b.i].name = n
      BY <1>2, <1>3, <1>7
    <3> QED BY <2>1, <3>2, <3>3, <3>4 DEF Seen
  <2>2. CASE m \in Registered
    <3>1. PICK H : H = 1..(b.i - 1)
      OBVIOUS
    <3>2. SameView(m) /\ Seen(b, H, m)
      BY <1>1, <1>8, <1>9, <1>10, <2>2, <3>1 DEF Going, Ready
    <3>3. Seen(j, H, m)'
      BY <1>1, <1>7, <3>2, SeenKept
    <3>4. 1..b.i = H \cup {b.i} /\ j.items[b.i].name # m
      BY <1>2, <1>6, <1>7, <1>8, <2>2, <3>1
    <3> QED BY <3>3, <3>4 DEF Seen
  <2> QED BY <1>6, <1>10, <2>1, <2>2
<1>11. \A m \in Names : Ready(j, m)'
  BY <1>8, <1>10 DEF Ready
<1>12. Lent(j)'
  <2>1. ASSUME NEW k \in DOMAIN b.held, NEW m \in Registered', registry'[m] = b.held[k]
        PROVE  m = b.items[k].name
    BY <1>2, <1>3, <1>6, <2>1 DEF Going, Lent
  <2> QED BY <1>7, <2>1 DEF Going, Lent
<1>13. Opened(j)' /\ j.pc \notin {"undo", "load"}
  BY <1>1, <1>7 DEF Opened
<1>14. Asked(j)'
  <2>1. \A m : AddrOf(m)' = AddrOf(m) /\ EntriesOf(m)' = EntriesOf(m)
    BY <1>1, EntrySame, EntriesKept
  <2>2. Asked(b)
    BY DEF Going
  <2> QED BY <1>1, <1>7, <2>1, <2>2 DEF Asked
<1> QED BY <1>6, <1>11, <1>12, <1>13, <1>14 DEF Going

LEMMA DeleteCloseGoing ==
    ASSUME TypeInv, NEW e \in Sockets, failures = 0, failures' = 0, Unshared, DeleteClose(e),
           NEW b, b = job[e], Going(b), Phase(b), NEW j, j = job'[e]
    PROVE  Unshared' /\ Going(j)'
<1>e. e \in Executors
  BY DEF Executors
<1>0. IsJob(e, b)
  BY <1>e, JobFields DEF TypeInv
<1>i. JobInv
  BY DEF TypeInv
<1>1. b.pc = "closeFound" /\ b.op = "delete" /\ UNCHANGED <<registry, config>>
  BY <1>0 DEF DeleteClose, IsJob, Operations, Phases
<1>2. PICK id : id = b.held[b.i]
  OBVIOUS
<1>3. Close({id}) /\ Each(e, "unload", "config")
  BY <1>2 DEF DeleteClose
<1>4. /\ b.i \in 1..Len(b.items) /\ b.i \in DOMAIN b.held
      /\ DOMAIN b.items = 1..Len(b.items) /\ Len(b.items) \in Nat
  <2>1. b.i \in 1..Len(b.items) /\ Len(b.held) = Len(b.items)
    BY <1>0, <1>1 DEF Working, OnHeld, IsJob, JobOK
  <2> QED BY <1>0, <2>1 DEF IsJob
<1>5. \A n \in Registered : n \notin Past(b) \cup Present(b) /\ n \in Names
  <2>1. Old(b) = Past(b) \cup Present(b) /\ New(b) = {}
    BY <1>1 DEF Old, New
  <2>2. Books({}, Past(b) \cup Present(b))
    BY <1>1, <2>1 DEF Phase
  <2>3. \A n \in Registered : n \in Names
    BY DEF Registered
  <2> QED BY <2>2, <2>3 DEF Books, Gone
<1>6. \A n \in Registered : \A k \in 1..b.i : b.items[k].name # n
  <2>1. \A k \in 1..b.i : k \in 1..(b.i - 1) \/ k = b.i
    BY <1>4
  <2> QED BY <1>5, <2>1 DEF Past, Present
<1>7. /\ j.op = b.op /\ j.items = b.items /\ j.held = b.held
      /\ j.pc = IF b.i < Len(b.items) THEN "unload" ELSE "config"
      /\ j.i = IF b.i < Len(b.items) THEN b.i + 1 ELSE 1
  BY <1>e, <1>3, <1>i, EachPlace
<1>8. Handled(j) = 1..b.i /\ Handled(b) = 1..(b.i - 1) /\ 1..(b.i - 1) \subseteq 1..b.i
  <2>1. CASE b.i < Len(b.items)
    <3>1. j.pc = "unload" /\ j.i - 1 = b.i
      BY <1>4, <1>7, <2>1
    <3> QED BY <1>1, <1>4, <3>1 DEF Handled, OnHeld
  <2>2. CASE ~(b.i < Len(b.items))
    <3>1. j.pc = "config" /\ Len(b.items) = b.i
      BY <1>4, <1>7, <2>2
    <3> QED BY <1>1, <1>4, <1>7, <3>1 DEF Handled, OnHeld
  <2> QED BY <2>1, <2>2
<1>9. \A n \in Registered : Right(n)
  <2> SUFFICES ASSUME NEW n \in Registered PROVE Right(n)
    OBVIOUS
  <2>1. Seen(b, 1..(b.i - 1), n)
    BY <1>1, <1>5, <1>8 DEF Going, Ready
  <2>2. \A k \in 1..(b.i - 1) : b.items[k].name # n
    BY <1>6, <1>8
  <2> QED BY <2>1, <2>2, SeenNever
<1>10. \A n \in Registered : SameView(n)
  <2> SUFFICES ASSUME NEW n \in Registered PROVE SameView(n)
    OBVIOUS
  <2>1. registry[n] # id
    BY <1>2, <1>4, <1>6 DEF Going, Lent
  <2>2. registry[n] \in Ids \ {id}
    BY <2>1, RegistryType
  <2>3. \A x \in Ids \ {id} : bound'[x] = bound[x] /\ (x \in serving' <=> x \in serving)
    BY <1>3, ClosedView
  <2> QED BY <1>1, <2>2, <2>3, EntrySame DEF SameView
<1>11. Registered' = Registered /\ Unshared'
  BY <1>1 DEF Registered, Unshared
<1>12. \A n \in Names : Ready(j, n)'
  <2> SUFFICES ASSUME NEW n \in Names, n \in Registered PROVE Ready(j, n)'
    BY <1>11 DEF Ready
  <2>1. Right(n)'
    BY <1>9, <1>10, ViewKept
  <2>2. \A k \in 1..b.i : j.items[k].name # n
    BY <1>6, <1>7
  <2>3. Seen(j, 1..b.i, n)'
    BY <2>1, <2>2 DEF Seen
  <2> QED BY <1>8, <2>3 DEF Ready
<1>13. Lent(j)' /\ Opened(j)' /\ Asked(j)'
  BY <1>1, <1>7, <1>11, Carried
<1>14. j.pc \notin {"undo", "load"}
  BY <1>7
<1> QED BY <1>11, <1>12, <1>13, <1>14 DEF Going

LEMMA PauseStopGoing ==
    ASSUME TypeInv, NEW e \in Sockets, failures = 0, failures' = 0, Unshared, PauseStop(e),
           NEW b, b = job[e], Going(b), Phase(b), NEW j, j = job'[e]
    PROVE  Unshared' /\ Going(j)'
<1>e. e \in Executors
  BY DEF Executors
<1>0. IsJob(e, b)
  BY <1>e, JobFields DEF TypeInv
<1>i. JobInv
  BY DEF TypeInv
<1>1. b.pc = "stop" /\ b.op = "pause" /\ UNCHANGED <<registry, config>>
  BY DEF PauseStop, At
<1>2. PICK n, id : n = b.items[b.i].name /\ id = b.held[b.i]
  OBVIOUS
<1>4. /\ b.i \in 1..Len(b.items) /\ b.i \in DOMAIN b.held /\ b.i \in DOMAIN b.items
      /\ DOMAIN b.items = 1..Len(b.items) /\ Len(b.items) \in Nat
  <2>1. b.i \in 1..Len(b.items) /\ Len(b.held) = Len(b.items)
    BY <1>0, <1>1 DEF Working, OnHeld, IsJob, JobOK
  <2> QED BY <1>0, <2>1 DEF IsJob
<1>5. Current(e).addr # NoAddr
  <2>1. EntriesOf(n) # {} /\ b.items[b.i].addr = AddrOf(n)
    BY <1>1, <1>2, <1>4 DEF Going, Asked
  <2>2. config[FirstOf(n)] \in Entry
    BY <2>1, FirstOfType DEF TypeInv, TypeOK
  <2>3. AddrOf(n) \in Addrs
    BY <2>1, <2>2 DEF AddrOf, Entry
  <2> QED BY <2>1, <2>3, ServicesAssumption DEF Current
<1>6. Close({id}) /\ Each(e, "stop", "config")
  BY <1>2, <1>5 DEF PauseStop
<1>7. registry[n] = id
  BY <1>1, <1>2, <1>4 DEF Going, Opened
<1>8. /\ j.op = b.op /\ j.items = b.items /\ j.held = b.held
      /\ j.pc = IF b.i < Len(b.items) THEN "stop" ELSE "config"
      /\ j.i = IF b.i < Len(b.items) THEN b.i + 1 ELSE 1
  BY <1>e, <1>6, <1>i, EachPlace
<1>9. Handled(j) = 1..b.i /\ Handled(b) = 1..(b.i - 1) /\ 1..b.i = 1..(b.i - 1) \cup {b.i}
  <2>1. CASE b.i < Len(b.items)
    <3>1. j.pc = "stop" /\ j.i - 1 = b.i
      BY <1>4, <1>8, <2>1
    <3> QED BY <1>1, <1>4, <3>1 DEF Handled, OnHeld
  <2>2. CASE ~(b.i < Len(b.items))
    <3>1. j.pc = "config" /\ Len(b.items) = b.i
      BY <1>4, <1>8, <2>2
    <3> QED BY <1>1, <1>4, <1>8, <3>1 DEF Handled, OnHeld
  <2> QED BY <2>1, <2>2
<1>10. Registered' = Registered /\ Unshared'
  BY <1>1 DEF Registered, Unshared
<1>11. ASSUME NEW m \in Registered, m # n PROVE SameView(m)
  <2>1. registry[m] # id
    BY <1>2, <1>4, <1>11 DEF Going, Lent
  <2>2. registry[m] \in Ids \ {id}
    BY <2>1, RegistryType
  <2>3. \A x \in Ids \ {id} : bound'[x] = bound[x] /\ (x \in serving' <=> x \in serving)
    BY <1>6, ClosedView
  <2> QED BY <1>1, <2>2, <2>3, EntrySame DEF SameView
<1>12. ASSUME NEW m \in Names, m \in Registered PROVE Seen(j, 1..b.i, m)'
  <2>1. CASE m = n
    <3>1. Shut(n)'
      <4>1. id \notin serving'
        BY <1>6, ClosedView
      <4> QED BY <1>1, <1>7, <4>1 DEF Shut
    <3>2. As(j, n, b.i)'
      BY <1>1, <1>8, <3>1 DEF As
    <3>3. \A l \in 1..b.i : l <= b.i
      BY <1>4
    <3>4. b.i \in 1..b.i /\ j.items[b.i].name = n
      BY <1>2, <1>4, <1>8
    <3> QED BY <2>1, <3>2, <3>3, <3>4 DEF Seen
  <2>2. CASE m # n
    <3>1. PICK H : H = 1..(b.i - 1)
      OBVIOUS
    <3>2. SameView(m) /\ Seen(b, H, m)
      BY <1>1, <1>9, <1>11, <1>12, <2>2, <3>1 DEF Going, Ready
    <3>3. Seen(j, H, m)'
      BY <1>1, <1>8, <3>2, SeenKept
    <3>4. 1..b.i = H \cup {b.i} /\ j.items[b.i].name # m
      BY <1>2, <1>8, <1>9, <2>2, <3>1
    <3> QED BY <3>3, <3>4 DEF Seen
  <2> QED BY <2>1, <2>2
<1>13. \A m \in Names : Ready(j, m)'
  BY <1>9, <1>10, <1>12 DEF Ready
<1>14. Lent(j)' /\ Opened(j)' /\ Asked(j)'
  BY <1>1, <1>8, <1>10, Carried
<1>15. j.pc \notin {"undo", "load"}
  BY <1>8
<1> QED BY <1>10, <1>13, <1>14, <1>15 DEF Going

(* An entry that a delete leaves in the configuration.                     *)
LEMMA LeftEntry ==
    ASSUME config \in Seq(Entry), NEW names, NEW n, n \notin names, NEW q, EntriesOf(n) = {q},
           NEW K, K = {k \in DOMAIN config : config[k].name \notin names}, config' = Only(config, K)
    PROVE  EntriesOf(n)' = {Rank(K, q)} /\ config'[Rank(K, q)] = config[q]
<1>2. PICK c, t : c = config /\ t = Only(c, K)
  OBVIOUS
<1>3. c \in Seq(Entry) /\ K \in SUBSET (DOMAIN c) /\ t = config'
  BY <1>2
<1>4. {q} \in SUBSET K /\ \A k \in K : c[k].name = n <=> k = q
  BY <1>2 DEF EntriesOf
<1>5. \A i \in DOMAIN t : Place(K, i) \in K /\ t[i] = c[Place(K, i)]
  <2>1. \A i \in DOMAIN Only(c, K) : Place(K, i) \in K /\ Only(c, K)[i] = c[Place(K, i)]
    BY <1>3, OnlyType
  <2> QED BY <1>2, <2>1
<1>6. Where(c, K, {q}) = {Rank(K, q)}
  BY <1>3, <1>4, OnlyOnce
<1>7. EntriesOf(n)' = Where(c, K, {q})
  <2>1. EntriesOf(n)' = {i \in DOMAIN t : t[i].name = n}
    BY <1>3 DEF EntriesOf
  <2>2. \A i \in DOMAIN t : t[i].name = n <=> Place(K, i) \in {q}
    BY <1>4, <1>5
  <2> QED BY <1>2, <2>1, <2>2 DEF Where
<1>8. PICK i : i = Rank(K, q)
  OBVIOUS
<1>9. i \in Where(c, K, {q})
  BY <1>6, <1>8
<1>10. i \in DOMAIN t /\ Place(K, i) = q
  BY <1>2, <1>9 DEF Where
<1>11. config'[i] = config[q]
  BY <1>2, <1>3, <1>5, <1>10
<1> QED BY <1>6, <1>7, <1>8, <1>11

(* The only entry of a service, paused or resumed.                         *)
LEMMA PausedEntry ==
    ASSUME config \in Seq(Entry), NEW names, NEW p \in BOOLEAN, config' = SetPaused(config, names, p),
           NEW n, NEW q, EntriesOf(n) = {q}
    PROVE  /\ EntriesOf(n)' = {q}
           /\ n \notin names => config'[q] = config[q]
           /\ n \in names => config'[q].addr = config[q].addr /\ config'[q].paused = p
<1>1. EntriesOf(n)' = {q}
  BY NamesKept
<1>2. q \in DOMAIN config /\ config[q].name = n /\ \A l \in DOMAIN config : config[l].name = n => l = q
  BY DEF EntriesOf
<1>3. \A l \in 1..(q - 1) : l \in DOMAIN config /\ l # q
  <2>1. DOMAIN config = 1..Len(config) /\ Len(config) \in Nat
    OBVIOUS
  <2> QED BY <1>2, <2>1
<1>4. \A l \in 1..(q - 1) : config[l].name # config[q].name
  BY <1>2, <1>3
<1>5. config'[q] = IF n \in names THEN [config[q] EXCEPT !.paused = p] ELSE config[q]
  BY <1>2, <1>4 DEF SetPaused
<1>6. config[q] \in Entry
  BY <1>2
<1>7. n \in names => config'[q].addr = config[q].addr /\ config'[q].paused = p
  BY <1>5, <1>6 DEF Entry
<1> QED BY <1>1, <1>5, <1>7

LEMMA ConfigureGoing ==
    ASSUME TypeInv, NEW e \in Sockets, failures = 0, failures' = 0, Unshared, Configure(e),
           NEW b, b = job[e], Going(b), Phase(b), NEW j, j = job'[e]
    PROVE  Unshared' /\ Going(j)'
<1>e. e \in Executors
  BY DEF Executors
<1>0. IsJob(e, b)
  BY <1>e, JobFields DEF TypeInv
<1>i. JobInv
  BY DEF TypeInv
<1>1. /\ b.pc = "config" /\ b.op \in {"update", "delete", "pause", "resume"} /\ Finish(e)
      /\ config' = NewConfig(e) /\ UNCHANGED <<registry, bound, serving>>
  BY DEF Configure
<1>2. Registered' = Registered /\ Unshared'
  BY <1>1 DEF Registered, Unshared
<1>3. PICK names : names = {s.name : s \in ToSet(b.items)}
  OBVIOUS
<1>4. config \in Seq(Entry)
  BY DEF TypeInv, TypeOK
<1>5. \A n : n \in names <=> \E k \in DOMAIN b.items : b.items[k].name = n
  BY <1>3 DEF ToSet
<1>6. ASSUME NEW n \in Registered
      PROVE  Once(n) /\ (b.op = "delete" => n \notin names) /\ Seen(b, DOMAIN b.items, n)
  <2>1. Books({}, Old(b))
    <3>1. New(b) = {}
      BY <1>1 DEF New
    <3> QED BY <1>1, <3>1 DEF Phase
  <2>2. n \in Names
    BY DEF Registered
  <2>3. Matches(n) /\ n \notin Old(b)
    BY <2>1, <2>2 DEF Books, Gone
  <2>4. b.op = "delete" => n \notin Whole(b)
    BY <1>1, <2>3 DEF Old
  <2>5. Seen(b, DOMAIN b.items, n)
    BY <1>1, <2>2 DEF Going, Ready, Handled
  <2> QED BY <1>5, <2>3, <2>4, <2>5 DEF Matches, Whole
<1>7. ASSUME NEW n \in Registered, NEW q, EntriesOf(n) = {q}, NEW i, EntriesOf(n)' = {i},
             config'[i] = config[q], n \notin names
      PROVE  Right(n)'
  <2>1. Right(n)
    BY <1>5, <1>6, <1>7, SeenNever
  <2>2. AddrOf(n)' = AddrOf(n) /\ (IsPaused(n)' <=> IsPaused(n))
    BY <1>7, OnlyEntry, NextEntry
  <2>3. SameView(n)
    BY <1>1, <2>2 DEF SameView
  <2> QED BY <2>1, <2>3, ViewKept
<1>8. ASSUME NEW n \in Registered, NEW q, EntriesOf(n) = {q}, n \in names
      PROVE  \E k \in DOMAIN b.items : /\ b.items[k].name = n /\ As(b, n, k)
                                       /\ \A l \in DOMAIN b.items : b.items[l].name = n => l <= k
  BY <1>5, <1>6, <1>8 DEF Seen
<1>9. CASE b.op = "delete"
  <2>1. PICK K : K = {k \in DOMAIN config : config[k].name \notin names}
    OBVIOUS
  <2>4. config' = Only(config, K)
    BY <1>1, <1>3, <1>9, <2>1 DEF NewConfig
  <2>2. ASSUME NEW n \in Registered PROVE Right(n)'
    <3>1. PICK q : EntriesOf(n) = {q}
      BY <1>6 DEF Once
    <3>2. n \notin names
      BY <1>6, <1>9
    <3>3. EntriesOf(n)' = {Rank(K, q)} /\ config'[Rank(K, q)] = config[q]
      BY ONLY <1>4, <2>1, <2>4, <3>1, <3>2, LeftEntry
    <3> QED BY <1>7, <3>1, <3>2, <3>3
  <2>3. \A n \in Registered' : Right(n)'
    BY <1>2, <2>2
  <2> QED BY <1>1, <1>2, <1>e, <1>i, <2>3, RestsGoing
<1>10. CASE b.op \in {"pause", "resume"}
  <2>1. PICK p \in BOOLEAN : p = (b.op = "pause")
    OBVIOUS
  <2>2. config' = SetPaused(config, names, p)
    BY <1>1, <1>3, <1>10, <2>1 DEF NewConfig
  <2>3. ASSUME NEW n \in Registered PROVE Right(n)'
    <3>1. PICK q : EntriesOf(n) = {q}
      BY <1>6 DEF Once
    <3>2. /\ EntriesOf(n)' = {q}
          /\ n \notin names => config'[q] = config[q]
          /\ n \in names => config'[q].addr = config[q].addr /\ config'[q].paused = p
      BY ONLY <1>4, <2>2, <3>1, PausedEntry
    <3>3. CASE n \notin names
      BY <1>7, <3>1, <3>2, <3>3
    <3>4. CASE n \in names
      <4>1. PICK k \in DOMAIN b.items : b.items[k].name = n /\ As(b, n, k)
        BY <1>8, <3>1, <3>4
      <4>2. AddrOf(n)' = config[q].addr /\ (IsPaused(n)' <=> p)
        BY <3>2, <3>4, NextEntry
      <4>3. b.items[k].addr = config[q].addr
        <5>1. b.items[k].addr = AddrOf(n)
          BY <1>1, <1>10, <4>1 DEF Going, Asked
        <5> QED BY <3>1, <5>1, OnlyEntry
      <4>4. CASE b.op = "pause"
        <5>1. Shut(n)
          BY <4>1, <4>4 DEF As
        <5> QED BY <1>1, <2>1, <4>2, <4>4, <5>1 DEF Right, Shut
      <4>5. CASE b.op = "resume"
        <5>1. Runs(n, b.items[k].addr)
          BY <4>1, <4>5 DEF As
        <5> QED BY <1>1, <2>1, <4>2, <4>3, <4>5, <5>1 DEF Right, Runs
      <4> QED BY <1>10, <4>4, <4>5
    <3> QED BY <3>3, <3>4
  <2>4. \A n \in Registered' : Right(n)'
    BY <1>2, <2>3
  <2> QED BY <1>1, <1>2, <1>e, <1>i, <2>4, RestsGoing
<1>11. CASE b.op = "update"
  <2> DEFINE Latest(n) == CHOOSE k \in DOMAIN b.items :
                          b.items[k].name = n /\ \A l \in DOMAIN b.items :
                                                   b.items[l].name = n => l <= k
  <2>1. config' = [k \in DOMAIN config |->
                     IF config[k].name \in names /\ k = FirstOf(config[k].name)
                     THEN [name |-> config[k].name, paused |-> FALSE,
                           addr |-> b.items[Latest(config[k].name)].addr]
                     ELSE config[k]]
    BY <1>1, <1>3, <1>11 DEF NewConfig
  <2>2. ASSUME NEW n, NEW k \in DOMAIN b.items, b.items[k].name = n,
               \A l \in DOMAIN b.items : b.items[l].name = n => l <= k
        PROVE  Latest(n) = k
    <3>1. /\ Latest(n) \in DOMAIN b.items /\ b.items[Latest(n)].name = n
          /\ \A l \in DOMAIN b.items : b.items[l].name = n => l <= Latest(n)
      BY <2>2
    <3>2. Latest(n) <= k /\ k <= Latest(n)
      BY <2>2, <3>1
    <3>3. DOMAIN b.items = 1..Len(b.items) /\ Len(b.items) \in Nat
      BY <1>0 DEF IsJob
    <3> HIDE DEF Latest
    <3> QED BY <3>1, <3>2, <3>3
  <2> HIDE DEF Latest
  <2>3. /\ DOMAIN config' = DOMAIN config
        /\ \A k \in DOMAIN config : config'[k].name = config[k].name
    BY <2>1
  <2>4. ASSUME NEW n \in Registered PROVE Right(n)'
    <3>1. PICK q : EntriesOf(n) = {q}
      BY <1>6 DEF Once
    <3>2. q \in DOMAIN config /\ config[q].name = n /\ FirstOf(n) = q
      BY <3>1 DEF EntriesOf, FirstOf
    <3>3. EntriesOf(n)' = {q}
      BY <2>3, <3>1 DEF EntriesOf
    <3>4. CASE n \notin names
      <4>1. config'[q] = config[q]
        BY <2>1, <3>2, <3>4
      <4> QED BY <1>7, <3>1, <3>3, <3>4, <4>1
    <3>5. CASE n \in names
      <4>1. PICK k \in DOMAIN b.items : /\ b.items[k].name = n /\ As(b, n, k)
                                        /\ \A l \in DOMAIN b.items : b.items[l].name = n => l <= k
        BY <1>8, <3>1, <3>5
      <4>2. Latest(n) = k
        BY <2>2, <4>1
      <4>3. config'[q] = [name |-> n, paused |-> FALSE, addr |-> b.items[k].addr]
        BY <2>1, <3>2, <3>5, <4>2
      <4>4. AddrOf(n)' = b.items[k].addr /\ ~IsPaused(n)'
        BY <3>3, <4>3, NextEntry
      <4>5. Runs(n, b.items[k].addr)
        BY <1>11, <4>1 DEF As
      <4> QED BY <1>1, <4>4, <4>5 DEF Right, Runs
    <3> QED BY <3>4, <3>5
  <2>5. \A n \in Registered' : Right(n)'
    BY <1>2, <2>4
  <2> QED BY <1>1, <1>2, <1>e, <1>i, <2>5, RestsGoing
<1> QED BY <1>1, <1>9, <1>10, <1>11

LEMMA SaveGoing ==
    ASSUME TypeInv, NEW e \in Sockets, failures = 0, failures' = 0, Unshared,
           SaveCreate(e) \/ SaveWrite(e),
           NEW b, b = job[e], Going(b), Phase(b), NEW j, j = job'[e]
    PROVE  Unshared' /\ Going(j)'
<1>e. e \in Executors
  BY DEF Executors
<1>i. JobInv
  BY DEF TypeInv
<1>1. /\ b.pc \in {"create", "write"} /\ b.op = "save"
      /\ UNCHANGED <<registry, bound, serving, config>>
  BY DEF SaveCreate, SaveWrite, At
<1>2. Registered' = Registered /\ Unshared'
  BY <1>1 DEF Registered, Unshared
<1>3. \A n \in Registered : SameView(n)
  BY <1>1, EntrySame DEF SameView
<1>4. CASE SaveCreate(e)
  <2>1. GoTo(e, "write")
    BY <1>4 DEF SaveCreate
  <2>2. /\ j.pc = "write" /\ j.op = b.op /\ j.items = b.items /\ j.i = b.i /\ j.held = b.held
    BY <1>e, <1>i, <2>1, GoToPlace
  <2>3. Handled(j) = Handled(b)
    BY <1>1, <2>2 DEF Handled, OnHeld
  <2>4. \A n \in Names : Ready(j, n)'
    <3> SUFFICES ASSUME NEW n \in Names, n \in Registered PROVE Ready(j, n)'
      BY <1>2 DEF Ready
    <3> QED BY <1>1, <1>3, <2>2, <2>3, CarriedReady
  <2>5. Lent(j)' /\ Opened(j)' /\ Asked(j)'
    BY <1>1, <1>2, <2>2, Carried
  <2> QED BY <1>2, <2>2, <2>4, <2>5 DEF Going
<1>5. CASE SaveWrite(e)
  <2>1. Handled(b) = {}
    BY <1>1 DEF Handled, OnHeld
  <2>2. \A n \in Registered : Right(n)
    BY <1>1, <2>1, ReadyRight
  <2>3. \A n \in Registered' : Right(n)'
    BY <1>2, <1>3, <2>2, ViewKept
  <2>4. job' = [job EXCEPT ![e] = Idle]
    BY <1>5 DEF SaveWrite
  <2> QED BY <1>2, <1>e, <1>i, <2>3, <2>4, RestsGoing
<1> QED BY <1>4, <1>5

(* What a step of a job does to the history.                               *)
LEMMA StepHistory ==
    ASSUME NEW e, Step(e)
    PROVE  /\ failures' = failures \/ failures' = 1
           /\ loaded' = loaded \/ loaded' = TRUE
<1>1. CASE CreateParse(e) \/ Renew(e) \/ ReloadService(e)
  BY <1>1 DEF CreateParse, Renew, ReloadService, ParseFails
<1>2. CASE CloseOld(e)
  BY <1>2 DEF CloseOld, Panic, Stopped, history
<1>3. CASE CreateRegister(e) \/ CreateServe(e) \/ CreateConfig(e) \/ Check(e) \/ Unload(e)
           \/ Forget(e) \/ Reregister(e) \/ DeleteClose(e) \/ PauseStop(e)
  BY <1>3 DEF CreateRegister, CreateServe, CreateConfig, Check, Unload, Forget, Reregister,
              DeleteClose, PauseStop, history
<1>4. CASE UndoPause(e) \/ UndoResume(e) \/ Configure(e) \/ SaveCreate(e) \/ SaveWrite(e)
           \/ ReloadClear(e)
  BY <1>4 DEF UndoPause, UndoResume, Configure, SaveCreate, SaveWrite, ReloadClear, history
<1> QED BY <1>1, <1>2, <1>3, <1>4 DEF Step

LEMMA SocketGoing ==
    ASSUME TypeInv, NEW e \in Sockets, failures = 0, failures' = 0, Unshared, Step(e),
           NEW b, b = job[e], Going(b), Phase(b), NEW j, j = job'[e]
    PROVE  Unshared' /\ Going(j)'
<1>1. e \in Executors /\ e \notin Signals
  BY ServicesAssumption DEF Executors
<1>2. IsJob(e, b)
  BY <1>1, JobFields DEF TypeInv
<1>3. b.op # "reload" /\ b.pc # "undo"
  BY <1>1, <1>2 DEF IsJob, JobOK, Going
<1>4. ~(UndoPause(e) \/ UndoResume(e) \/ ReloadClear(e) \/ ReloadService(e))
  BY <1>3 DEF UndoPause, UndoResume, ReloadClear, ReloadService, At
<1>5. CASE CreateParse(e) \/ CreateRegister(e) \/ CreateServe(e) \/ CreateConfig(e)
  BY <1>5, CreateParseGoing, CreateRegisterGoing, CreateServeGoing, CreateConfigGoing
<1>6. CASE Check(e) \/ CloseOld(e) \/ Unload(e) \/ Forget(e)
  BY <1>6, CheckGoing, CloseOldGoing, UnloadGoing, ForgetGoing
<1>7. CASE Renew(e) \/ Reregister(e) \/ DeleteClose(e) \/ PauseStop(e)
  BY <1>7, RenewGoing, ReregisterGoing, DeleteCloseGoing, PauseStopGoing
<1>8. CASE Configure(e) \/ SaveCreate(e) \/ SaveWrite(e)
  BY <1>8, ConfigureGoing, SaveGoing
<1> QED BY <1>4, <1>5, <1>6, <1>7, <1>8 DEF Step

(* A reload that finds the file torn.                                      *)
LEMMA SignalGoing ==
    ASSUME TypeInv, NEW e \in Signals, ~loaded', Unshared, Step(e),
           NEW b, b = job[e], Going(b), NEW j, j = job'[e]
    PROVE  Unshared' /\ Going(j)'
<1>1. e \in Executors
  BY DEF Executors
<1>2. IsJob(e, b)
  BY <1>1, JobFields DEF TypeInv
<1>3. b.op = "reload" /\ b.pc = "clear"
  <2>1. b.pc # "idle"
    BY <1>1, StepShape
  <2>2. b.op = "reload"
    BY <1>2, <2>1 DEF IsJob, JobOK, Phases
  <2> QED BY <1>2, <2>2 DEF IsJob, Phases, Going
<1>4. ReloadClear(e)
  BY <1>3 DEF Step, CreateParse, CreateRegister, CreateServe, CreateConfig, Check,
     CloseOld, Unload, Forget, Renew, Reregister, DeleteClose, PauseStop, UndoPause,
     UndoResume, Configure, SaveCreate, SaveWrite, ReloadService, At
<1>5. Finish(e) /\ UNCHANGED <<registry, bound, serving, config>>
  BY <1>4 DEF ReloadClear
<1>6. Registered' = Registered /\ Unshared'
  BY <1>5 DEF Registered, Unshared
<1>7. \A n \in Registered : Right(n)
  <2>1. Handled(b) = {}
    BY <1>3 DEF Handled, OnHeld
  <2> QED BY <1>3, <2>1, ReadyRight
<1>8. \A n \in Registered : SameView(n)
  BY <1>5, EntrySame DEF SameView
<1>9. \A n \in Registered' : Right(n)'
  BY <1>6, <1>7, <1>8, ViewKept
<1>i. JobInv
  BY DEF TypeInv
<1> QED BY <1>1, <1>5, <1>6, <1>9, <1>i, RestsGoing

LEMMA RunStep ==
    ASSUME MatchInv, Quiet, RunInv, NEW e \in Executors, Step(e)
    PROVE  RunInv'
<1> SUFFICES ASSUME Calm' PROVE Running'
  BY DEF RunInv
<1>1. /\ job[e].pc # "idle" /\ UNCHANGED <<overlap, rest>>
      /\ Others(e) /\ up
  <2>1. /\ job[e].pc # "idle" /\ UNCHANGED <<overlap, rest>>
        /\ Stopped \/ (Usual(e) /\ UNCHANGED up)
    BY StepShape DEF MatchInv
  <2>2. ~Stopped
    BY DEF Calm, Stopped
  <2> QED BY <2>1, <2>2 DEF Usual, Calm
<1>2. Calm /\ failures = 0 /\ failures' = 0 /\ ~loaded'
  <2>1. (failures' = failures \/ failures' = 1) /\ (loaded' = loaded \/ loaded' = TRUE)
    BY StepHistory
  <2> QED BY <1>1, <2>1 DEF Calm
<1>3. Unshared /\ job[e] # Idle /\ Going(job[e]) /\ Phase(job[e])
  <2>1. Running /\ job[e] # Idle /\ ~overlap
    BY <1>1, <1>2, IdlePlace DEF RunInv, Calm
  <2> QED BY <2>1 DEF Running, MatchInv, BookInv
<1>4. \A f \in Executors \ {e} : job'[f] = Idle
  BY <1>1, <1>2, OthersIdle DEF MatchInv, Others, Calm
<1>5. PICK b, j : b = job[e] /\ j = job'[e]
  OBVIOUS
<1>6. Unshared' /\ Going(j)'
  <2>1. TypeInv
    BY DEF MatchInv
  <2>2. e \notin Requests
    BY <1>2, <1>3 DEF Quiet, Calm
  <2>3. CASE e \in Sockets
    BY <1>2, <1>3, <1>5, <2>1, <2>3, SocketGoing
  <2>4. CASE e \in Signals
    BY <1>2, <1>3, <1>5, <2>1, <2>4, SignalGoing
  <2> QED BY <2>2, <2>3, <2>4 DEF Executors
<1>7. ASSUME j = Idle, NEW n \in Registered' PROVE Right(n)'
  <2>1. j.pc = "idle"
    BY <1>7, IdlePlace
  <2>2. Ready(j, n)' /\ n \in Names
    BY <1>6, <1>7 DEF Going, Registered
  <2>3. Handled(j) = {}
    BY <2>1 DEF Handled, OnHeld
  <2>4. Seen(j, {}, n)'
    BY <1>7, <2>1, <2>2, <2>3 DEF Ready
  <2> QED BY <2>4 DEF Seen
<1> QED BY <1>4, <1>5, <1>6, <1>7 DEF Running

LEMMA RunBegin ==
    ASSUME MatchInv, RunInv, NEW e \in Executors, Commands(e)
    PROVE  RunInv'
<1> SUFFICES ASSUME Calm' PROVE Running'
  BY DEF RunInv
<1>1. PICK op \in Operations \ {"none", "save"}, items \in Seq(Item) : Begin(e, op, items)
  BY CommandBegins
<1>2. JobInv
  BY DEF MatchInv, TypeInv
<1>3. /\ UNCHANGED <<registry, bound, serving, config, up, failures, loaded>>
      /\ overlap' = (overlap \/ ~AtRest) /\ (rest => rest')
      /\ \A f \in Executors \ {e} : job'[f] = job[f]
  BY <1>1, <1>2 DEF Begin, JobInv
<1>4. Calm /\ AtRest
  BY <1>3 DEF Calm
<1>5. Unshared /\ \A n \in Registered : Right(n)
  BY <1>4 DEF RunInv, Running, AtRest
<1>6. Registered' = Registered /\ Unshared'
  BY <1>3, <1>5 DEF Registered, Unshared
<1>7. \A n \in Registered' : Right(n)'
  <2>1. \A n \in Registered : SameView(n)
    BY <1>3, EntrySame DEF SameView
  <2> QED BY <1>5, <1>6, <2>1, ViewKept
<1>8. PICK j : j = job'[e]
  OBVIOUS
<1>9. j = [op |-> op, pc |-> FirstPhase(op), items |-> items, i |-> 1, held |-> <<>>]
  BY <1>1, <1>2, <1>8, BeginPlace
<1>10. /\ j.pc \in {"parse", "clear", "check"} /\ j.op = op /\ DOMAIN j.held = {}
       /\ op \in {"pause", "resume"} => j.pc = "check"
  <2>1. /\ FirstPhase(op) \in {"parse", "clear", "check"}
        /\ op \in {"pause", "resume"} => FirstPhase(op) = "check"
    BY DEF FirstPhase
  <2> QED BY <1>9, <2>1
<1>11. \A n \in Names : Ready(j, n)'
  <2> SUFFICES ASSUME NEW n \in Names, n \in Registered' PROVE Ready(j, n)'
    BY DEF Ready
  <2>1. Handled(j) = {}
    BY <1>10 DEF Handled, OnHeld
  <2>2. Seen(j, {}, n)'
    BY <1>7 DEF Seen
  <2> QED BY <2>1, <2>2 DEF Ready
<1>12. Lent(j)' /\ Opened(j)' /\ Asked(j)'
  BY <1>10 DEF Lent, Opened, Asked
<1>13. Going(j)'
  BY <1>10, <1>11, <1>12 DEF Going
<1>14. \A f \in Executors \ {e} : job'[f] = Idle
  BY <1>3, <1>4 DEF AtRest
<1> QED BY <1>6, <1>7, <1>8, <1>13, <1>14 DEF Running

(* A step that touches no service and nothing a job holds.                 *)
LEMMA UntouchedGoing ==
    ASSUME NEW b, Going(b), UNCHANGED <<registry, config>>,
           \A n \in Registered : SameView(n),
           \A k \in DOMAIN b.held : /\ bound'[b.held[k]] = bound[b.held[k]]
                                    /\ b.held[k] \in serving' <=> b.held[k] \in serving,
           b.pc = "reregister" => b.i \in DOMAIN b.held
    PROVE  Going(b)'
<1>1. Registered' = Registered
  BY DEF Registered
<1>2. \A n \in Names : Ready(b, n)'
  <2> SUFFICES ASSUME NEW n \in Names, n \in Registered PROVE Ready(b, n)'
    BY <1>1 DEF Ready
  <2>1. CASE b.pc \in {"unload", "forget"} /\ n = b.items[b.i].name
    BY <2>1 DEF Ready
  <2>2. CASE ~(b.pc \in {"unload", "forget"} /\ n = b.items[b.i].name)
    BY <2>2, CarriedReady
  <2> QED BY <2>1, <2>2
<1>3. Lent(b)'
  BY <1>1 DEF Going, Lent
<1>4. Opened(b)'
  BY DEF Going, Opened
<1>5. Asked(b)'
  <2>1. \A n : AddrOf(n)' = AddrOf(n) /\ EntriesOf(n)' = EntriesOf(n)
    BY EntrySame, EntriesKept
  <2>2. Asked(b)
    BY DEF Going
  <2> QED BY <2>1, <2>2 DEF Asked
<1> QED BY <1>2, <1>3, <1>4, <1>5 DEF Going

LEMMA RunUntouched ==
    ASSUME MatchInv, RunInv,
           UNCHANGED <<registry, config, job, up, overlap, failures, rest, loaded>>,
           \A n \in Registered : SameView(n),
           \A e \in Executors : \A k \in DOMAIN job[e].held :
                 LET id == job[e].held[k] IN
                 bound'[id] = bound[id] /\ (id \in serving' <=> id \in serving)
    PROVE  RunInv'
<1> SUFFICES ASSUME Calm' PROVE Running'
  BY DEF RunInv
<1>1. Running
  BY DEF Calm, RunInv
<1>2. Registered' = Registered /\ Unshared'
  BY <1>1 DEF Registered, Unshared, Running
<1>3. (\A e \in Executors : job'[e] = Idle) => \A n \in Registered' : Right(n)'
  BY <1>1, <1>2, ViewKept DEF Running
<1>4. ASSUME NEW e \in Executors, NEW b \in {job[e]} \ {Idle} PROVE Going(b)'
  <2>1. b = job[e] /\ Going(b)
    BY <1>1, <1>4 DEF Running
  <2>2. IsJob(e, b)
    BY <2>1, JobFields DEF MatchInv, TypeInv
  <2>3. b.pc = "reregister" => b.i \in DOMAIN b.held
    BY <2>2 DEF IsJob, JobOK, Working, OnHeld
  <2>4. \A k \in DOMAIN b.held : /\ bound'[b.held[k]] = bound[b.held[k]]
                                 /\ b.held[k] \in serving' <=> b.held[k] \in serving
    BY <2>1
  <2> QED BY <2>1, <2>3, <2>4, UntouchedGoing
<1> QED BY <1>2, <1>3, <1>4 DEF Running

LEMMA RunCollect ==
    ASSUME MatchInv, RunInv, NEW id \in Ids, Collect(id)
    PROVE  RunInv'
<1>1. /\ UNCHANGED <<registry, config, job, up, overlap, failures, rest, loaded>>
      /\ Close({id}) /\ id \notin serving \cup Held \cup {registry[n] : n \in Names}
  BY DEF Collect, history
<1>2. TypeInv
  BY DEF MatchInv
<1>3. \A x \in Ids \ {id} : bound'[x] = bound[x] /\ (x \in serving' <=> x \in serving)
  BY <1>1, <1>2, ClosedView
<1>4. \A n \in Registered : SameView(n)
  <2> SUFFICES ASSUME NEW n \in Registered PROVE SameView(n)
    OBVIOUS
  <2>1. registry[n] \in Ids \ {id}
    BY <1>1, <1>2, RegistryType
  <2> QED BY <1>1, <1>3, <2>1, EntrySame DEF SameView
<1>5. ASSUME NEW e \in Executors, NEW k \in DOMAIN job[e].held
      PROVE  job[e].held[k] \in Ids \ {id}
  <2>1. job[e].held[k] \in ToSet(job[e].held)
    BY DEF ToSet
  <2>2. job[e].held[k] # id
    BY <1>1, <2>1 DEF Held
  <2>3. job[e].held \in Seq(Ids)
    BY <1>2 DEF TypeInv, TypeOK
  <2> QED BY <2>2, <2>3
<1> QED BY <1>1, <1>3, <1>4, <1>5, RunUntouched

LEMMA RunInit == Init => RunInv
<1> SUFFICES ASSUME Init PROVE Running
  BY DEF RunInv
<1>1. Registered = {} /\ \A e \in Executors : job[e] = Idle
  BY DEF Init, Registered
<1> QED BY <1>1 DEF Running, Unshared

LEMMA RunNext == MatchInv /\ Quiet /\ RunInv /\ [Next]_vars => RunInv'
<1> SUFFICES ASSUME MatchInv, Quiet, RunInv, [Next]_vars PROVE RunInv'
  OBVIOUS
<1>1. ASSUME NEW e \in Executors, Commands(e) PROVE RunInv'
  BY <1>1, RunBegin
<1>2. ASSUME NEW e \in Executors, Step(e) PROVE RunInv'
  BY <1>2, RunStep
<1>3. CASE Crash \/ Boot
  BY <1>3 DEF Crash, Boot, RunInv, Calm
<1>4. ASSUME NEW id \in Ids, Collect(id) PROVE RunInv'
  BY <1>4, RunCollect
<1>5. CASE UNCHANGED vars
  <2>1. UNCHANGED <<registry, bound, serving, config, job, up, overlap, failures, rest, loaded>>
    BY <1>5 DEF vars, nodeVars, history
  <2>2. \A n \in Registered : SameView(n)
    BY <2>1, EntrySame DEF SameView
  <2> QED BY <2>1, <2>2, RunUntouched
<1>6. CASE Next
  BY <1>1, <1>2, <1>3, <1>4, <1>6, NextSteps
<1> QED BY <1>5, <1>6

(* Between commands of the master, a service is bound and served exactly   *)
(* when its configuration does not say paused.                             *)
THEOREM PausedServicesAreClosed == Spec => []PausedIsClosed
<1>1. RunInv => PausedIsClosed
  <2> SUFFICES ASSUME RunInv, ~overlap, AtRest, failures = 0, ~rest, ~loaded, NEW n \in Registered
               PROVE  (registry[n] \in serving /\ bound[registry[n]] = AddrOf(n)) <=> ~IsPaused(n)
    BY DEF PausedIsClosed
  <2>1. Right(n)
    BY DEF RunInv, Calm, Running, AtRest
  <2> QED BY <2>1 DEF Right, Runs, Shut
<1>2. SaveInv => Quiet
  BY DEF SaveInv
<1> QED BY <1>1, <1>2, MatchInit, MatchNext, SaveInit, SaveNext, RunInit, RunNext, PTL DEF Spec
=============================================================================
