----------------------------- MODULE NodeRoute ------------------------------
(***************************************************************************)
(* How a node of the overlay reaches a target (x/chain, x/hop, x/selector):*)
(* a service dials through a chain, or through one chain of a group.  A    *)
(* chain is a sequence of hops, a hop offers several nodes.  The selector  *)
(* of a hop leaves out the nodes that have failed lately and falls back on *)
(* backups; what a dial learns about a node, it notes in the node's marker *)
(* for all the others; a dial that fails is tried again.                   *)
(*                                                                         *)
(* A node whose transport multiplexes keeps one session for all dials, and *)
(* its transport remembers the route that leads to it, with the chain that *)
(* this is a route of: dialling it is a dial of its own, within the other. *)
(***************************************************************************)
EXTENDS Naturals, Sequences, FiniteSets, SequencesExt

CONSTANTS
    Dialers,     \* goroutines that dial
    Nets,        \* the overlays looked at
    MaxFails,    \* FailFilter: failures that make a node dead
    Retries,     \* retries of a dial
    Turns,       \* bound: round-robin counters are kept modulo Turns
    MaxDials,    \* bound: dials
    MaxChanges   \* bound: nodes that go down or up, markers that expire

(* An overlay: its chains, each a sequence of hops, which are sequences of *)
(* nodes; a sequence of chains for each service; the nodes with the backup *)
(* label, those whose transport multiplexes, the priorities, for a target  *)
(* the nodes whose bypass or matcher leaves it out, and the strategies:    *)
(* "round", "fifo", "any".  Chains may share nodes, and so the routes that *)
(* transports remember; a node that multiplexes is at the same distance in *)
(* all of its chains, or its route could lead in a circle.                 *)
IsNetwork(n) ==
    LET nodes == DOMAIN n.priority
        chains == DOMAIN n.hops
        Places(v) == {p \in UNION {{c} \X DOMAIN n.hops[c] : c \in chains} :
                        v \in ToSet(n.hops[p[1]][p[2]])} IN
    /\ IsFiniteSet(nodes) /\ nodes \cap chains = {}
    /\ \A c \in chains : n.hops[c] \in Seq(Seq(nodes))
    /\ \A s \in DOMAIN n.groups : n.groups[s] \in Seq(chains) /\ n.groups[s] # <<>>
    /\ n.backups \subseteq nodes /\ n.mux \subseteq nodes
    /\ \A v \in n.mux : \A p, q \in Places(v) : p[2] = q[2]
    /\ n.priority \in [nodes -> Nat]
    /\ \A t \in DOMAIN n.excluded : n.excluded[t] \subseteq nodes
    /\ n.strategies \subseteq {"round", "fifo", "any"}
    /\ \A c \in chains : \A i \in DOMAIN n.hops[c] :
          \A k \in 1..Len(n.hops[c][i]) : Turns % k = 0
    /\ \A s \in DOMAIN n.groups : \A k \in 1..Len(n.groups[s]) : Turns % k = 0

RouteAssumption ==
    /\ {MaxFails, Turns} \subseteq Nat \ {0}
    /\ {Retries, MaxDials, MaxChanges} \subseteq Nat
    /\ \A n \in Nets : IsNetwork(n)

VARIABLES
    net,        \* the overlay
    strategy,   \* the strategy of every selector
    up,         \* the nodes that can be reached
    fails,      \* marker of a node or a chain: failures since the last success
    expired,    \* markers whose last failure is longer ago than failTimeout
    counter,    \* round-robin counters: of a hop, or of a service's group
    via,        \* mux node -> the route its transport remembers, a sequence of legs
    session,    \* mux node -> the path of its session; <<>> when it has none
    dial,       \* dialer -> the dial it is at
    dials, changes

vars == <<net, strategy, up, fails, expired, counter, via, session, dial, dials, changes>>

Nodes == DOMAIN net.priority
Hops == net.hops
Chains == DOMAIN Hops
Groups == net.groups
Entries == DOMAIN Groups
Targets == DOMAIN net.excluded
Mux == net.mux
Marked == Nodes \cup Chains

(* A leg of a route: a node, for a hop of a chain.                         *)
Legs == [node : Nodes, chain : Chains]
NodesOf(legs) == {legs[i].node : i \in DOMAIN legs}

Idle == [pc |-> "idle", service |-> "none", target |-> "none", try |-> 0, chain |-> "none",
         route |-> <<>>, path |-> <<>>, good |-> FALSE]
Counters == UNION {{c} \X DOMAIN Hops[c] : c \in Chains} \cup (Entries \X {0})

Init ==
    /\ net \in Nets
    /\ strategy \in net.strategies
    /\ up \in SUBSET Nodes
    /\ fails = [m \in Marked |-> 0]
    /\ expired = {}
    /\ counter = [c \in Counters |-> 0]
    /\ via = [n \in Mux |-> <<>>]
    /\ session = [n \in Mux |-> <<>>]
    /\ dial = [d \in Dialers |-> Idle]
    /\ dials = 0
    /\ changes = 0

-----------------------------------------------------------------------------
(* selector.Select: the filters let a single candidate pass; then the      *)
(* strategy takes one of those that are left.  Candidates are positions I  *)
(* in a list vs.                                                           *)

Alive(v) == fails[v] < MaxFails \/ v \in expired
FailFilter(vs, I) == IF Cardinality(I) <= 1 THEN I ELSE {i \in I : Alive(vs[i])}

BackupFilter(vs, I) ==
    LET regular == {i \in I : vs[i] \notin net.backups} IN
    IF Cardinality(I) <= 1 \/ regular = {} THEN I ELSE regular

(* The candidates the strategy may take, given the value of its counter.   *)
Before(I, i) == Cardinality({k \in I : k < i})
RoundRobin(I, n) == {i \in I : Before(I, i) = n % Cardinality(I)}
FIFO(I) == {i \in I : \A k \in I : i <= k}
Random(I) == I

Apply(I, n) ==
    CASE I = {} -> {}
      [] I # {} /\ strategy = "round" -> RoundRobin(I, n)
      [] I # {} /\ strategy = "fifo" -> FIFO(I)
      [] I # {} /\ strategy = "any" -> Random(I)

Left(vs, I) == BackupFilter(vs, FailFilter(vs, I))
Selected(vs, I, n) == {vs[i] : i \in Apply(Left(vs, I), n)}

(* The counter moves when there was something to choose from.              *)
Turn(vs, I, c) ==
    counter' = IF strategy = "round" /\ Left(vs, I) # {}
               THEN [counter EXCEPT ![c] = (@ + 1) % Turns] ELSE counter

(* hop.Select: the nodes that take the target; a node with a priority wins *)
(* without a look at its marker.                                           *)
Eligible(hop, target) == {i \in DOMAIN hop : hop[i] \notin net.excluded[target]}
Foremost(vs, I) ==
    {i \in I : /\ net.priority[vs[i]] > 0
               /\ \A k \in I : /\ net.priority[vs[k]] <= net.priority[vs[i]]
                               /\ k < i => net.priority[vs[k]] < net.priority[vs[i]]}
HopSelect(vs, I, n) ==
    IF Cardinality(I) <= 1 THEN {vs[i] : i \in I}
    ELSE IF Foremost(vs, I) # {} THEN {vs[i] : i \in Foremost(vs, I)}
    ELSE Selected(vs, I, n)
HopTurn(vs, I, c) ==
    IF Cardinality(I) <= 1 \/ Foremost(vs, I) # {} THEN UNCHANGED counter ELSE Turn(vs, I, c)

-----------------------------------------------------------------------------
(* Markers.  A dial has a good chance as long as every hop of its chain    *)
(* offers it a node that is up and not thought dead.  That goes on when    *)
(* others dial, unless they note a failure of what is up: of a node behind *)
(* one that has gone down since, or of one that multiplexes, when what its *)
(* transport remembers fails.                                              *)

Mark(m) == /\ fails' = [x \in Marked |-> IF x \in m /\ fails[x] < MaxFails
                                        THEN fails[x] + 1 ELSE fails[x]]
           /\ expired' = expired \ m
Reset(m) == /\ fails' = [x \in Marked |-> IF x \in m THEN 0 ELSE fails[x]]
            /\ expired' = expired \ m

Offers(hop, target) ==
    \E i \in Eligible(hop, target) : hop[i] \in up /\ Alive(hop[i])
Down == Cardinality(Nodes \ up)
HasPriorities == \E n \in Nodes : net.priority[n] > 0
Behind(n) == \E c \in Chains : \E i \in DOMAIN Hops[c] : i > 1 /\ n \in ToSet(Hops[c][i])
Nested(c) == \E i \in DOMAIN Hops[c] : i > 1 /\ ToSet(Hops[c][i]) \cap Mux # {}
GoodChance(service, target) ==
    /\ Len(Groups[service]) = 1
    /\ MaxFails = 1
    /\ ~HasPriorities
    /\ \A n \in Nodes \ up : n \notin expired
    /\ \A i \in DOMAIN Hops[Groups[service][1]] :
          Offers(Hops[Groups[service][1]][i], target)
    /\ Down <= Retries
    /\ \A d \in Dialers : dial[d].pc = "connect" => NodesOf(dial[d].path) \subseteq up
    /\ Nested(Groups[service][1]) => Down = 0 /\ \A d \in Dialers : dial[d].pc # "unwind"

-----------------------------------------------------------------------------
(* Router.Dial: one try after the other, each on a route of its own.       *)
Start(d, s, t) ==
    /\ dial[d].pc \in {"idle", "connected", "failed"}
    /\ dials < MaxDials
    /\ dial' = [dial EXCEPT ![d] = [Idle EXCEPT !.pc = "chain", !.service = s,
                                       !.target = t, !.good = GoodChance(s, t)]]
    /\ dials' = dials + 1
    /\ UNCHANGED <<net, strategy, up, fails, expired, counter, via, session, changes>>

(* chainGroup.Route: no chain left, no route: the dial goes out directly.  *)
PickChain(d) ==
    LET group == Groups[dial[d].service]
        c == <<dial[d].service, 0>> IN
    /\ dial[d].pc = "chain"
    /\ IF Len(group) = 1
       THEN /\ dial' = [dial EXCEPT ![d].pc = "route", ![d].chain = group[1],
                                    ![d].route = <<>>, ![d].path = <<>>]
            /\ UNCHANGED counter
       ELSE /\ Turn(group, DOMAIN group, c)
            /\ \/ \E chain \in Selected(group, DOMAIN group, counter[c]) :
                    dial' = [dial EXCEPT ![d].pc = "route", ![d].chain = chain,
                                         ![d].route = <<>>, ![d].path = <<>>]
               \/ /\ Selected(group, DOMAIN group, counter[c]) = {}
                  /\ dial' = [dial EXCEPT ![d].pc = "dial", ![d].chain = "none",
                                          ![d].route = <<>>, ![d].path = <<>>]
    /\ UNCHANGED <<net, strategy, up, fails, expired, via, session, dials, changes>>

(* Chain.Route takes a node of every hop.  Where a hop has none, the route *)
(* ends.  A multiplexing node starts a new route; the one up to there goes *)
(* into its transport, which all dials share: Transport.Copy returns the   *)
(* transport itself.                                                       *)
HopIndex(d) == Len(dial[d].path) + 1
PickNode(d) ==
    LET hops == Hops[dial[d].chain]
        i == HopIndex(d)
        I == Eligible(hops[i], dial[d].target)
        c == <<dial[d].chain, i>>
        chosen == HopSelect(hops[i], I, counter[c]) IN
    /\ dial[d].pc = "route"
    /\ i <= Len(hops)
    /\ HopTurn(hops[i], I, c)
    /\ \/ \E n \in chosen :
            LET leg == [node |-> n, chain |-> dial[d].chain] IN
            /\ via' = IF n \in Mux THEN [via EXCEPT ![n] = dial[d].route] ELSE via
            /\ dial' = [dial EXCEPT ![d].path = Append(@, leg),
                 ![d].route = IF n \in Mux THEN <<leg>> ELSE Append(@, leg)]
       \/ /\ chosen = {}
          /\ dial' = [dial EXCEPT ![d].pc = "dial", ![d].path = <<>>]
          /\ UNCHANGED via
    /\ UNCHANGED <<net, strategy, up, fails, expired, session, dials, changes>>

RouteDone(d) ==
    /\ dial[d].pc = "route"
    /\ HopIndex(d) > Len(Hops[dial[d].chain])
    /\ dial' = [dial EXCEPT ![d].pc = "dial", ![d].path = <<>>]
    /\ UNCHANGED <<net, strategy, up, fails, expired, counter, via, session, dials, changes>>

(* chainRoute.connect: one node after the other.  A multiplexing node, the *)
(* head of its route, is reached over its session or, if it has none, over *)
(* the route its transport remembers now, which is dialled first.          *)
Head1(d) == dial[d].route[1]
AtEnd(route) == Len(route) = 1 \/ route[2].node \in Mux
Noted(d) == {Head1(d).node} \cup (IF AtEnd(dial[d].route) THEN {Head1(d).chain} ELSE {})
Transport(d) ==
    LET r == dial[d]
        n == Head1(d).node
        mux == r.route # <<>> /\ n \in Mux IN
    /\ r.pc = "dial"
    /\ \/ /\ ~mux
          /\ dial' = [dial EXCEPT ![d].pc = "connect"]
          /\ UNCHANGED <<fails, expired>>
       \/ /\ mux /\ session[n] # <<>>
          /\ dial' = [dial EXCEPT ![d].pc = "connect", ![d].path = session[n],
                                  ![d].route = Tail(@)]
          /\ Reset(Noted(d))
       \/ /\ mux /\ session[n] = <<>>
          /\ dial' = [dial EXCEPT ![d].pc = IF via[n] = <<>> THEN "connect" ELSE "dial",
                                  ![d].route = via[n] \o @]
          /\ UNCHANGED <<fails, expired>>
    /\ UNCHANGED <<net, strategy, up, counter, via, session, dials, changes>>

Reached(d) ==
    LET n == Head1(d).node IN
    /\ dial[d].pc = "connect"
    /\ dial[d].route # <<>>
    /\ NodesOf(dial[d].path) \cup {n} \subseteq up
    /\ Reset(Noted(d))
    /\ session' = IF n \in Mux THEN [session EXCEPT ![n] = Append(dial[d].path, Head1(d))]
                  ELSE session
    /\ dial' = [dial EXCEPT ![d].path = Append(@, Head1(d)), ![d].route = Tail(@)]
    /\ UNCHANGED <<net, strategy, up, counter, via, dials, changes>>

Again(d) == dial' = [dial EXCEPT ![d].try = @ + 1,
                       ![d].pc = IF dial[d].try < Retries THEN "chain" ELSE "failed"]

(* The first node that cannot be reached is marked, and so is the chain;   *)
(* then, if it was on the way to one that multiplexes, this one, for which *)
(* the transport has failed, and its chain, and so on.                     *)
Outer(route) ==
    LET I == {i \in 2..Len(route) : route[i].node \in Mux} IN
    IF I = {} THEN <<>>
    ELSE SubSeq(route, CHOOSE i \in I : \A k \in I : i <= k, Len(route))
GiveUp(d, marked) ==
    /\ Mark(marked)
    /\ IF Outer(dial[d].route) = <<>> THEN Again(d)
       ELSE dial' = [dial EXCEPT ![d].pc = "unwind", ![d].route = Outer(@)]
    /\ UNCHANGED <<net, strategy, up, counter, via, session, dials, changes>>

Fails(d) ==
    \/ /\ dial[d].pc = "connect"
       /\ dial[d].route # <<>>
       /\ ~(NodesOf(dial[d].path) \cup {Head1(d).node} \subseteq up)
    \/ dial[d].pc = "unwind"

(* Mutant: the chain is marked, the node is not.                           *)
Unreached_ChainOnly(d) == Fails(d) /\ GiveUp(d, {Head1(d).chain})

Unreached(d) == Fails(d) /\ GiveUp(d, {Head1(d).node, Head1(d).chain})

(* The last node, or this one when the route is empty, connects to the     *)
(* target; that may fail when one of the nodes on the path is gone again.  *)
Connected(d) ==
    /\ dial[d].pc = "connect"
    /\ dial[d].route = <<>>
    /\ NodesOf(dial[d].path) \subseteq up
    /\ dial' = [dial EXCEPT ![d].pc = "connected"]
    /\ UNCHANGED <<net, strategy, up, fails, expired, counter, via, session, dials, changes>>

Broken(d) ==
    /\ dial[d].pc = "connect"
    /\ dial[d].route = <<>>
    /\ ~(NodesOf(dial[d].path) \subseteq up)
    /\ Again(d)
    /\ UNCHANGED <<net, strategy, up, fails, expired, counter, via, session, dials, changes>>

(* Nodes go down and come up, failTimeout passes for a marker.  Either may *)
(* spoil the chances of the dials under way.                               *)
Spoiled == [d \in Dialers |-> [dial[d] EXCEPT !.good = FALSE]]
Flip(n) ==
    /\ changes < MaxChanges
    /\ up' = IF n \in up THEN up \ {n} ELSE up \cup {n}
    /\ session' = [m \in Mux |-> IF n \in NodesOf(session[m]) THEN <<>> ELSE session[m]]
    /\ dial' = Spoiled
    /\ changes' = changes + 1
    /\ UNCHANGED <<net, strategy, fails, expired, counter, via, dials>>

Expire(m) ==
    /\ changes < MaxChanges
    /\ fails[m] >= MaxFails
    /\ m \notin expired
    /\ expired' = expired \cup {m}
    /\ dial' = Spoiled
    /\ changes' = changes + 1
    /\ UNCHANGED <<net, strategy, up, fails, counter, via, session, dials>>

Step(d) ==
    \/ PickChain(d) \/ PickNode(d) \/ RouteDone(d) \/ Transport(d)
    \/ Reached(d) \/ Unreached(d) \/ Connected(d) \/ Broken(d)

Next ==
    \/ \E d \in Dialers, s \in Entries, t \in Targets : Start(d, s, t)
    \/ \E d \in Dialers : Step(d)
    \/ \E n \in Nodes : Flip(n)
    \/ \E m \in Marked : Expire(m)

Fairness == \A d \in Dialers : WF_vars(Step(d))
Spec == Init /\ [][Next]_vars /\ Fairness

-----------------------------------------------------------------------------
TypeOK ==
    /\ net \in Nets
    /\ strategy \in net.strategies
    /\ up \subseteq Nodes
    /\ fails \in [Marked -> 0..MaxFails]
    /\ expired \subseteq Marked
    /\ counter \in [Counters -> 0..Turns - 1]
    /\ via \in [Mux -> Seq(Legs)] /\ session \in [Mux -> Seq(Legs)]
    /\ \A d \in Dialers : /\ dial[d].try \in 0..(Retries + 1)
                          /\ dial[d].route \in Seq(Legs)
                          /\ dial[d].path \in Seq(Legs)
    /\ dials \in 0..MaxDials /\ changes \in 0..MaxChanges

(* A dial that begins while every hop of its chain offers a node that is   *)
(* up and not thought dead gets through: its retries are spent on nodes    *)
(* that are down, each at most once, also while other dials fail.          *)
RetriesFindTheWay == \A d \in Dialers : dial[d].good => dial[d].pc # "failed"

(* ... and it gets through the chain: the connection passes one node of    *)
(* every hop, in their order, never leaves the chain early, and ends at a  *)
(* node of its last hop.  Only chains that share nodes that multiplex may  *)
(* find themselves on each other's way.                                    *)
Shared ==
    \E n \in Mux : \E c, e \in Chains :
        /\ c # e
        /\ \A x \in {c, e} : \E i \in DOMAIN Hops[x] : n \in ToSet(Hops[x][i])
StaysOnChain ==
    \A d \in Dialers :
        dial[d].good /\ dial[d].pc = "connected" =>
            LET c == Groups[dial[d].service][1]
                path == dial[d].path IN
            /\ Len(path) = Len(Hops[c])
            /\ \A i \in DOMAIN path : path[i].node \in ToSet(Hops[path[i].chain][i])
            /\ path # <<>> => path[Len(path)].node \in ToSet(Hops[c][Len(path)])
            /\ ~Shared => \A i \in DOMAIN path : path[i].chain = c

Ended(d) == dial[d].pc \in {"idle", "connected", "failed"}

(* Every dial ends: there are only so many retries.                        *)
DialsEnd == \A d \in Dialers : []<>Ended(d)
=============================================================================
