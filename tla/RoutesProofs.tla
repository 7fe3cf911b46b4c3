---------------------------- MODULE RoutesProofs ----------------------------
(***************************************************************************)
(* A dial with a good chance gets through, and through every hop, for any  *)
(* overlay and any number of dials that share markers, sessions and turns. *)
(* The sections follow the argument: what a dial is (RouteTypes), that it  *)
(* keeps to its chain (LineInv), that its chance stays (ChanceInv), that   *)
(* its tries are enough (RetryInv).  The last section puts the invariants  *)
(* of all parts of MCTraffic together, with those of TrafficProofs.        *)
(***************************************************************************)
EXTENDS TrafficProofs

-----------------------------------------------------------------------------
(* Routes.  What a dial is while it goes on, and what the rest is.         *)
RoutePcs == {"idle", "chain", "route", "dial", "connect", "unwind", "connected", "failed"}
RouteFields == {"pc", "service", "target", "try", "chain", "route", "path", "good"}

DialOK(r) ==
    /\ DOMAIN r = RouteFields
    /\ r.pc \in RoutePcs
    /\ r.try \in 0..(Retries + 1)
    /\ r.route \in Seq(Routes!Legs) /\ r.path \in Seq(Routes!Legs)
    /\ r.pc # "idle" => r.service \in Routes!Entries /\ r.target \in Routes!Targets
    /\ r.pc \in {"chain", "route", "dial", "connect", "unwind"} => r.try <= Retries
    /\ r.pc = "route" => r.chain \in Routes!Chains

RouteRest ==
    /\ net \in Nets /\ strategy \in net.strategies
    /\ reachable \subseteq Routes!Nodes
    /\ fails \in [Routes!Marked -> 0..MaxFails] /\ expired \subseteq Routes!Marked
    /\ counter \in [Routes!Counters -> 0..Turns - 1]
    /\ via \in [Routes!Mux -> Seq(Routes!Legs)] /\ session \in [Routes!Mux -> Seq(Routes!Legs)]
    /\ dials \in 0..MaxDials /\ changes \in 0..MaxFlips

RouteTypes ==
    /\ RouteRest
    /\ DOMAIN dial = Dialers
    /\ \A d \in Dialers : DialOK(dial[d])

RouteConfig == <<net, strategy>>

LEMMA RouteNumbers ==
    /\ MaxFails \in Nat \ {0} /\ Turns \in Nat \ {0}
    /\ Retries \in Nat /\ MaxDials \in Nat /\ MaxFlips \in Nat
BY TrafficAssumption DEF Routes!RouteAssumption

Located(c, i, x) == x \in Routes!ToSet(Routes!Hops[c][i])

LEMMA NetFacts ==
    ASSUME net \in Nets
    PROVE  /\ Routes!Nodes \cap Routes!Chains = {}
           /\ \A c \in Routes!Chains : Routes!Hops[c] \in Seq(Seq(Routes!Nodes))
           /\ \A s \in Routes!Entries : /\ Routes!Groups[s] \in Seq(Routes!Chains)
                                        /\ Routes!Groups[s] # <<>>
           /\ Routes!Mux \subseteq Routes!Nodes
           /\ net.priority \in [Routes!Nodes -> Nat]
           /\ net.strategies \subseteq {"round", "fifo", "any"}
<1>1. Routes!IsNetwork(net)
  BY TrafficAssumption DEF Routes!RouteAssumption
<1> QED
  BY <1>1 DEF Routes!IsNetwork, Routes!Nodes, Routes!Chains, Routes!Hops, Routes!Entries,
     Routes!Groups, Routes!Mux

LEMMA FiniteNodes ==
    ASSUME net \in Nets
    PROVE  IsFiniteSet(Routes!Nodes)
<1>1. Routes!IsNetwork(net)
  BY TrafficAssumption DEF Routes!RouteAssumption
<1> QED
  BY <1>1 DEF Routes!IsNetwork, Routes!Nodes, Routes!IsFiniteSet, IsFiniteSet

(* A node that multiplexes is at one distance, and of one chain, unless    *)
(* chains share such nodes.                                                *)
LEMMA OnePlace ==
    ASSUME net \in Nets, NEW x \in Routes!Mux,
           NEW c \in Routes!Chains, NEW i \in DOMAIN Routes!Hops[c], Located(c, i, x),
           NEW e \in Routes!Chains, NEW j \in DOMAIN Routes!Hops[e], Located(e, j, x)
    PROVE  i = j /\ (Routes!Shared \/ c = e)
<1>1. Routes!IsNetwork(net)
  BY TrafficAssumption DEF Routes!RouteAssumption
<1> DEFINE Places == {p \in UNION {{a} \X DOMAIN net.hops[a] : a \in DOMAIN net.hops} :
                        x \in Routes!ToSet(net.hops[p[1]][p[2]])}
<1>2. \A p, q \in Places : p[2] = q[2]
  BY <1>1 DEF Routes!IsNetwork, Routes!Mux
<1>3. <<c, i>> \in Places /\ <<e, j>> \in Places
  BY DEF Located, Routes!Chains, Routes!Hops
<1>4. i = j
  BY <1>2, <1>3
<1>5. c # e => Routes!Shared
  BY DEF Located, Routes!Shared
<1> QED
  BY <1>4, <1>5

-----------------------------------------------------------------------------
(* Selectors take one of the candidates.                                   *)
LEMMA AppliedTo ==
    ASSUME RouteRest, NEW I, NEW n
    PROVE  Routes!Apply(I, n) \subseteq I
<1>1. strategy \in {"round", "fifo", "any"}
  BY NetFacts DEF RouteRest
<1> QED
  BY <1>1 DEF Routes!Apply, Routes!RoundRobin, Routes!FIFO, Routes!Random

LEMMA SelectedFrom ==
    ASSUME RouteRest, NEW vs, NEW I, NEW n
    PROVE  Routes!Selected(vs, I, n) \subseteq {vs[i] : i \in I}
<1>1. \A J : Routes!Apply(J, n) \subseteq J
  BY AppliedTo
<1>2. Routes!Left(vs, I) \subseteq I
  BY DEF Routes!Left, Routes!BackupFilter, Routes!FailFilter
<1>3. Routes!Apply(Routes!Left(vs, I), n) \subseteq I
  BY <1>1, <1>2
<1> QED
  BY <1>3 DEF Routes!Selected

LEMMA HopSelectFrom ==
    ASSUME RouteRest, NEW vs, NEW I, NEW n
    PROVE  Routes!HopSelect(vs, I, n) \subseteq {vs[i] : i \in I}
<1>1. Routes!Foremost(vs, I) \subseteq I
  BY DEF Routes!Foremost
<1> QED
  BY <1>1, SelectedFrom DEF Routes!HopSelect

LEMMA ModTurns ==
    ASSUME NEW a \in Nat, NEW b \in Nat \ {0}
    PROVE  a % b \in 0..b - 1
OBVIOUS

LEMMA TurnType ==
    ASSUME counter \in [Routes!Counters -> 0..Turns - 1], NEW vs, NEW I, NEW c,
           Routes!Turn(vs, I, c)
    PROVE  counter' \in [Routes!Counters -> 0..Turns - 1]
<1>1. CASE counter' = counter
  BY <1>1
<1>2. CASE counter' = [counter EXCEPT ![c] = (@ + 1) % Turns]
  <2>1. c \in Routes!Counters => (counter[c] + 1) % Turns \in 0..Turns - 1
    <3>1. c \in Routes!Counters => counter[c] + 1 \in Nat
      BY RouteNumbers
    <3> QED
      BY <3>1, ModTurns, RouteNumbers
  <2> QED
    BY <1>2, <2>1
<1> QED
  BY <1>1, <1>2 DEF Routes!Turn

LEMMA HopTurnType ==
    ASSUME counter \in [Routes!Counters -> 0..Turns - 1], NEW vs, NEW I, NEW c,
           Routes!HopTurn(vs, I, c)
    PROVE  counter' \in [Routes!Counters -> 0..Turns - 1]
BY TurnType DEF Routes!HopTurn

-----------------------------------------------------------------------------
(* What each step makes of the dial it is a step of.                       *)
OnlyDialOf(d) == DOMAIN dial' = Dialers /\ \A x \in Dialers : x # d => dial'[x] = dial[x]
Kept(d) ==
    /\ DOMAIN dial'[d] = RouteFields
    /\ dial'[d].service = dial[d].service /\ dial'[d].target = dial[d].target
    /\ dial'[d].good = dial[d].good
Aim(d) == dial'[d].try = dial[d].try /\ dial'[d].chain = dial[d].chain

LEMMA StartIs ==
    ASSUME RouteTypes, NEW d \in Dialers, NEW s, NEW t, Routes!Start(d, s, t)
    PROVE  /\ OnlyDialOf(d)
           /\ DOMAIN dial'[d] = RouteFields
           /\ dial'[d].pc = "chain" /\ dial'[d].service = s /\ dial'[d].target = t
           /\ dial'[d].try = 0 /\ dial'[d].chain = "none"
           /\ dial'[d].route = <<>> /\ dial'[d].path = <<>>
           /\ dial'[d].good => Routes!GoodChance(s, t)
<1>1. PICK g \in BOOLEAN : g <=> Routes!GoodChance(s, t)
  OBVIOUS
<1>2. dial' = [dial EXCEPT ![d] = [Routes!Idle EXCEPT !.pc = "chain", !.service = s,
                                     !.target = t, !.good = Routes!GoodChance(s, t)]]
  BY DEF Routes!Start
<1>3. dial'[d] = [Routes!Idle EXCEPT !.pc = "chain", !.service = s,
                                     !.target = t, !.good = Routes!GoodChance(s, t)]
  BY <1>2 DEF RouteTypes
<1>4. OnlyDialOf(d)
  BY <1>2 DEF RouteTypes, OnlyDialOf
<1> QED
  BY <1>3, <1>4 DEF Routes!Idle, RouteFields

LEMMA PickChainIs ==
    ASSUME RouteTypes, NEW d \in Dialers, Routes!PickChain(d)
    PROVE  /\ OnlyDialOf(d) /\ Kept(d) /\ dial[d].pc = "chain"
           /\ dial'[d].try = dial[d].try
           /\ dial'[d].route = <<>> /\ dial'[d].path = <<>>
           /\ \/ dial'[d].pc = "route" /\ dial'[d].chain \in Routes!Chains
              \/ dial'[d].pc = "dial" /\ dial'[d].chain = "none"
           /\ Len(Routes!Groups[dial[d].service]) = 1 =>
                 dial'[d].pc = "route" /\ dial'[d].chain = Routes!Groups[dial[d].service][1]
<1>1. PICK group : group = Routes!Groups[dial[d].service]
  OBVIOUS
<1>2. dial[d].pc = "chain" /\ DOMAIN dial[d] = RouteFields /\ d \in DOMAIN dial
  BY DEF Routes!PickChain, RouteTypes, DialOK
<1>3. group \in Seq(Routes!Chains) /\ group # <<>>
  BY <1>1, <1>2, NetFacts DEF RouteTypes, RouteRest, DialOK
<1>4. \/ \E chain \in Routes!Chains :
           /\ Len(group) = 1 => chain = group[1]
           /\ dial' = [dial EXCEPT ![d].pc = "route", ![d].chain = chain,
                                   ![d].route = <<>>, ![d].path = <<>>]
      \/ /\ Len(group) # 1
         /\ dial' = [dial EXCEPT ![d].pc = "dial", ![d].chain = "none",
                                 ![d].route = <<>>, ![d].path = <<>>]
  <2>1. CASE Len(group) = 1
    <3>1. group[1] \in Routes!Chains
      BY <1>3, <2>1
    <3>2. dial' = [dial EXCEPT ![d].pc = "route", ![d].chain = group[1],
                               ![d].route = <<>>, ![d].path = <<>>]
      BY <1>1, <2>1 DEF Routes!PickChain
    <3> QED
      BY <3>1, <3>2
  <2>2. CASE Len(group) # 1
    <3>1. \A n : Routes!Selected(group, DOMAIN group, n) \subseteq Routes!Chains
      <4>1. {group[i] : i \in DOMAIN group} \subseteq Routes!Chains
        BY <1>3
      <4> QED
        BY <4>1, SelectedFrom DEF RouteTypes
    <3>2. \/ \E chain \in Routes!Selected(group, DOMAIN group, counter[<<dial[d].service, 0>>]) :
               dial' = [dial EXCEPT ![d].pc = "route", ![d].chain = chain,
                                    ![d].route = <<>>, ![d].path = <<>>]
          \/ dial' = [dial EXCEPT ![d].pc = "dial", ![d].chain = "none",
                                  ![d].route = <<>>, ![d].path = <<>>]
      BY <1>1, <2>2 DEF Routes!PickChain
    <3> QED
      BY <2>2, <3>1, <3>2
  <2> QED
    BY <2>1, <2>2
<1>5. CASE \E chain \in Routes!Chains :
             /\ Len(group) = 1 => chain = group[1]
             /\ dial' = [dial EXCEPT ![d].pc = "route", ![d].chain = chain,
                                     ![d].route = <<>>, ![d].path = <<>>]
  <2>1. PICK chain \in Routes!Chains :
             /\ Len(group) = 1 => chain = group[1]
             /\ dial' = [dial EXCEPT ![d].pc = "route", ![d].chain = chain,
                                     ![d].route = <<>>, ![d].path = <<>>]
    BY <1>5
  <2>2. OnlyDialOf(d)
    BY <2>1 DEF RouteTypes, OnlyDialOf
  <2>3. /\ Kept(d) /\ dial'[d].try = dial[d].try
        /\ dial'[d].route = <<>> /\ dial'[d].path = <<>>
        /\ dial'[d].pc = "route" /\ dial'[d].chain = chain
    BY <1>2, <2>1 DEF Kept, RouteFields
  <2> QED
    BY <1>1, <1>2, <2>1, <2>2, <2>3
<1>6. CASE Len(group) # 1 /\ dial' = [dial EXCEPT ![d].pc = "dial", ![d].chain = "none",
                                                  ![d].route = <<>>, ![d].path = <<>>]
  <2>1. OnlyDialOf(d)
    BY <1>6 DEF RouteTypes, OnlyDialOf
  <2>2. /\ Kept(d) /\ dial'[d].try = dial[d].try
        /\ dial'[d].route = <<>> /\ dial'[d].path = <<>>
        /\ dial'[d].pc = "dial" /\ dial'[d].chain = "none"
    BY <1>2, <1>6 DEF Kept, RouteFields
  <2> QED
    BY <1>1, <1>2, <1>6, <2>1, <2>2
<1> QED
  BY <1>4, <1>5, <1>6

Leg(x, c) == [node |-> x, chain |-> c]

LEMMA LegIs ==
    ASSUME NEW x \in Routes!Nodes, NEW c \in Routes!Chains
    PROVE  /\ Leg(x, c) \in Routes!Legs /\ Leg(x, c).node = x /\ Leg(x, c).chain = c
           /\ <<Leg(x, c)>> \in Seq(Routes!Legs)
           /\ \A s \in Seq(Routes!Legs) : Append(s, Leg(x, c)) \in Seq(Routes!Legs)
<1>1. Leg(x, c) \in Routes!Legs /\ Leg(x, c).node = x /\ Leg(x, c).chain = c
  BY DEF Leg, Routes!Legs
<1> QED
  BY <1>1

LEMMA LegsAre ==
    ASSUME NEW l \in Routes!Legs
    PROVE  l.node \in Routes!Nodes /\ l.chain \in Routes!Chains
BY DEF Routes!Legs

LEMMA PickNodeIs ==
    ASSUME RouteTypes, NEW d \in Dialers, Routes!PickNode(d)
    PROVE  LET c == dial[d].chain
               i == Len(dial[d].path) + 1 IN
           /\ OnlyDialOf(d) /\ Kept(d) /\ Aim(d) /\ dial[d].pc = "route"
           /\ c \in Routes!Chains /\ i \in DOMAIN Routes!Hops[c]
           /\ \/ \E x \in Routes!HopSelect(Routes!Hops[c][i],
                             Routes!Eligible(Routes!Hops[c][i], dial[d].target), counter[<<c, i>>]) :
                    /\ x \in Routes!Nodes /\ Located(c, i, x)
                    /\ via' = IF x \in Routes!Mux THEN [via EXCEPT ![x] = dial[d].route] ELSE via
                    /\ dial'[d].pc = "route" /\ dial'[d].path = Append(dial[d].path, Leg(x, c))
                    /\ dial'[d].route = IF x \in Routes!Mux THEN <<Leg(x, c)>>
                                        ELSE Append(dial[d].route, Leg(x, c))
              \/ /\ Routes!HopSelect(Routes!Hops[c][i],
                       Routes!Eligible(Routes!Hops[c][i], dial[d].target), counter[<<c, i>>]) = {}
                 /\ via' = via
                 /\ dial'[d].pc = "dial" /\ dial'[d].path = <<>>
                 /\ dial'[d].route = dial[d].route
<1>1. PICK c, i, hop : c = dial[d].chain /\ i = Len(dial[d].path) + 1 /\ hop = Routes!Hops[c][i]
  OBVIOUS
<1>2. PICK chosen : chosen = Routes!HopSelect(hop, Routes!Eligible(hop, dial[d].target),
                                              counter[<<c, i>>])
  OBVIOUS
<1>3. dial[d].pc = "route" /\ DOMAIN dial[d] = RouteFields /\ d \in DOMAIN dial
  BY DEF Routes!PickNode, RouteTypes, DialOK
<1>4. c \in Routes!Chains /\ dial[d].path \in Seq(Routes!Legs)
  BY <1>1, <1>3 DEF RouteTypes, DialOK
<1>5. Routes!Hops[c] \in Seq(Seq(Routes!Nodes))
  BY <1>4, NetFacts DEF RouteTypes, RouteRest
<1>6. i \in DOMAIN Routes!Hops[c]
  <2>1. i <= Len(Routes!Hops[c])
    BY <1>1 DEF Routes!PickNode, Routes!HopIndex
  <2>2. i \in Nat \ {0}
    BY <1>1, <1>4
  <2> QED
    BY <1>5, <2>1, <2>2
<1>7. hop \in Seq(Routes!Nodes)
  BY <1>1, <1>5, <1>6
<1>8. \A x \in chosen : x \in Routes!Nodes /\ Located(c, i, x)
  <2>1. chosen \subseteq {hop[k] : k \in Routes!Eligible(hop, dial[d].target)}
    BY <1>2, HopSelectFrom DEF RouteTypes
  <2>2. \A k \in Routes!Eligible(hop, dial[d].target) :
          hop[k] \in Routes!Nodes /\ hop[k] \in Routes!ToSet(hop)
    BY <1>7 DEF Routes!Eligible, Routes!ToSet
  <2> QED
    BY <1>1, <2>1, <2>2 DEF Located
<1>9. \/ \E x \in chosen :
           /\ via' = IF x \in Routes!Mux THEN [via EXCEPT ![x] = dial[d].route] ELSE via
           /\ dial' = [dial EXCEPT ![d].path = Append(@, Leg(x, c)),
                         ![d].route = IF x \in Routes!Mux THEN <<Leg(x, c)>> ELSE Append(@, Leg(x, c))]
      \/ chosen = {} /\ via' = via
         /\ dial' = [dial EXCEPT ![d].pc = "dial", ![d].path = <<>>]
  BY <1>1, <1>2, Zenon DEF Routes!PickNode, Routes!HopIndex, Leg
<1>10. CASE \E x \in chosen :
             /\ via' = IF x \in Routes!Mux THEN [via EXCEPT ![x] = dial[d].route] ELSE via
             /\ dial' = [dial EXCEPT ![d].path = Append(@, Leg(x, c)),
                         ![d].route = IF x \in Routes!Mux THEN <<Leg(x, c)>> ELSE Append(@, Leg(x, c))]
  <2>1. PICK x \in chosen :
             /\ via' = IF x \in Routes!Mux THEN [via EXCEPT ![x] = dial[d].route] ELSE via
             /\ dial' = [dial EXCEPT ![d].path = Append(@, Leg(x, c)),
                         ![d].route = IF x \in Routes!Mux THEN <<Leg(x, c)>> ELSE Append(@, Leg(x, c))]
    BY <1>10
  <2>2. OnlyDialOf(d)
    BY <2>1 DEF RouteTypes, OnlyDialOf
  <2>3. /\ Kept(d) /\ Aim(d) /\ dial'[d].pc = "route"
        /\ dial'[d].path = Append(dial[d].path, Leg(x, c))
        /\ dial'[d].route = IF x \in Routes!Mux THEN <<Leg(x, c)>>
                            ELSE Append(dial[d].route, Leg(x, c))
    BY <1>3, <2>1 DEF Kept, Aim, RouteFields
  <2> QED
    BY <1>1, <1>2, <1>3, <1>4, <1>6, <1>8, <2>1, <2>2, <2>3
<1>11. CASE chosen = {} /\ via' = via /\ dial' = [dial EXCEPT ![d].pc = "dial", ![d].path = <<>>]
  <2>1. OnlyDialOf(d)
    BY <1>11 DEF RouteTypes, OnlyDialOf
  <2>2. /\ Kept(d) /\ Aim(d) /\ dial'[d].pc = "dial" /\ dial'[d].path = <<>>
        /\ dial'[d].route = dial[d].route
    BY <1>3, <1>11 DEF Kept, Aim, RouteFields
  <2> QED
    BY <1>1, <1>2, <1>3, <1>4, <1>6, <1>11, <2>1, <2>2
<1> QED
  BY <1>9, <1>10, <1>11

LEMMA RouteDoneIs ==
    ASSUME RouteTypes, NEW d \in Dialers, Routes!RouteDone(d)
    PROVE  /\ OnlyDialOf(d) /\ Kept(d) /\ Aim(d) /\ dial[d].pc = "route"
           /\ Len(dial[d].path) + 1 > Len(Routes!Hops[dial[d].chain])
           /\ dial'[d].pc = "dial" /\ dial'[d].path = <<>> /\ dial'[d].route = dial[d].route
<1>1. DOMAIN dial[d] = RouteFields /\ d \in DOMAIN dial
  BY DEF RouteTypes, DialOK
<1>2. dial' = [dial EXCEPT ![d].pc = "dial", ![d].path = <<>>]
  BY DEF Routes!RouteDone
<1>3. OnlyDialOf(d)
  BY <1>2 DEF RouteTypes, OnlyDialOf
<1>4. /\ Kept(d) /\ Aim(d) /\ dial'[d].pc = "dial" /\ dial'[d].path = <<>>
      /\ dial'[d].route = dial[d].route
  BY <1>1, <1>2 DEF Kept, Aim, RouteFields
<1> QED
  BY <1>3, <1>4 DEF Routes!RouteDone, Routes!HopIndex

LEMMA TransportIs ==
    ASSUME RouteTypes, NEW d \in Dialers, Routes!Transport(d)
    PROVE  LET r == dial[d]
               x == dial[d].route[1].node IN
           /\ OnlyDialOf(d) /\ Kept(d) /\ Aim(d) /\ r.pc = "dial"
           /\ \/ /\ r.route = <<>> \/ x \notin Routes!Mux
                 /\ dial'[d].pc = "connect" /\ dial'[d].path = r.path /\ dial'[d].route = r.route
              \/ /\ r.route # <<>> /\ x \in Routes!Mux /\ session[x] # <<>>
                 /\ dial'[d].pc = "connect" /\ dial'[d].path = session[x]
                 /\ dial'[d].route = Tail(r.route)
              \/ /\ r.route # <<>> /\ x \in Routes!Mux /\ session[x] = <<>>
                 /\ dial'[d].pc = (IF via[x] = <<>> THEN "connect" ELSE "dial")
                 /\ dial'[d].path = r.path /\ dial'[d].route = via[x] \o r.route
           /\ UNCHANGED <<fails, expired>> \/ \E M : Routes!Reset(M)
<1>1. PICK r, x : r = dial[d] /\ x = dial[d].route[1].node
  OBVIOUS
<1>2. DOMAIN r = RouteFields /\ d \in DOMAIN dial
  BY <1>1 DEF RouteTypes, DialOK
<1>3. /\ r.pc = "dial"
      /\ \/ /\ r.route = <<>> \/ x \notin Routes!Mux
            /\ dial' = [dial EXCEPT ![d].pc = "connect"]
         \/ /\ r.route # <<>> /\ x \in Routes!Mux /\ session[x] # <<>>
            /\ dial' = [dial EXCEPT ![d].pc = "connect", ![d].path = session[x],
                                    ![d].route = Tail(@)]
         \/ /\ r.route # <<>> /\ x \in Routes!Mux /\ session[x] = <<>>
            /\ dial' = [dial EXCEPT ![d].pc = IF via[x] = <<>> THEN "connect" ELSE "dial",
                                    ![d].route = via[x] \o @]
      /\ UNCHANGED <<fails, expired>> \/ \E M : Routes!Reset(M)
  BY <1>1, Zenon DEF Routes!Transport, Routes!Head1
<1>4. CASE /\ r.route = <<>> \/ x \notin Routes!Mux
           /\ dial' = [dial EXCEPT ![d].pc = "connect"]
  <2>1. OnlyDialOf(d)
    BY <1>4 DEF RouteTypes, OnlyDialOf
  <2>2. dial'[d] = [r EXCEPT !.pc = "connect"]
    BY <1>1, <1>2, <1>4
  <2> QED
    BY <1>1, <1>2, <1>3, <1>4, <2>1, <2>2 DEF Kept, Aim, RouteFields
<1>5. CASE /\ r.route # <<>> /\ x \in Routes!Mux /\ session[x] # <<>>
           /\ dial' = [dial EXCEPT ![d].pc = "connect", ![d].path = session[x],
                                   ![d].route = Tail(@)]
  <2>1. OnlyDialOf(d)
    BY <1>5 DEF RouteTypes, OnlyDialOf
  <2>2. dial'[d] = [r EXCEPT !.pc = "connect", !.path = session[x], !.route = Tail(r.route)]
    BY <1>1, <1>2, <1>5
  <2> QED
    BY <1>1, <1>2, <1>3, <1>5, <2>1, <2>2 DEF Kept, Aim, RouteFields
<1>6. CASE /\ r.route # <<>> /\ x \in Routes!Mux /\ session[x] = <<>>
           /\ dial' = [dial EXCEPT ![d].pc = IF via[x] = <<>> THEN "connect" ELSE "dial",
                                   ![d].route = via[x] \o @]
  <2>1. OnlyDialOf(d)
    BY <1>6 DEF RouteTypes, OnlyDialOf
  <2>2. dial'[d] = [r EXCEPT !.pc = IF via[x] = <<>> THEN "connect" ELSE "dial",
                             !.route = via[x] \o r.route]
    BY <1>1, <1>2, <1>6
  <2> QED
    BY <1>1, <1>2, <1>3, <1>6, <2>1, <2>2 DEF Kept, Aim, RouteFields
<1> QED
  BY <1>3, <1>4, <1>5, <1>6

LEMMA ReachedIs ==
    ASSUME RouteTypes, NEW d \in Dialers, Routes!Reached(d)
    PROVE  LET r == dial[d]
               l == dial[d].route[1] IN
           /\ OnlyDialOf(d) /\ Kept(d) /\ Aim(d) /\ r.pc = "connect"
           /\ r.route # <<>> /\ Routes!NodesOf(r.path) \cup {l.node} \subseteq reachable
           /\ dial'[d].pc = "connect" /\ dial'[d].path = Append(r.path, l)
           /\ dial'[d].route = Tail(r.route)
           /\ session' = IF l.node \in Routes!Mux
                         THEN [session EXCEPT ![l.node] = Append(r.path, l)]
                         ELSE session
           /\ \E M : Routes!Reset(M)
<1>1. PICK r, l : r = dial[d] /\ l = dial[d].route[1]
  OBVIOUS
<1>2. DOMAIN r = RouteFields /\ d \in DOMAIN dial
  BY <1>1 DEF RouteTypes, DialOK
<1>3. /\ r.pc = "connect" /\ r.route # <<>>
      /\ Routes!NodesOf(r.path) \cup {l.node} \subseteq reachable
      /\ dial' = [dial EXCEPT ![d].path = Append(@, l), ![d].route = Tail(@)]
      /\ session' = IF l.node \in Routes!Mux
                    THEN [session EXCEPT ![l.node] = Append(r.path, l)] ELSE session
  BY <1>1 DEF Routes!Reached, Routes!Head1
<1>4. \E M : Routes!Reset(M)
  BY DEF Routes!Reached
<1>5. OnlyDialOf(d)
  BY <1>3 DEF RouteTypes, OnlyDialOf
<1>6. /\ Kept(d) /\ Aim(d) /\ dial'[d].pc = r.pc /\ dial'[d].path = Append(r.path, l)
      /\ dial'[d].route = Tail(r.route)
  BY <1>1, <1>2, <1>3 DEF Kept, Aim, RouteFields
<1> QED
  BY <1>1, <1>3, <1>4, <1>5, <1>6

LEMMA AgainIs ==
    ASSUME RouteTypes, NEW d \in Dialers, Routes!Again(d)
    PROVE  /\ OnlyDialOf(d) /\ Kept(d)
           /\ dial'[d].try = dial[d].try + 1 /\ dial'[d].chain = dial[d].chain
           /\ dial'[d].pc = (IF dial[d].try < Retries THEN "chain" ELSE "failed")
           /\ dial'[d].route = dial[d].route /\ dial'[d].path = dial[d].path
<1>1. DOMAIN dial[d] = RouteFields /\ d \in DOMAIN dial
  BY DEF RouteTypes, DialOK
<1>2. dial' = [dial EXCEPT ![d].try = @ + 1,
                 ![d].pc = IF dial[d].try < Retries THEN "chain" ELSE "failed"]
  BY DEF Routes!Again
<1>3. OnlyDialOf(d)
  BY <1>2 DEF RouteTypes, OnlyDialOf
<1> QED
  BY <1>1, <1>2, <1>3 DEF Kept, RouteFields

(* The rest of the route behind the next node that multiplexes.            *)
LEMMA OuterIs ==
    ASSUME NEW s \in Seq(Routes!Legs)
    PROVE  \/ /\ Routes!Outer(s) = <<>>
              /\ \A i \in 2..Len(s) : s[i].node \notin Routes!Mux
           \/ \E k \in 2..Len(s) : /\ s[k].node \in Routes!Mux
                                   /\ Routes!Outer(s) = SubSeq(s, k, Len(s))
                                   /\ Routes!Outer(s) \in Seq(Routes!Legs)
                                   /\ Routes!Outer(s) # <<>>
<1> DEFINE I == {i \in 2..Len(s) : s[i].node \in Routes!Mux}
<1>1. CASE I = {}
  BY <1>1 DEF Routes!Outer
<1>2. CASE I # {}
  <2>1. I \subseteq Nat
    OBVIOUS
  <2>2. \E i \in I : \A k \in I : i <= k
    <3> HIDE DEF I
    <3> QED
      BY <1>2, <2>1, LeastNumber
  <2>3. PICK k \in I : k = CHOOSE i \in I : \A m \in I : i <= m
    BY <2>2
  <2>4. Routes!Outer(s) = SubSeq(s, k, Len(s))
    BY <1>2, <2>3 DEF Routes!Outer
  <2>5. SubSeq(s, k, Len(s)) \in Seq(Routes!Legs) /\ Len(SubSeq(s, k, Len(s))) # 0
    OBVIOUS
  <2>6. k \in 2..Len(s) /\ s[k].node \in Routes!Mux
    BY <2>3
  <2>7. PICK o : o = SubSeq(s, k, Len(s))
    OBVIOUS
  <2>8. o \in Seq(Routes!Legs) /\ Routes!Outer(s) = o /\ Len(o) # 0
    BY <2>4, <2>5, <2>7
  <2>9. o # <<>>
    BY <2>8
  <2> QED
    BY <2>6, <2>7, <2>8, <2>9
<1> QED
  BY <1>1, <1>2

LEMMA UnreachedIs ==
    ASSUME RouteTypes, NEW d \in Dialers, Routes!Unreached(d)
    PROVE  LET r == dial[d]
               l == dial[d].route[1]
               o == Routes!Outer(dial[d].route) IN
           /\ OnlyDialOf(d) /\ Kept(d) /\ dial'[d].chain = r.chain /\ dial'[d].path = r.path
           /\ \/ /\ r.pc = "connect" /\ r.route # <<>>
                 /\ ~(Routes!NodesOf(r.path) \cup {l.node} \subseteq reachable)
              \/ r.pc = "unwind"
           /\ Routes!Mark({l.node, l.chain})
           /\ \/ /\ o = <<>> /\ dial'[d].try = r.try + 1 /\ dial'[d].route = r.route
                 /\ dial'[d].pc = (IF r.try < Retries THEN "chain" ELSE "failed")
              \/ /\ o # <<>> /\ dial'[d].try = r.try /\ dial'[d].route = o
                 /\ dial'[d].pc = "unwind"
           /\ UNCHANGED <<net, strategy, reachable, counter, via, session, dials, changes>>
<1>1. PICK r, l, o : r = dial[d] /\ l = dial[d].route[1] /\ o = Routes!Outer(dial[d].route)
  OBVIOUS
<1>2. DOMAIN r = RouteFields /\ d \in DOMAIN dial
  BY <1>1 DEF RouteTypes, DialOK
<1>3. /\ \/ /\ r.pc = "connect" /\ r.route # <<>>
            /\ ~(Routes!NodesOf(r.path) \cup {l.node} \subseteq reachable)
         \/ r.pc = "unwind"
      /\ Routes!Mark({l.node, l.chain})
      /\ \/ o = <<>> /\ Routes!Again(d)
         \/ o # <<>> /\ dial' = [dial EXCEPT ![d].pc = "unwind", ![d].route = o]
      /\ UNCHANGED <<net, strategy, reachable, counter, via, session, dials, changes>>
  BY <1>1 DEF Routes!Unreached, Routes!Fails, Routes!GiveUp, Routes!Head1
<1>4. CASE o = <<>> /\ Routes!Again(d)
  BY <1>1, <1>3, <1>4, AgainIs
<1>5. CASE o # <<>> /\ dial' = [dial EXCEPT ![d].pc = "unwind", ![d].route = o]
  <2>1. OnlyDialOf(d)
    BY <1>5 DEF RouteTypes, OnlyDialOf
  <2>2. dial'[d] = [r EXCEPT !.pc = "unwind", !.route = o]
    BY <1>1, <1>2, <1>5
  <2> QED
    BY <1>1, <1>2, <1>3, <1>5, <2>1, <2>2 DEF Kept, RouteFields
<1> QED
  BY <1>3, <1>4, <1>5

LEMMA ConnectedIs ==
    ASSUME RouteTypes, NEW d \in Dialers, Routes!Connected(d)
    PROVE  /\ OnlyDialOf(d) /\ Kept(d) /\ Aim(d) /\ dial[d].pc = "connect"
           /\ dial[d].route = <<>>
           /\ dial'[d].pc = "connected"
           /\ dial'[d].route = dial[d].route /\ dial'[d].path = dial[d].path
<1>1. DOMAIN dial[d] = RouteFields /\ d \in DOMAIN dial
  BY DEF RouteTypes, DialOK
<1>2. dial' = [dial EXCEPT ![d].pc = "connected"]
  BY DEF Routes!Connected
<1>3. OnlyDialOf(d)
  BY <1>2 DEF RouteTypes, OnlyDialOf
<1> QED
  BY <1>1, <1>2, <1>3 DEF Kept, Aim, RouteFields, Routes!Connected

LEMMA SpoiledIs ==
    ASSUME RouteTypes, dial' = Routes!Spoiled
    PROVE  /\ DOMAIN dial' = Dialers
           /\ \A d \in Dialers :
                /\ DOMAIN dial'[d] = RouteFields /\ ~dial'[d].good
                /\ dial'[d].pc = dial[d].pc /\ dial'[d].try = dial[d].try
                /\ dial'[d].chain = dial[d].chain
                /\ dial'[d].service = dial[d].service /\ dial'[d].target = dial[d].target
                /\ dial'[d].route = dial[d].route /\ dial'[d].path = dial[d].path
<1>1. dial' = [d \in Dialers |-> [dial[d] EXCEPT !.good = FALSE]]
  BY DEF Routes!Spoiled
<1>2. ASSUME NEW d \in Dialers
      PROVE  /\ DOMAIN dial'[d] = RouteFields /\ ~dial'[d].good
             /\ dial'[d].pc = dial[d].pc /\ dial'[d].try = dial[d].try
             /\ dial'[d].chain = dial[d].chain
             /\ dial'[d].service = dial[d].service /\ dial'[d].target = dial[d].target
             /\ dial'[d].route = dial[d].route /\ dial'[d].path = dial[d].path
  <2>1. DOMAIN dial[d] = RouteFields
    BY DEF RouteTypes, DialOK
  <2>2. dial'[d] = [dial[d] EXCEPT !.good = FALSE]
    BY <1>1
  <2> QED
    BY <2>1, <2>2 DEF RouteFields
<1> QED
  BY <1>1, <1>2

-----------------------------------------------------------------------------
(* The types.                                                              *)
LEMMA SameNet ==
    ASSUME UNCHANGED net
    PROVE  /\ Routes!Nodes' = Routes!Nodes /\ Routes!Chains' = Routes!Chains
           /\ Routes!Hops' = Routes!Hops /\ Routes!Groups' = Routes!Groups
           /\ Routes!Entries' = Routes!Entries /\ Routes!Targets' = Routes!Targets
           /\ Routes!Mux' = Routes!Mux /\ Routes!Marked' = Routes!Marked
           /\ Routes!Counters' = Routes!Counters /\ Routes!Legs' = Routes!Legs
           /\ net' = net
<1>1. /\ Routes!Nodes' = Routes!Nodes /\ Routes!Chains' = Routes!Chains
      /\ Routes!Hops' = Routes!Hops /\ Routes!Groups' = Routes!Groups
      /\ Routes!Entries' = Routes!Entries /\ Routes!Targets' = Routes!Targets
      /\ Routes!Mux' = Routes!Mux
  BY DEF Routes!Nodes, Routes!Chains, Routes!Hops, Routes!Groups, Routes!Entries,
     Routes!Targets, Routes!Mux
<1> QED
  BY <1>1 DEF Routes!Marked, Routes!Counters, Routes!Legs

LEMMA SameRest ==
    ASSUME RouteRest, UNCHANGED <<net, strategy>>,
           reachable' \subseteq Routes!Nodes,
           fails' \in [Routes!Marked -> 0..MaxFails], expired' \subseteq Routes!Marked,
           counter' \in [Routes!Counters -> 0..Turns - 1],
           via' \in [Routes!Mux -> Seq(Routes!Legs)],
           session' \in [Routes!Mux -> Seq(Routes!Legs)],
           dials' \in 0..MaxDials, changes' \in 0..MaxFlips
    PROVE  RouteRest'
BY SameNet DEF RouteRest

LEMMA RouteInit == Routes!Init => RouteTypes
<1> SUFFICES ASSUME Routes!Init PROVE RouteTypes
  OBVIOUS
<1>1. RouteRest
  <2>1. 0 \in 0..MaxFails /\ 0 \in 0..Turns - 1 /\ 0 \in 0..MaxDials /\ 0 \in 0..MaxFlips
    BY RouteNumbers
  <2>2. <<>> \in Seq(Routes!Legs)
    OBVIOUS
  <2> QED
    BY <2>1, <2>2 DEF Routes!Init, RouteRest
<1>2. DialOK(Routes!Idle)
  <2>1. 0 \in 0..(Retries + 1) /\ <<>> \in Seq(Routes!Legs)
    BY RouteNumbers
  <2> QED
    BY <2>1 DEF DialOK, Routes!Idle, RouteFields, RoutePcs
<1>3. DOMAIN dial = Dialers /\ \A d \in Dialers : dial[d] = Routes!Idle
  BY DEF Routes!Init
<1> QED
  BY <1>1, <1>2, <1>3 DEF RouteTypes

LEMMA RouteStepKeeps ==
    ASSUME RouteTypes, NEW d \in Dialers, RouteRest', UNCHANGED net, OnlyDialOf(d),
           DialOK(dial'[d])
    PROVE  RouteTypes'
<1>1. \A x \in Dialers : DialOK(dial'[x])
  BY DEF RouteTypes, OnlyDialOf
<1>2. \A x \in Dialers : DialOK(dial[x])'
  BY <1>1 DEF DialOK, Routes!Legs, Routes!Nodes, Routes!Entries, Routes!Targets, Routes!Chains, Routes!Hops,
     Routes!Groups
<1> QED
  BY <1>2 DEF RouteTypes, OnlyDialOf

LEMMA MarkedType ==
    ASSUME RouteRest, NEW M, Routes!Mark(M) \/ Routes!Reset(M)
    PROVE  fails' \in [Routes!Marked -> 0..MaxFails] /\ expired' \subseteq Routes!Marked
<1>1. \A x \in Routes!Marked : fails[x] \in 0..MaxFails
  BY DEF RouteRest
<1>2. CASE Routes!Mark(M)
  <2>1. fails' = [x \in Routes!Marked |-> IF x \in M /\ fails[x] < MaxFails
                                          THEN fails[x] + 1 ELSE fails[x]]
    BY <1>2 DEF Routes!Mark
  <2>2. \A x \in Routes!Marked : (IF x \in M /\ fails[x] < MaxFails
                                  THEN fails[x] + 1 ELSE fails[x]) \in 0..MaxFails
    BY <1>1, RouteNumbers
  <2> QED
    BY <1>2, <2>1, <2>2 DEF Routes!Mark, RouteRest
<1>3. CASE Routes!Reset(M)
  BY <1>1, <1>3, RouteNumbers DEF Routes!Reset, RouteRest
<1> QED
  BY <1>2, <1>3

LEMMA StartTypes ==
    ASSUME RouteTypes, NEW d \in Dialers, NEW s \in Routes!Entries, NEW t \in Routes!Targets,
           Routes!Start(d, s, t)
    PROVE  RouteTypes'
<1>1. RouteRest'
  <2>1. dials' \in 0..MaxDials
    BY RouteNumbers DEF Routes!Start, RouteTypes, RouteRest
  <2> QED
    BY <2>1, SameRest DEF Routes!Start, RouteTypes, RouteRest
<1>2. DialOK(dial'[d])
  <2>1. 0 \in 0..(Retries + 1) /\ 0 <= Retries /\ <<>> \in Seq(Routes!Legs)
    BY RouteNumbers
  <2> QED
    BY <2>1, StartIs, ZenonT(40) DEF DialOK, RoutePcs
<1> QED
  BY <1>1, <1>2, StartIs, RouteStepKeeps DEF Routes!Start

LEMMA StepRest ==
    ASSUME RouteTypes, NEW d \in Dialers, Routes!Step(d)
    PROVE  RouteRest' /\ UNCHANGED <<net, strategy, reachable, dials, changes>>
<1>1. UNCHANGED <<net, strategy, reachable, dials, changes>>
  BY DEF Routes!Step, Routes!PickChain, Routes!PickNode, Routes!RouteDone, Routes!Transport,
     Routes!Reached, Routes!Unreached, Routes!GiveUp, Routes!Connected, Routes!Broken
<1>2. fails' \in [Routes!Marked -> 0..MaxFails] /\ expired' \subseteq Routes!Marked
  <2>1. CASE UNCHANGED <<fails, expired>>
    BY <2>1 DEF RouteTypes, RouteRest
  <2>2. CASE \E M : Routes!Mark(M) \/ Routes!Reset(M)
    BY <2>2, MarkedType DEF RouteTypes
  <2> QED
    BY <2>1, <2>2, TransportIs, ReachedIs, UnreachedIs DEF Routes!Step, Routes!PickChain,
       Routes!PickNode, Routes!RouteDone, Routes!Connected, Routes!Broken
<1>3. counter' \in [Routes!Counters -> 0..Turns - 1]
  <2>0. counter \in [Routes!Counters -> 0..Turns - 1]
    BY DEF RouteTypes, RouteRest
  <2>1. CASE UNCHANGED counter
    BY <2>0, <2>1
  <2>2. CASE Routes!PickChain(d)
    <3>1. UNCHANGED counter \/ \E vs, I, c : Routes!Turn(vs, I, c)
      BY <2>2 DEF Routes!PickChain
    <3> QED
      BY <2>0, <3>1, TurnType
  <2>3. CASE Routes!PickNode(d)
    <3>1. \E vs, I, c : Routes!HopTurn(vs, I, c)
      BY <2>3 DEF Routes!PickNode
    <3> QED
      BY <2>0, <3>1, HopTurnType
  <2> QED
    BY <2>1, <2>2, <2>3 DEF Routes!Step, Routes!RouteDone,
       Routes!Transport, Routes!Reached, Routes!Unreached, Routes!GiveUp, Routes!Connected,
       Routes!Broken
<1>4. via' \in [Routes!Mux -> Seq(Routes!Legs)]
  <2>1. CASE UNCHANGED via
    BY <2>1 DEF RouteTypes, RouteRest
  <2>2. CASE Routes!PickNode(d)
    <3>1. dial[d].route \in Seq(Routes!Legs)
      BY DEF RouteTypes, DialOK
    <3>2. \/ UNCHANGED via
          \/ \E x \in Routes!Mux : via' = [via EXCEPT ![x] = dial[d].route]
      BY <2>2, PickNodeIs
    <3> QED
      BY <3>1, <3>2 DEF RouteTypes, RouteRest
  <2> QED
    BY <2>1, <2>2 DEF Routes!Step, Routes!PickChain, Routes!RouteDone,
       Routes!Transport, Routes!Reached, Routes!Unreached, Routes!GiveUp, Routes!Connected,
       Routes!Broken
<1>5. session' \in [Routes!Mux -> Seq(Routes!Legs)]
  <2>1. CASE UNCHANGED session
    BY <2>1 DEF RouteTypes, RouteRest
  <2>2. CASE Routes!Reached(d)
    <3>1. PICK p, l : p = dial[d].path /\ l = dial[d].route[1]
      OBVIOUS
    <3>2. \/ UNCHANGED session
          \/ l.node \in Routes!Mux /\ session' = [session EXCEPT ![l.node] = Append(p, l)]
      BY <2>2, <3>1, ReachedIs
    <3>3. Append(p, l) \in Seq(Routes!Legs)
      <4>1. p \in Seq(Routes!Legs) /\ dial[d].route \in Seq(Routes!Legs) /\ dial[d].route # <<>>
        BY <2>2, <3>1, ReachedIs DEF RouteTypes, DialOK
      <4>2. l \in Routes!Legs
        BY <3>1, <4>1
      <4> QED
        BY <4>1, <4>2
    <3> QED
      BY <3>2, <3>3 DEF RouteTypes, RouteRest
  <2> QED
    BY <2>1, <2>2 DEF Routes!Step, Routes!PickChain, Routes!PickNode, Routes!RouteDone,
       Routes!Transport, Routes!Unreached, Routes!GiveUp, Routes!Connected, Routes!Broken
<1> QED
  BY <1>1, <1>2, <1>3, <1>4, <1>5, SameRest DEF RouteTypes, RouteRest

LEMMA StepTypes ==
    ASSUME RouteTypes, NEW d \in Dialers, Routes!Step(d)
    PROVE  RouteTypes'
<1>1. RouteRest' /\ UNCHANGED net
  BY StepRest
<1>2. DialOK(dial[d])
  BY DEF RouteTypes
<1>3. PICK r : r = dial[d]
  OBVIOUS
<1>4. /\ r.try \in 0..(Retries + 1) /\ r.route \in Seq(Routes!Legs) /\ r.path \in Seq(Routes!Legs)
      /\ r.pc # "idle" => r.service \in Routes!Entries /\ r.target \in Routes!Targets
      /\ r.pc \in {"chain", "route", "dial", "connect", "unwind"} => r.try <= Retries
      /\ r.pc = "route" => r.chain \in Routes!Chains
  BY <1>2, <1>3 DEF DialOK
<1>5. /\ via \in [Routes!Mux -> Seq(Routes!Legs)] /\ session \in [Routes!Mux -> Seq(Routes!Legs)]
      /\ Routes!Mux \subseteq Routes!Nodes
  BY NetFacts DEF RouteTypes, RouteRest
<1>6. CASE Routes!PickChain(d)
  <2>1. <<>> \in Seq(Routes!Legs)
    OBVIOUS
  <2>2. DialOK(dial'[d]) /\ OnlyDialOf(d)
    BY <1>3, <1>4, <1>6, <2>1, PickChainIs DEF DialOK, Kept, RoutePcs
  <2> QED
    BY <1>1, <2>2, RouteStepKeeps
<1>7. CASE Routes!PickNode(d)
  <2>1. /\ OnlyDialOf(d) /\ Kept(d) /\ Aim(d) /\ r.pc = "route" /\ r.chain \in Routes!Chains
        /\ \/ \E x \in Routes!Nodes :
                 /\ dial'[d].pc = "route" /\ dial'[d].path = Append(r.path, Leg(x, r.chain))
                 /\ dial'[d].route = IF x \in Routes!Mux THEN <<Leg(x, r.chain)>>
                                     ELSE Append(r.route, Leg(x, r.chain))
           \/ /\ dial'[d].pc = "dial" /\ dial'[d].path = <<>>
              /\ dial'[d].route = r.route
    BY <1>3, <1>7, PickNodeIs
  <2>2. dial'[d].route \in Seq(Routes!Legs) /\ dial'[d].path \in Seq(Routes!Legs)
    <3>1. \A x \in Routes!Nodes : /\ <<Leg(x, r.chain)>> \in Seq(Routes!Legs)
                                  /\ Append(r.route, Leg(x, r.chain)) \in Seq(Routes!Legs)
                                  /\ Append(r.path, Leg(x, r.chain)) \in Seq(Routes!Legs)
      BY <1>4, <2>1, LegIs
    <3>2. CASE \E x \in Routes!Nodes :
                  /\ dial'[d].path = Append(r.path, Leg(x, r.chain))
                  /\ dial'[d].route = IF x \in Routes!Mux THEN <<Leg(x, r.chain)>>
                                      ELSE Append(r.route, Leg(x, r.chain))
      BY <3>1, <3>2
    <3>3. CASE dial'[d].path = <<>> /\ dial'[d].route = r.route
      BY <1>4, <3>3
    <3> QED
      BY <2>1, <3>2, <3>3
  <2>3. DialOK(dial'[d])
    BY <1>3, <1>4, <2>1, <2>2 DEF DialOK, Kept, Aim, RoutePcs
  <2> QED
    BY <1>1, <2>1, <2>3, RouteStepKeeps
<1>8. CASE Routes!RouteDone(d)
  <2>1. <<>> \in Seq(Routes!Legs)
    OBVIOUS
  <2>2. DialOK(dial'[d]) /\ OnlyDialOf(d)
    BY <1>3, <1>4, <1>8, <2>1, RouteDoneIs DEF DialOK, Kept, Aim, RoutePcs
  <2> QED
    BY <1>1, <2>2, RouteStepKeeps
<1>9. CASE Routes!Transport(d)
  <2>1. /\ OnlyDialOf(d) /\ Kept(d) /\ Aim(d) /\ r.pc = "dial"
        /\ dial'[d].pc \in {"connect", "dial"}
    BY <1>3, <1>9, TransportIs
  <2>2. dial'[d].route \in Seq(Routes!Legs) /\ dial'[d].path \in Seq(Routes!Legs)
    <3>1. r.route # <<>> => Tail(r.route) \in Seq(Routes!Legs)
      BY <1>4
    <3>2. \A x \in Routes!Mux : /\ session[x] \in Seq(Routes!Legs)
                                /\ via[x] \o r.route \in Seq(Routes!Legs)
      <4>1. \A x \in Routes!Mux : via[x] \in Seq(Routes!Legs) /\ session[x] \in Seq(Routes!Legs)
        BY <1>5
      <4>2. \A w \in Seq(Routes!Legs) : w \o r.route \in Seq(Routes!Legs)
        BY <1>4
      <4> QED
        BY <4>1, <4>2
    <3> QED
      BY <1>3, <1>4, <1>9, <3>1, <3>2, TransportIs
  <2>3. DialOK(dial'[d])
    BY <1>3, <1>4, <2>1, <2>2 DEF DialOK, Kept, Aim, RoutePcs
  <2> QED
    BY <1>1, <2>1, <2>3, RouteStepKeeps
<1>10. CASE Routes!Reached(d)
  <2>1. /\ OnlyDialOf(d) /\ Kept(d) /\ Aim(d) /\ r.pc = "connect" /\ r.route # <<>>
        /\ dial'[d].pc = "connect" /\ dial'[d].path = Append(r.path, r.route[1])
        /\ dial'[d].route = Tail(r.route)
    BY <1>3, <1>10, ReachedIs
  <2>2. Append(r.path, r.route[1]) \in Seq(Routes!Legs) /\ Tail(r.route) \in Seq(Routes!Legs)
    BY <1>4, <2>1
  <2>3. DialOK(dial'[d])
    BY <1>3, <1>4, <2>1, <2>2 DEF DialOK, Kept, Aim, RoutePcs
  <2> QED
    BY <1>1, <2>1, <2>3, RouteStepKeeps
<1>11. CASE Routes!Unreached(d)
  <2>1. PICK o : o = Routes!Outer(r.route)
    OBVIOUS
  <2>2. o \in Seq(Routes!Legs)
    <3>1. <<>> \in Seq(Routes!Legs)
      OBVIOUS
    <3> QED
      BY <1>4, <2>1, <3>1, OuterIs
  <2>3. /\ OnlyDialOf(d) /\ Kept(d) /\ dial'[d].chain = r.chain /\ dial'[d].path = r.path
        /\ r.pc \in {"connect", "unwind"}
        /\ \/ /\ dial'[d].try = r.try + 1 /\ dial'[d].route = r.route
              /\ dial'[d].pc = (IF r.try < Retries THEN "chain" ELSE "failed")
           \/ /\ dial'[d].try = r.try /\ dial'[d].route = o
              /\ dial'[d].pc = "unwind"
    BY <1>3, <1>11, <2>1, UnreachedIs
  <2>4. DialOK(dial'[d])
    BY <1>3, <1>4, <2>2, <2>3, RouteNumbers DEF DialOK, Kept, RoutePcs
  <2> QED
    BY <1>1, <2>3, <2>4, RouteStepKeeps
<1>12. CASE Routes!Broken(d)
  <2>1. Routes!Again(d) /\ r.pc = "connect"
    BY <1>3, <1>12 DEF Routes!Broken
  <2>2. DialOK(dial'[d]) /\ OnlyDialOf(d)
    BY <1>3, <1>4, <2>1, AgainIs, RouteNumbers DEF DialOK, Kept, RoutePcs
  <2> QED
    BY <1>1, <2>2, RouteStepKeeps
<1>13. CASE Routes!Connected(d)
  <2>1. DialOK(dial'[d]) /\ OnlyDialOf(d)
    BY <1>3, <1>4, <1>13, ConnectedIs DEF DialOK, Kept, Aim, RoutePcs
  <2> QED
    BY <1>1, <2>1, RouteStepKeeps
<1> QED
  BY <1>6, <1>7, <1>8, <1>9, <1>10, <1>11, <1>12, <1>13 DEF Routes!Step

LEMMA SpoilTypes ==
    ASSUME RouteTypes, (\E x \in Routes!Nodes : Routes!Flip(x)) \/ (\E m \in Routes!Marked : Routes!Expire(m))
    PROVE  RouteTypes'
<1>1. UNCHANGED <<net, strategy, fails, counter, via, dials>> /\ dial' = Routes!Spoiled
  BY DEF Routes!Flip, Routes!Expire
<1>2. changes' \in 0..MaxFlips
  BY RouteNumbers DEF Routes!Flip, Routes!Expire, RouteTypes, RouteRest
<1>3. reachable' \subseteq Routes!Nodes /\ expired' \subseteq Routes!Marked
  BY DEF Routes!Flip, Routes!Expire, RouteTypes, RouteRest
<1>4. session' \in [Routes!Mux -> Seq(Routes!Legs)]
  <2>1. \A m \in Routes!Mux : session[m] \in Seq(Routes!Legs)
    BY DEF RouteTypes, RouteRest
  <2>2. CASE \E x \in Routes!Nodes : Routes!Flip(x)
    <3>1. PICK x \in Routes!Nodes : Routes!Flip(x)
      BY <2>2
    <3>2. session' = [m \in Routes!Mux |-> IF x \in Routes!NodesOf(session[m]) THEN <<>> ELSE session[m]]
      BY <3>1 DEF Routes!Flip
    <3>3. <<>> \in Seq(Routes!Legs)
      OBVIOUS
    <3> QED
      BY <2>1, <3>2, <3>3
  <2>3. CASE \E m \in Routes!Marked : Routes!Expire(m)
    BY <2>3 DEF Routes!Expire, RouteTypes, RouteRest
  <2> QED
    BY <2>2, <2>3
<1>5. RouteRest'
  BY <1>1, <1>2, <1>3, <1>4, SameRest DEF RouteTypes, RouteRest
<1>6. ASSUME NEW d \in Dialers PROVE DialOK(dial[d])'
  BY <1>1, SpoiledIs DEF RouteTypes, DialOK, Routes!Legs, Routes!Nodes, Routes!Entries, Routes!Targets,
     Routes!Chains, Routes!Hops, Routes!Groups
<1>7. DOMAIN dial' = Dialers
  BY <1>1, SpoiledIs
<1> QED
  BY <1>5, <1>6, <1>7 DEF RouteTypes

LEMMA RouteTypesNext == RouteTypes /\ [Routes!Next]_routeVars => RouteTypes'
<1> SUFFICES ASSUME RouteTypes, [Routes!Next]_routeVars PROVE RouteTypes'
  OBVIOUS
<1>1. CASE UNCHANGED routeVars
  <2>1. RouteRest'
    BY <1>1, SameRest DEF routeVars, RouteTypes, RouteRest
  <2>2. DOMAIN dial' = Dialers /\ \A d \in Dialers : DialOK(dial'[d])
    BY <1>1 DEF routeVars, RouteTypes
  <2>3. \A d \in Dialers : DialOK(dial[d])'
    BY <1>1, <2>2, SameNet DEF routeVars, DialOK
  <2> QED
    BY <2>1, <2>2, <2>3 DEF RouteTypes
<1> QED
  BY <1>1, StartTypes, StepTypes, SpoilTypes DEF Routes!Next

LEMMA RouteTypesAreRight == RouteTypes => Routes!TypeOK
BY DEF RouteTypes, RouteRest, DialOK, Routes!TypeOK

-----------------------------------------------------------------------------
(* The chance of a dial stays good as long as no node and no marker changes *)
(* by itself: see below, when it is known where dials go.                   *)
ChanceOf(r) == r.good => r.service \in Routes!Entries /\ Routes!GoodChance(r.service, r.target)
ChanceInv == \A d \in Dialers : ChanceOf(dial[d])

-----------------------------------------------------------------------------
(* The legs of s are of hops one after the other, from the a-th on: of the *)
(* chain c, unless chains share nodes that multiplex.                      *)
On(c, i, l) ==
    /\ i \in DOMAIN Routes!Hops[l.chain] /\ Located(l.chain, i, l.node)
    /\ Routes!Shared \/ l.chain = c
Seg(s, c, a) ==
    /\ s \in Seq(Routes!Legs) /\ a \in Nat \ {0}
    /\ \A j \in 1..Len(s) : On(c, a + j - 1, s[j])
HopsOf(c) == Len(Routes!Hops[c])

LEMMA HopsOfType ==
    ASSUME net \in Nets, NEW c \in Routes!Chains
    PROVE  HopsOf(c) \in Nat /\ DOMAIN Routes!Hops[c] = 1..HopsOf(c)
BY NetFacts DEF HopsOf

LEMMA SegEmpty ==
    ASSUME NEW c
    PROVE  Seg(<<>>, c, 1)
BY DEF Seg

LEMMA SegOther ==
    ASSUME NEW s, NEW c, NEW e, NEW a, Seg(s, c, a), Routes!Shared \/ c = e
    PROVE  Seg(s, e, a)
BY DEF Seg, On

LEMMA SegOne ==
    ASSUME NEW c, NEW i \in Nat \ {0}, NEW l \in Routes!Legs, On(c, i, l)
    PROVE  Seg(<<l>>, c, i) /\ Len(<<l>>) = 1 /\ <<l>>[1] = l /\ <<l>> # <<>>
<1>1. PICK s : s = <<l>>
  OBVIOUS
<1>2. s \in Seq(Routes!Legs) /\ Len(s) = 1 /\ s[1] = l /\ s # <<>>
  BY <1>1
<1>3. \A j \in 1..Len(s) : j = 1 /\ i + j - 1 = i
  BY <1>2
<1> QED
  BY <1>1, <1>2, <1>3 DEF Seg

LEMMA SegAppend ==
    ASSUME NEW c, NEW s, NEW a, Seg(s, c, a), NEW l \in Routes!Legs, On(c, a + Len(s), l)
    PROVE  /\ Seg(Append(s, l), c, a) /\ Len(Append(s, l)) = Len(s) + 1
           /\ Append(s, l) # <<>> /\ Append(s, l)[Len(s) + 1] = l
           /\ \A j \in 1..Len(s) : Append(s, l)[j] = s[j]
           /\ s # <<>> => Append(s, l)[1] = s[1]
<1>1. PICK n \in Nat : n = Len(s)
  BY DEF Seg
<1>2. PICK u : u = Append(s, l)
  OBVIOUS
<1>3. s \in Seq(Routes!Legs) /\ a \in Nat \ {0} /\ \A j \in 1..n : On(c, a + j - 1, s[j])
  BY <1>1 DEF Seg
<1>4. u \in Seq(Routes!Legs) /\ Len(u) = n + 1 /\ u[n + 1] = l /\ \A j \in 1..n : u[j] = s[j]
  BY <1>1, <1>2, <1>3, AppendProperties
<1>5. ASSUME NEW j \in 1..n + 1 PROVE On(c, a + j - 1, u[j])
  <2>1. CASE j = n + 1
    <3>1. a + j - 1 = a + n
      BY <1>3, <2>1
    <3> QED
      BY <1>1, <1>4, <2>1, <3>1
  <2>2. CASE j \in 1..n
    BY <1>3, <1>4, <2>2
  <2> QED
    BY <2>1, <2>2
<1>6. Seg(u, c, a)
  BY <1>1, <1>3, <1>4, <1>5 DEF Seg
<1>7. (s # <<>> => 1 \in 1..n) /\ u # <<>>
  <2>1. Len(u) # 0
    BY <1>4
  <2> QED
    BY <1>1, <1>3, <2>1
<1> QED
  BY <1>1, <1>2, <1>4, <1>6, <1>7

LEMMA SegTail ==
    ASSUME NEW c, NEW s, NEW a, Seg(s, c, a), s # <<>>
    PROVE  /\ Seg(Tail(s), c, a + 1) /\ Len(Tail(s)) = Len(s) - 1
           /\ On(c, a, s[1]) /\ s[1] \in Routes!Legs
           /\ \A j \in 1..Len(s) - 1 : Tail(s)[j] = s[j + 1]
           /\ IF Tail(s) = <<>> THEN Len(s) = 1
              ELSE Tail(s)[Len(Tail(s))] = s[Len(s)]
<1>1. PICK n \in Nat : n = Len(s)
  BY DEF Seg
<1>2. PICK u : u = Tail(s)
  OBVIOUS
<1>3. s \in Seq(Routes!Legs) /\ a \in Nat \ {0} /\ \A j \in 1..n : On(c, a + j - 1, s[j])
  BY <1>1 DEF Seg
<1>4. n > 0
  BY <1>1, <1>3
<1>5. u \in Seq(Routes!Legs) /\ Len(u) = n - 1 /\ \A j \in 1..n - 1 : u[j] = s[j + 1]
  BY <1>1, <1>2, <1>3, <1>4
<1>6. ASSUME NEW j \in 1..n - 1 PROVE On(c, (a + 1) + j - 1, u[j])
  <2>1. j + 1 \in 1..n /\ a + (j + 1) - 1 = (a + 1) + j - 1
    BY <1>3
  <2>2. On(c, a + (j + 1) - 1, s[j + 1])
    BY <1>3, <2>1
  <2> QED
    BY <1>5, <2>1, <2>2
<1>7. Seg(u, c, a + 1)
  BY <1>1, <1>3, <1>5, <1>6 DEF Seg
<1>8. On(c, a, s[1]) /\ s[1] \in Routes!Legs
  <2>1. 1 \in 1..n /\ a + 1 - 1 = a
    BY <1>3, <1>4
  <2> QED
    BY <1>1, <1>3, <2>1
<1>9. u = <<>> => n = 1
  BY <1>5
<1>10. u # <<>> => u[n - 1] = s[n]
  <2>1. u # <<>> => n - 1 \in 1..n - 1
    BY <1>4, <1>5
  <2>2. (n - 1) + 1 = n
    OBVIOUS
  <2> QED
    BY <1>5, <2>1, <2>2
<1> QED
  BY <1>1, <1>2, <1>5, <1>7, <1>8, <1>9, <1>10

LEMMA SegCat ==
    ASSUME NEW c, NEW s, NEW a, Seg(s, c, a), NEW t, Seg(t, c, a + Len(s))
    PROVE  /\ Seg(Cat(s, t), c, a) /\ Len(Cat(s, t)) = Len(s) + Len(t)
           /\ s # <<>> => Cat(s, t)[1] = s[1]
           /\ t # <<>> => Cat(s, t)[Len(s) + Len(t)] = t[Len(t)]
<1>1. PICK n \in Nat, m \in Nat : n = Len(s) /\ m = Len(t)
  BY DEF Seg
<1>2. PICK u : u = Cat(s, t)
  OBVIOUS
<1>3. /\ s \in Seq(Routes!Legs) /\ a \in Nat \ {0} /\ \A j \in 1..n : On(c, a + j - 1, s[j])
      /\ t \in Seq(Routes!Legs) /\ \A j \in 1..m : On(c, (a + n) + j - 1, t[j])
  BY <1>1 DEF Seg
<1>4. /\ u \in Seq(Routes!Legs) /\ Len(u) = n + m
      /\ \A i \in 1..n + m : u[i] = IF i <= n THEN s[i] ELSE t[i - n]
  BY <1>1, <1>2, <1>3, CatFacts
<1>5. ASSUME NEW j \in 1..n + m PROVE On(c, a + j - 1, u[j])
  <2>1. CASE j <= n
    <3>1. j \in 1..n
      BY <2>1
    <3> QED
      BY <1>3, <1>4, <2>1, <3>1
  <2>2. CASE ~(j <= n)
    <3>1. j - n \in 1..m /\ (a + n) + (j - n) - 1 = a + j - 1
      BY <1>3, <2>2
    <3>2. On(c, (a + n) + (j - n) - 1, t[j - n])
      BY <1>3, <3>1
    <3> QED
      BY <1>4, <2>2, <3>1, <3>2
  <2> QED
    BY <2>1, <2>2
<1>6. Seg(u, c, a)
  BY <1>1, <1>3, <1>4, <1>5 DEF Seg
<1>7. s # <<>> => u[1] = s[1]
  <2>1. s # <<>> => n > 0
    BY <1>1, <1>3
  <2> QED
    BY <1>4, <2>1
<1>8. t # <<>> => u[n + m] = t[m]
  <2>1. t # <<>> => m > 0
    BY <1>1, <1>3
  <2>2. (n + m) - n = m
    OBVIOUS
  <2> QED
    BY <1>4, <2>1, <2>2
<1> QED
  BY <1>1, <1>2, <1>4, <1>6, <1>7, <1>8

(* What is left from the k-th leg on.                                      *)
LEMMA SegRest ==
    ASSUME NEW c, NEW s, NEW a, Seg(s, c, a), NEW k \in 1..Len(s)
    PROVE  /\ Seg(SubSeq(s, k, Len(s)), c, a + k - 1)
           /\ SubSeq(s, k, Len(s))[1] = s[k]
           /\ SubSeq(s, k, Len(s))[Len(SubSeq(s, k, Len(s)))] = s[Len(s)]
<1>1. PICK n \in Nat : n = Len(s)
  BY DEF Seg
<1>2. PICK u : u = SubSeq(s, k, n)
  OBVIOUS
<1>3. s \in Seq(Routes!Legs) /\ a \in Nat \ {0} /\ \A j \in 1..n : On(c, a + j - 1, s[j])
  BY <1>1 DEF Seg
<1>4. k \in Nat /\ 1 <= k /\ k <= n
  BY <1>1
<1>5. /\ u \in Seq(Routes!Legs) /\ Len(u) = n - k + 1
      /\ \A j \in 1..n - k + 1 : u[j] = s[k + j - 1]
  BY <1>1, <1>2, <1>3, <1>4, SubSeqProperties
<1>6. ASSUME NEW j \in 1..n - k + 1 PROVE On(c, (a + k - 1) + j - 1, u[j])
  <2>1. k + j - 1 \in 1..n /\ a + (k + j - 1) - 1 = (a + k - 1) + j - 1
    BY <1>3, <1>4
  <2>2. On(c, a + (k + j - 1) - 1, s[k + j - 1])
    BY <1>3, <2>1
  <2> QED
    BY <1>5, <2>1, <2>2
<1>7. a + k - 1 \in Nat \ {0}
  BY <1>3, <1>4
<1>8. Seg(u, c, a + k - 1)
  BY <1>3, <1>5, <1>6, <1>7 DEF Seg
<1>9. u[1] = s[k] /\ u[Len(u)] = s[n]
  <2>1. 1 \in 1..n - k + 1 /\ k + 1 - 1 = k
    BY <1>4
  <2>2. n - k + 1 \in 1..n - k + 1 /\ k + (n - k + 1) - 1 = n
    BY <1>4
  <2> QED
    BY <1>5, <2>1, <2>2
<1> QED
  BY <1>1, <1>2, <1>8, <1>9

-----------------------------------------------------------------------------
(* Rank: of n candidates each number below n is the rank of one.           *)
LEMMA RanksAreTaken ==
    ASSUME NEW I \in SUBSET Nat, IsFiniteSet(I), NEW n \in 0..Cardinality(I) - 1
    PROVE  \E i \in I : Cardinality({k \in I : k < i}) = n
<1>1. Cardinality(I) \in Nat
  BY FS_CardinalityType
<1> DEFINE Below(i) == {k \in I : k < i}
           Missed == {m \in 0..Cardinality(I) - 1 : \A i \in I : Cardinality(Below(i)) # m}
<1>2. SUFFICES ASSUME Missed # {} PROVE FALSE
  OBVIOUS
<1>3. Missed \subseteq Nat
  OBVIOUS
<1>4. PICK m \in Missed : \A k \in Missed : m <= k
  <2> HIDE DEF Missed
  <2> QED
    BY <1>2, <1>3, LeastNumber
<1>5. \A i \in I : IsFiniteSet(Below(i))
  BY FS_Subset
<1>6. m # 0
  <2>1. SUFFICES ASSUME m = 0 PROVE FALSE
    OBVIOUS
  <2>2. I # {}
    BY <1>1, <1>4, FS_EmptySet
  <2>3. PICK i \in I : \A k \in I : i <= k
    BY <2>2, LeastNumber
  <2>4. Below(i) = {}
    <3>1. \A k \in I : k \in Nat /\ i \in Nat /\ i <= k
      BY <2>3
    <3>2. \A k \in I : ~(k < i)
      BY <3>1
    <3> QED
      BY <3>2
  <2>5. Cardinality(Below(i)) = 0
    BY <2>4, FS_EmptySet
  <2> QED
    BY <1>4, <2>1, <2>5
<1>7. PICK i \in I : Cardinality(Below(i)) = m - 1
  <2>1. m - 1 \in 0..Cardinality(I) - 1 /\ m - 1 \notin Missed
    BY <1>1, <1>4, <1>6
  <2> QED
    BY <2>1
<1> DEFINE Upto == Below(i) \cup {i}
           Above == I \ Upto
<1>8. IsFiniteSet(Upto) /\ Cardinality(Upto) = m
  <2>1. i \notin Below(i)
    OBVIOUS
  <2>2. IsFiniteSet(Upto) /\ Cardinality(Upto) = Cardinality(Below(i)) + 1
    BY <1>5, <2>1, FS_AddElement
  <2> QED
    BY <1>4, <1>7, <2>2
<1>9. Above # {}
  <2>1. SUFFICES ASSUME Above = {} PROVE FALSE
    OBVIOUS
  <2>2. I = Upto
    BY <2>1
  <2>3. Cardinality(I) = m
    BY <1>8, <2>2
  <2>4. m \in 0..Cardinality(I) - 1
    BY <1>4
  <2> QED
    BY <1>1, <2>3, <2>4
<1>10. PICK j \in Above : \A k \in Above : j <= k
  <2>1. Above \subseteq Nat
    OBVIOUS
  <2> QED
    BY <1>9, <2>1, LeastNumber
<1>11. Below(j) = Upto
  <2>1. j \in I /\ j \in Nat /\ i \in Nat /\ i < j
    BY <1>10
  <2>2. ASSUME NEW k \in I PROVE k < j <=> k \in Upto
    BY <1>10, <2>1
  <2>3. Upto \subseteq I
    OBVIOUS
  <2> QED
    BY <2>2, <2>3
<1>12. Cardinality(Below(j)) = m
  BY <1>8, <1>11
<1> QED
  BY <1>4, <1>10, <1>12

LEMMA SameNumber == \A S : Routes!Cardinality(S) = Cardinality(S)
BY DEF Routes!Cardinality, Cardinality

(* Something is taken from candidates that there are.                      *)
LEMMA SomethingApplies ==
    ASSUME RouteRest, NEW I \in SUBSET Nat, IsFiniteSet(I), I # {}, NEW n \in Nat
    PROVE  Routes!Apply(I, n) # {}
<1>1. strategy \in {"round", "fifo", "any"}
  BY NetFacts DEF RouteRest
<1>2. Routes!RoundRobin(I, n) # {}
  <2>1. Cardinality(I) \in Nat \ {0}
    BY FS_CardinalityType, FS_EmptySet
  <2>2. n % Cardinality(I) \in 0..Cardinality(I) - 1
    BY <2>1, ModTurns
  <2>3. PICK i \in I : Cardinality({k \in I : k < i}) = n % Cardinality(I)
    BY <2>2, RanksAreTaken
  <2> QED
    BY <2>3, SameNumber DEF Routes!RoundRobin, Routes!Before
<1>3. Routes!FIFO(I) # {}
  BY LeastNumber DEF Routes!FIFO
<1> QED
  BY <1>1, <1>2, <1>3 DEF Routes!Apply, Routes!Random

(* A hop that offers a node that is up and not thought dead leads to one   *)
(* that is up, or at least not thought dead.                               *)
LEMMA OfferIsTaken ==
    ASSUME RouteRest, NEW hop \in Seq(Routes!Nodes), NEW t, NEW n \in Nat,
           Routes!Offers(hop, t), ~Routes!HasPriorities
    PROVE  LET took == Routes!HopSelect(hop, Routes!Eligible(hop, t), n) IN
           took # {} /\ \A x \in took : Routes!Alive(x)
<1>1. PICK I : I = Routes!Eligible(hop, t)
  OBVIOUS
<1>2. I \subseteq 1..Len(hop) /\ Len(hop) \in Nat
  BY <1>1 DEF Routes!Eligible
<1>3. I \in SUBSET Nat /\ IsFiniteSet(I)
  <2>1. IsFiniteSet(1..Len(hop))
    BY <1>2, FS_Interval
  <2>2. IsFiniteSet(I)
    BY <1>2, <2>1, FS_Subset
  <2>3. I \in SUBSET Nat
    BY <1>2
  <2> QED
    BY <2>2, <2>3
<1>4. PICK i \in I : Routes!Alive(hop[i])
  BY <1>1 DEF Routes!Offers
<1>5. Cardinality(I) \in Nat
  BY <1>3, FS_CardinalityType
<1>6. CASE Cardinality(I) <= 1
  <2>1. Cardinality(I) = 1
    BY <1>3, <1>4, <1>5, <1>6, FS_EmptySet
  <2>2. \A k \in I : k = i
    <3>1. PICK y : I = {y}
      BY <1>3, <2>1, FS_Singleton
    <3> QED
      BY <1>4, <3>1
  <2>3. Routes!HopSelect(hop, I, n) = {hop[k] : k \in I}
    BY <1>6, SameNumber DEF Routes!HopSelect
  <2> QED
    BY <1>1, <1>4, <2>2, <2>3
<1>7. CASE ~(Cardinality(I) <= 1)
  <2>1. Routes!Foremost(hop, I) = {}
    <3>1. \A k \in I : hop[k] \in Routes!Nodes
      BY <1>2
    <3> QED
      BY <3>1 DEF Routes!Foremost, Routes!HasPriorities
  <2>2. Routes!HopSelect(hop, I, n) = Routes!Selected(hop, I, n)
    BY <1>7, <2>1, SameNumber DEF Routes!HopSelect
  <2>3. PICK F : F = Routes!FailFilter(hop, I)
    OBVIOUS
  <2>4. F = {k \in I : Routes!Alive(hop[k])}
    BY <1>7, <2>3, SameNumber DEF Routes!FailFilter
  <2>5. PICK L : L = Routes!Left(hop, I)
    OBVIOUS
  <2>6. L \subseteq F /\ L # {}
    <3>1. i \in F
      BY <1>4, <2>4
    <3> QED
      BY <2>3, <2>5, <3>1 DEF Routes!Left, Routes!BackupFilter
  <2>7. L \in SUBSET Nat /\ IsFiniteSet(L)
    BY <1>3, <2>4, <2>6, FS_Subset
  <2>8. Routes!Apply(L, n) # {} /\ Routes!Apply(L, n) \subseteq L
    BY <2>6, <2>7, SomethingApplies, AppliedTo
  <2> QED
    BY <1>1, <2>2, <2>4, <2>5, <2>6, <2>8 DEF Routes!Selected
<1> QED
  BY <1>6, <1>7

(* So does a dial that has a good chance.                                  *)
LEMMA GoodIsTaken ==
    ASSUME RouteTypes, ChanceInv, NEW d \in Dialers, dial[d].pc = "route", dial[d].good,
           dial[d].chain = Routes!Groups[dial[d].service][1],
           NEW i \in DOMAIN Routes!Hops[dial[d].chain]
    PROVE  LET hop == Routes!Hops[dial[d].chain][i]
               took == Routes!HopSelect(hop, Routes!Eligible(hop, dial[d].target),
                                        counter[<<dial[d].chain, i>>]) IN
           took # {} /\ \A x \in took : Routes!Alive(x)
<1>1. PICK c, t : c = dial[d].chain /\ t = dial[d].target
  OBVIOUS
<1>2. c \in Routes!Chains
  BY <1>1 DEF RouteTypes, DialOK
<1>3. Routes!Hops[c] \in Seq(Seq(Routes!Nodes))
  BY <1>2, NetFacts DEF RouteTypes, RouteRest
<1>4. PICK hop \in Seq(Routes!Nodes) : hop = Routes!Hops[c][i]
  BY <1>1, <1>3
<1>5. <<c, i>> \in Routes!Counters
  <2>1. <<c, i>> \in {c} \X DOMAIN Routes!Hops[c]
    BY <1>1
  <2>2. <<c, i>> \in UNION {{e} \X DOMAIN Routes!Hops[e] : e \in Routes!Chains}
    BY <1>2, <2>1
  <2> QED
    BY <2>2 DEF Routes!Counters
<1>6. PICK n \in Nat : n = counter[<<c, i>>]
  BY <1>5, RouteNumbers DEF RouteTypes, RouteRest
<1>7. Routes!GoodChance(dial[d].service, t)
  BY <1>1 DEF ChanceInv, ChanceOf
<1>8. Routes!Offers(hop, t) /\ ~Routes!HasPriorities
  BY <1>1, <1>4, <1>7 DEF Routes!GoodChance
<1>9. Routes!HopSelect(hop, Routes!Eligible(hop, t), n) # {}
      /\ \A x \in Routes!HopSelect(hop, Routes!Eligible(hop, t), n) : Routes!Alive(x)
  BY <1>8, OfferIsTaken DEF RouteTypes
<1> QED
  BY <1>1, <1>4, <1>6, <1>9

-----------------------------------------------------------------------------
(* Where the route of a dial begins: at the first hop, or with a node that *)
(* multiplexes.  What its transport remembers then leads to it.            *)
Starts(s, a) == a = 1 \/ (s # <<>> /\ s[1].node \in Routes!Mux)
Remembered(x) ==
    via[x] # <<>> \/ \E c \in Routes!Chains : 1 \in DOMAIN Routes!Hops[c] /\ Located(c, 1, x)
AllRemembered(s) == \A j \in 1..Len(s) : s[j].node \in Routes!Mux => Remembered(s[j].node)
WayTo(s, x) ==
    \A c \in Routes!Chains : \A i \in DOMAIN Routes!Hops[c] :
        Located(c, i, x) => \E a \in 1..i : a + Len(s) = i /\ Seg(s, c, a) /\ Starts(s, a)
PathTo(s, x) ==
    /\ \A c \in Routes!Chains : \A i \in DOMAIN Routes!Hops[c] :
          Located(c, i, x) => Seg(s, c, 1) /\ Len(s) = i
    /\ s[Len(s)].node = x

(* The dial r keeps to its chain; one with a good chance to the last hop,  *)
(* and one whose chain has no nested route does not leave it on the way.   *)
OnChain(r) ==
    /\ r.pc = "route" =>
          /\ Seg(r.path, r.chain, 1) /\ Len(r.path) <= HopsOf(r.chain)
          /\ \E a \in Nat : /\ a + Len(r.route) = Len(r.path) + 1
                            /\ Seg(r.route, r.chain, a) /\ Starts(r.route, a)
    /\ r.pc = "dial" =>
          /\ r.path = <<>>
          /\ \E a \in Nat : /\ Seg(r.route, r.chain, a) /\ Starts(r.route, a)
                            /\ r.good => a + Len(r.route) = HopsOf(r.chain) + 1
    /\ r.pc = "connect" =>
          /\ Seg(r.path, r.chain, 1) /\ Seg(r.route, r.chain, Len(r.path) + 1)
          /\ r.good => Len(r.path) + Len(r.route) = HopsOf(r.chain)
    /\ r.pc = "unwind" =>
          /\ r.route # <<>> /\ r.route[1].node \in Routes!Mux
          /\ \E a \in Nat : a >= 2 /\ Seg(r.route, r.chain, a)
    /\ r.pc = "connected" =>
          /\ r.route = <<>>
          /\ r.good => Seg(r.path, r.chain, 1) /\ Len(r.path) = HopsOf(r.chain)
EndsIn(r) ==
    IF r.route # <<>> THEN r.route[Len(r.route)].chain = r.chain
    ELSE r.path # <<>> => Located(r.chain, Len(r.path), r.path[Len(r.path)].node)
Straight(r) ==
    ~Routes!Nested(r.chain) => \A j \in 1..Len(r.route) : r.route[j].chain = r.chain
Going == {"route", "dial", "connect", "unwind", "connected"}
LineOf(r) ==
    /\ r.good /\ r.pc \in Going => r.chain = Routes!Groups[r.service][1]
    /\ r.pc \in Going /\ r.chain \in Routes!Chains => OnChain(r) /\ EndsIn(r) /\ Straight(r)
    /\ r.pc \in Going /\ r.chain \notin Routes!Chains =>
          r.pc # "unwind" /\ r.route = <<>> /\ r.path = <<>>
RemembersOf(r) == r.pc \in {"route", "dial"} => AllRemembered(r.route)

LineInv ==
    /\ \A d \in Dialers : LineOf(dial[d]) /\ RemembersOf(dial[d])
    /\ \A x \in Routes!Mux : /\ via[x] # <<>> => WayTo(via[x], x)
                             /\ AllRemembered(via[x])
                             /\ session[x] # <<>> => PathTo(session[x], x)
UpInv == \A x \in Routes!Mux : Routes!NodesOf(session[x]) \subseteq reachable
RouteInv == RouteTypes /\ ChanceInv /\ LineInv /\ UpInv

LEMMA SameLines ==
    ASSUME UNCHANGED net, NEW r, NEW s, NEW x
    PROVE  /\ LineOf(r) => LineOf(r)'
           /\ WayTo(s, x) => WayTo(s, x)'
           /\ PathTo(s, x) => PathTo(s, x)'
<1>1. \A c : HopsOf(c)' = HopsOf(c)
  BY SameNet DEF HopsOf
<1>2. \A c, i, y : Located(c, i, y)' <=> Located(c, i, y)
  BY SameNet DEF Located
<1>3. Routes!Shared' <=> Routes!Shared
  BY SameNet DEF Routes!Shared
<1>4. \A c, i, l : On(c, i, l)' <=> On(c, i, l)
  BY <1>2, <1>3, SameNet DEF On
<1>5. \A t, c, a : Seg(t, c, a)' <=> Seg(t, c, a)
  BY <1>4, SameNet DEF Seg
<1>6. \A t, a : Starts(t, a)' <=> Starts(t, a)
  BY SameNet DEF Starts
<1>7. \A c : Routes!Nested(c)' <=> Routes!Nested(c)
  BY SameNet DEF Routes!Nested
<1>8. WayTo(s, x) => WayTo(s, x)'
  BY <1>2, <1>5, <1>6, SameNet DEF WayTo
<1>9. PathTo(s, x) => PathTo(s, x)'
  BY <1>2, <1>5, SameNet DEF PathTo
<1>10. OnChain(r) => OnChain(r)'
  BY <1>1, <1>5, <1>6, SameNet DEF OnChain
<1>11. EndsIn(r) => EndsIn(r)'
  BY <1>2 DEF EndsIn
<1>12. Straight(r) => Straight(r)'
  BY <1>7 DEF Straight
<1>13. LineOf(r) => LineOf(r)'
  BY <1>10, <1>11, <1>12, SameNet DEF LineOf
<1> QED
  BY <1>8, <1>9, <1>13

LEMMA SameRemembered ==
    ASSUME UNCHANGED <<net, via>>, NEW s, AllRemembered(s)
    PROVE  AllRemembered(s)'
<1>1. \A x : Remembered(x) => Remembered(x)'
  BY SameNet DEF Remembered, Located
<1> QED
  BY <1>1, SameNet DEF AllRemembered

LEMMA LinesKept ==
    ASSUME RouteTypes, LineInv, NEW d \in Dialers, OnlyDialOf(d), UNCHANGED net,
           \A s : AllRemembered(s) => AllRemembered(s)',
           NEW q, q = dial'[d], LineOf(q), RemembersOf(q)'
    PROVE  (\A x \in Dialers : LineOf(dial[x]) /\ RemembersOf(dial[x]))'
<1>1. ASSUME NEW x \in Dialers PROVE LineOf(dial[x])' /\ RemembersOf(dial[x])'
  <2>1. PICK p : p = dial'[x]
    OBVIOUS
  <2>2. CASE x = d
    <3>1. LineOf(q)'
      BY SameLines
    <3> QED
      BY <2>2, <3>1
  <2>3. CASE x # d
    <3>1. p = dial[x]
      BY <2>1, <2>3 DEF OnlyDialOf
    <3>2. LineOf(p) /\ RemembersOf(p)
      BY <3>1 DEF LineInv
    <3>3. LineOf(p)'
      BY <3>2, SameLines
    <3>4. RemembersOf(p)'
      BY <3>2 DEF RemembersOf
    <3> QED
      BY <2>1, <3>3, <3>4
  <2> QED
    BY <2>2, <2>3
<1> QED
  BY <1>1

(* What transports remember: ways[x] and paths[x] after the step.          *)
LEMMA MuxKept ==
    ASSUME RouteTypes, LineInv, UNCHANGED net,
           \A s : AllRemembered(s) => AllRemembered(s)',
           \A x \in Routes!Mux :
              /\ via'[x] # <<>> => WayTo(via'[x], x)
              /\ AllRemembered(via'[x])
              /\ session'[x] # <<>> => PathTo(session'[x], x)
    PROVE  (\A x \in Routes!Mux : /\ via[x] # <<>> => WayTo(via[x], x)
                                  /\ AllRemembered(via[x])
                                  /\ session[x] # <<>> => PathTo(session[x], x))'
<1>1. ASSUME NEW x \in Routes!Mux
      PROVE  /\ via'[x] # <<>> => WayTo(via[x], x)'
             /\ AllRemembered(via[x])'
             /\ session'[x] # <<>> => PathTo(session[x], x)'
  <2>1. PICK s, t : s = via'[x] /\ t = session'[x]
    OBVIOUS
  <2>2. /\ s # <<>> => WayTo(s, x)
        /\ AllRemembered(s)
        /\ t # <<>> => PathTo(t, x)
    BY <2>1
  <2>3. /\ s # <<>> => WayTo(s, x)'
        /\ AllRemembered(s)'
        /\ t # <<>> => PathTo(t, x)'
    BY <2>2, SameLines
  <2> QED
    BY <2>1, <2>3
<1> QED
  BY <1>1, SameNet

LEMMA ChanceInit == Routes!Init => ChanceInv
BY DEF Routes!Init, Routes!Idle, ChanceInv, ChanceOf

LEMMA LineInit == Routes!Init => LineInv /\ UpInv
<1> SUFFICES ASSUME Routes!Init PROVE LineInv /\ UpInv
  OBVIOUS
<1>1. \A d \in Dialers : dial[d] = Routes!Idle
  BY DEF Routes!Init
<1>2. LineOf(Routes!Idle) /\ RemembersOf(Routes!Idle)
  BY DEF Routes!Idle, LineOf, RemembersOf, Going
<1>3. \A x \in Routes!Mux : via[x] = <<>> /\ session[x] = <<>>
  BY DEF Routes!Init
<1>4. AllRemembered(<<>>) /\ Routes!NodesOf(<<>>) = {}
  BY DEF AllRemembered, Routes!NodesOf
<1> QED
  BY <1>1, <1>2, <1>3, <1>4 DEF LineInv, UpInv

(* A step that leaves the transports as they are.                          *)
LEMMA LineStep ==
    ASSUME RouteInv, NEW d \in Dialers, OnlyDialOf(d), UNCHANGED <<net, via, session>>,
           NEW q, q = dial'[d], LineOf(q), RemembersOf(q)
    PROVE  LineInv'
<1>1. \A s : AllRemembered(s) => AllRemembered(s)'
  BY SameRemembered
<1>2. RemembersOf(q)'
  BY <1>1 DEF RemembersOf
<1>3. (\A x \in Dialers : LineOf(dial[x]) /\ RemembersOf(dial[x]))'
  BY <1>1, <1>2, LinesKept DEF RouteInv
<1>4. \A x \in Routes!Mux : /\ via'[x] # <<>> => WayTo(via'[x], x)
                            /\ AllRemembered(via'[x])
                            /\ session'[x] # <<>> => PathTo(session'[x], x)
  BY DEF RouteInv, LineInv
<1> QED
  BY <1>1, <1>3, <1>4, MuxKept DEF LineInv, RouteInv

LEMMA LineStart ==
    ASSUME RouteInv, NEW d \in Dialers, NEW s \in Routes!Entries, NEW t \in Routes!Targets,
           Routes!Start(d, s, t)
    PROVE  LineInv'
<1>1. PICK q : q = dial'[d]
  OBVIOUS
<1>2. OnlyDialOf(d) /\ q.pc = "chain"
  BY <1>1, StartIs DEF RouteInv
<1>3. LineOf(q) /\ RemembersOf(q)
  BY <1>2 DEF LineOf, RemembersOf, Going
<1> QED
  BY <1>1, <1>2, <1>3, LineStep DEF Routes!Start

LEMMA LinePickChain ==
    ASSUME RouteInv, NEW d \in Dialers, Routes!PickChain(d)
    PROVE  LineInv'
<1>1. PICK q : q = dial'[d]
  OBVIOUS
<1>2. /\ OnlyDialOf(d) /\ q.good = dial[d].good /\ q.service = dial[d].service
      /\ q.route = <<>> /\ q.path = <<>>
      /\ \/ q.pc = "route" /\ q.chain \in Routes!Chains
         \/ q.pc = "dial" /\ q.chain = "none"
      /\ Len(Routes!Groups[q.service]) = 1 =>
            q.pc = "route" /\ q.chain = Routes!Groups[q.service][1]
  BY <1>1, PickChainIs DEF RouteInv, Kept
<1>3. q.good => Len(Routes!Groups[q.service]) = 1
  BY <1>2 DEF RouteInv, ChanceInv, ChanceOf, Routes!GoodChance
<1>4. ASSUME q.chain \in Routes!Chains PROVE OnChain(q) /\ EndsIn(q) /\ Straight(q)
  <2>1. /\ Seg(<<>>, q.chain, 1) /\ Starts(<<>>, 1) /\ 1 + Len(<<>>) = Len(<<>>) + 1
        /\ Len(<<>>) <= HopsOf(q.chain)
    BY <1>4, SegEmpty, HopsOfType DEF RouteInv, RouteTypes, RouteRest, Starts
  <2>2. EndsIn(q) /\ Straight(q)
    BY <1>2 DEF EndsIn, Straight
  <2>3. CASE q.pc = "route"
    BY <1>2, <2>1, <2>2, <2>3 DEF OnChain
  <2>4. CASE q.pc = "dial"
    <3>1. ~q.good
      BY <1>2, <1>3, <2>4
    <3> QED
      BY <1>2, <2>1, <2>2, <2>4, <3>1 DEF OnChain
  <2> QED
    BY <1>2, <2>3, <2>4
<1>5. LineOf(q) /\ RemembersOf(q)
  <2>1. AllRemembered(<<>>)
    BY DEF AllRemembered
  <2> QED
    BY <1>2, <1>3, <1>4, <2>1 DEF LineOf, RemembersOf
<1> QED
  BY <1>1, <1>2, <1>5, LineStep DEF Routes!PickChain

LEMMA LineRouteDone ==
    ASSUME RouteInv, NEW d \in Dialers, Routes!RouteDone(d)
    PROVE  LineInv'
<1>1. PICK q, r : q = dial'[d] /\ r = dial[d]
  OBVIOUS
<1>2. /\ OnlyDialOf(d) /\ q.good = r.good /\ q.service = r.service /\ q.chain = r.chain
      /\ r.pc = "route" /\ Len(r.path) + 1 > HopsOf(r.chain)
      /\ q.pc = "dial" /\ q.path = <<>> /\ q.route = r.route
  BY <1>1, RouteDoneIs DEF RouteInv, Kept, Aim, HopsOf
<1>3. r.chain \in Routes!Chains /\ LineOf(r) /\ RemembersOf(r)
  BY <1>1, <1>2 DEF RouteInv, RouteTypes, DialOK, LineInv
<1>4. /\ Seg(r.path, r.chain, 1) /\ Len(r.path) <= HopsOf(r.chain)
      /\ \E a \in Nat : /\ a + Len(r.route) = Len(r.path) + 1
                        /\ Seg(r.route, r.chain, a) /\ Starts(r.route, a)
      /\ EndsIn(r) /\ Straight(r)
  BY <1>2, <1>3 DEF LineOf, OnChain, Going
<1>5. Len(r.path) = HopsOf(r.chain)
  <2>1. HopsOf(r.chain) \in Nat
    BY <1>3, HopsOfType DEF RouteInv, RouteTypes, RouteRest
  <2>2. Len(r.path) \in Nat
    BY <1>4 DEF Seg
  <2> QED
    BY <1>2, <1>4, <2>1, <2>2
<1>6. OnChain(q)
  BY <1>2, <1>4, <1>5 DEF OnChain
<1>7. EndsIn(q) /\ Straight(q)
  BY <1>2, <1>4 DEF EndsIn, Straight
<1>8. LineOf(q) /\ RemembersOf(q)
  BY <1>2, <1>3, <1>6, <1>7 DEF LineOf, RemembersOf, Going
<1> QED
  BY <1>1, <1>2, <1>8, LineStep DEF Routes!RouteDone

(* A node that multiplexes behind the first hop of a chain nests a route.  *)
LEMMA NestedAt ==
    ASSUME NEW c, NEW i \in DOMAIN Routes!Hops[c], NEW x \in Routes!Mux, Located(c, i, x), i > 1
    PROVE  Routes!Nested(c)
BY DEF Located, Routes!Nested

(* The path of a dial in a session, or of its transport, is in front.      *)
LEMMA LineTransport ==
    ASSUME RouteInv, NEW d \in Dialers, Routes!Transport(d)
    PROVE  LineInv'
<1>1. PICK q, r, l : q = dial'[d] /\ r = dial[d] /\ l = dial[d].route[1]
  OBVIOUS
<1>2. /\ OnlyDialOf(d) /\ q.good = r.good /\ q.service = r.service /\ q.chain = r.chain
      /\ r.pc = "dial"
  BY <1>1, TransportIs DEF RouteInv, Kept, Aim
<1>3. \/ /\ r.route = <<>> \/ l.node \notin Routes!Mux
         /\ q.pc = "connect" /\ q.path = r.path /\ q.route = r.route
      \/ /\ r.route # <<>> /\ l.node \in Routes!Mux /\ session[l.node] # <<>>
         /\ q.pc = "connect" /\ q.path = session[l.node] /\ q.route = Tail(r.route)
      \/ /\ r.route # <<>> /\ l.node \in Routes!Mux /\ session[l.node] = <<>>
         /\ q.pc = (IF via[l.node] = <<>> THEN "connect" ELSE "dial")
         /\ q.path = r.path /\ q.route = Cat(via[l.node], r.route)
  BY <1>1, TransportIs DEF RouteInv, Cat
<1>4. /\ LineOf(r) /\ RemembersOf(r) /\ r.route \in Seq(Routes!Legs)
      /\ net \in Nets /\ via \in [Routes!Mux -> Seq(Routes!Legs)]
  BY <1>1 DEF RouteInv, RouteTypes, RouteRest, DialOK, LineInv
<1>5. r.chain \notin Routes!Chains => r.route = <<>> /\ r.path = <<>>
  BY <1>2, <1>4 DEF LineOf, Going
<1>6. r.good => r.chain = Routes!Groups[r.service][1]
  BY <1>2, <1>4 DEF LineOf, Going
<1>7. CASE r.chain \notin Routes!Chains
  <2>1. q.pc = "connect" /\ q.route = <<>> /\ q.path = <<>>
    BY <1>3, <1>5, <1>7
  <2>2. LineOf(q) /\ RemembersOf(q)
    BY <1>2, <1>6, <1>7, <2>1 DEF LineOf, RemembersOf, Going
  <2> QED
    BY <1>1, <1>2, <2>2, LineStep DEF Routes!Transport
<1>8. CASE r.chain \in Routes!Chains
  <2>1. OnChain(r) /\ EndsIn(r) /\ Straight(r)
    BY <1>2, <1>4, <1>8 DEF LineOf, Going
  <2>2. PICK a \in Nat : /\ Seg(r.route, r.chain, a) /\ Starts(r.route, a)
                         /\ r.good => a + Len(r.route) = HopsOf(r.chain) + 1
    BY <1>2, <2>1 DEF OnChain
  <2>3. r.path = <<>> /\ Len(<<>>) = 0
    BY <1>2, <2>1 DEF OnChain
  <2>4. HopsOf(r.chain) \in Nat /\ Len(r.route) \in Nat
    BY <1>4, <1>8, HopsOfType
  <2>5. r.route # <<>> => /\ Seg(Tail(r.route), r.chain, a + 1)
                          /\ Len(Tail(r.route)) = Len(r.route) - 1
                          /\ On(r.chain, a, l) /\ l \in Routes!Legs
                          /\ \A j \in 1..Len(r.route) - 1 : Tail(r.route)[j] = r.route[j + 1]
                          /\ IF Tail(r.route) = <<>> THEN Len(r.route) = 1
                             ELSE Tail(r.route)[Len(Tail(r.route))] = r.route[Len(r.route)]
    BY <1>1, <2>2, SegTail
  <2>6. OnChain(q) /\ EndsIn(q) /\ Straight(q) /\ RemembersOf(q) /\ q.pc \in Going
    <3>1. CASE r.route = <<>> \/ l.node \notin Routes!Mux
      <4>1. a = 1
        BY <1>1, <2>2, <3>1 DEF Starts
      <4>2. q.pc = "connect" /\ q.path = <<>> /\ q.route = r.route
        BY <1>3, <2>3, <3>1
      <4>3. Seg(q.path, q.chain, 1) /\ Seg(q.route, q.chain, Len(q.path) + 1)
        BY <1>2, <2>2, <2>3, <4>1, <4>2, SegEmpty
      <4>4. q.good => Len(q.path) + Len(q.route) = HopsOf(q.chain)
        BY <1>2, <2>2, <2>3, <2>4, <4>1, <4>2
      <4>5. EndsIn(q) /\ Straight(q)
        BY <1>2, <2>1, <2>3, <4>2 DEF EndsIn, Straight
      <4> QED
        BY <4>2, <4>3, <4>4, <4>5 DEF OnChain, RemembersOf, Going
    <3>2. CASE r.route # <<>> /\ l.node \in Routes!Mux /\ session[l.node] # <<>>
      <4>1. PICK u : u = session[l.node]
        OBVIOUS
      <4>2. /\ l.chain \in Routes!Chains /\ a \in DOMAIN Routes!Hops[l.chain]
            /\ Located(l.chain, a, l.node) /\ (Routes!Shared \/ l.chain = r.chain)
        BY <2>5, <3>2, LegsAre DEF On
      <4>3. PathTo(u, l.node)
        BY <3>2, <4>1 DEF RouteInv, LineInv
      <4>4. Seg(u, l.chain, 1) /\ Len(u) = a /\ u[Len(u)].node = l.node
        BY <4>2, <4>3 DEF PathTo
      <4>5. Seg(u, r.chain, 1)
        BY <4>2, <4>4, SegOther
      <4>6. q.pc = "connect" /\ q.path = u /\ q.route = Tail(r.route)
        BY <1>3, <3>2, <4>1
      <4>7. Seg(q.path, q.chain, 1) /\ Seg(q.route, q.chain, Len(q.path) + 1)
        BY <1>2, <2>5, <3>2, <4>4, <4>5, <4>6
      <4>8. q.good => Len(q.path) + Len(q.route) = HopsOf(q.chain)
        <5>1. Len(q.path) = a /\ Len(q.route) = Len(r.route) - 1
          BY <2>5, <3>2, <4>4, <4>6
        <5>2. q.good => a + Len(r.route) = HopsOf(q.chain) + 1
          BY <1>2, <2>2
        <5>3. HopsOf(q.chain) \in Nat
          BY <1>2, <2>4
        <5> QED
          BY <2>4, <5>1, <5>2, <5>3
      <4>9. EndsIn(q)
        <5>1. r.route[Len(r.route)].chain = r.chain
          BY <2>1, <3>2 DEF EndsIn
        <5>2. CASE q.route = <<>>
          <6>1. l.chain = r.chain
            BY <1>1, <2>5, <3>2, <4>6, <5>1, <5>2
          <6> QED
            BY <1>2, <4>2, <4>4, <4>6, <5>2, <6>1 DEF EndsIn
        <5>3. CASE q.route # <<>>
          BY <1>2, <2>5, <3>2, <4>6, <5>1, <5>3 DEF EndsIn
        <5> QED
          BY <5>2, <5>3
      <4>10. Straight(q)
        <5>1. SUFFICES ASSUME ~Routes!Nested(r.chain), NEW j \in 1..Len(q.route)
                       PROVE  q.route[j].chain = r.chain
          BY <1>2 DEF Straight
        <5>2. j \in 1..Len(r.route) - 1 /\ j + 1 \in 1..Len(r.route)
          BY <2>4, <2>5, <3>2, <4>6, <5>1
        <5>3. q.route[j] = r.route[j + 1]
          BY <2>5, <3>2, <4>6, <5>2
        <5> QED
          BY <2>1, <5>1, <5>2, <5>3 DEF Straight
      <4> QED
        BY <4>6, <4>7, <4>8, <4>9, <4>10 DEF OnChain, RemembersOf, Going
    <3>3. CASE r.route # <<>> /\ l.node \in Routes!Mux /\ session[l.node] = <<>>
      <4>1. PICK w \in Seq(Routes!Legs) : w = via[l.node]
        BY <1>4, <3>3
      <4>2. /\ w # <<>> => WayTo(w, l.node)
            /\ AllRemembered(w)
        BY <3>3, <4>1 DEF RouteInv, LineInv
      <4>3. AllRemembered(r.route)
        BY <1>2, <1>4 DEF RemembersOf
      <4>4. /\ l.chain \in Routes!Chains /\ a \in DOMAIN Routes!Hops[l.chain]
            /\ Located(l.chain, a, l.node) /\ (Routes!Shared \/ l.chain = r.chain)
        BY <2>5, <3>3, LegsAre DEF On
      <4>5. CASE w = <<>>
        <5>1. Remembered(l.node)
          <6>1. 1 \in 1..Len(r.route)
            BY <1>4, <3>3
          <6> QED
            BY <1>1, <3>3, <4>3, <6>1 DEF AllRemembered
        <5>2. PICK e \in Routes!Chains : 1 \in DOMAIN Routes!Hops[e] /\ Located(e, 1, l.node)
          BY <4>1, <4>5, <5>1 DEF Remembered
        <5>3. a = 1
          BY <1>4, <3>3, <4>4, <5>2, OnePlace
        <5>4. Cat(w, r.route) = r.route
          BY <1>4, <4>5 DEF Cat
        <5>5. q.pc = "connect" /\ q.path = <<>> /\ q.route = r.route
          BY <1>3, <2>3, <3>3, <4>1, <4>5, <5>4
        <5>6. Seg(q.path, q.chain, 1) /\ Seg(q.route, q.chain, Len(q.path) + 1)
          BY <1>2, <2>2, <2>3, <5>3, <5>5, SegEmpty
        <5>7. q.good => Len(q.path) + Len(q.route) = HopsOf(q.chain)
          BY <1>2, <2>2, <2>3, <2>4, <5>3, <5>5
        <5>8. EndsIn(q) /\ Straight(q)
          BY <1>2, <2>1, <2>3, <5>5 DEF EndsIn, Straight
        <5> QED
          BY <5>5, <5>6, <5>7, <5>8 DEF OnChain, RemembersOf, Going
      <4>6. CASE w # <<>>
        <5>1. PICK b \in 1..a : b + Len(w) = a /\ Seg(w, l.chain, b) /\ Starts(w, b)
          BY <3>3, <4>2, <4>4, <4>6 DEF WayTo
        <5>2. Seg(w, r.chain, b)
          BY <4>4, <5>1, SegOther
        <5>3. Seg(r.route, r.chain, b + Len(w))
          BY <2>2, <5>1
        <5>4. PICK u : u = Cat(w, r.route)
          OBVIOUS
        <5>5. /\ Seg(u, r.chain, b) /\ Len(u) = Len(w) + Len(r.route)
              /\ u[1] = w[1] /\ u[Len(w) + Len(r.route)] = r.route[Len(r.route)]
          BY <3>3, <4>6, <5>2, <5>3, <5>4, SegCat
        <5>6. /\ Len(w) \in Nat /\ Len(w) # 0 /\ b \in Nat
              /\ Len(u) \in Nat /\ Len(u) # 0 /\ u # <<>>
          <6>1. Len(w) \in Nat /\ Len(w) # 0 /\ b \in Nat
            BY <4>1, <4>6
          <6>2. Len(u) \in Nat /\ Len(u) # 0
            BY <2>4, <5>5, <6>1
          <6>3. u # <<>>
            BY <6>2
          <6> QED
            BY <6>1, <6>2, <6>3
        <5>7. Starts(u, b)
          BY <4>6, <5>1, <5>5, <5>6 DEF Starts
        <5>8. r.good => b + Len(u) = HopsOf(r.chain) + 1
          BY <2>2, <2>4, <5>1, <5>5, <5>6, SMTT(30)
        <5>9. AllRemembered(u)
          <6>1. \A i \in 1..Len(w) + Len(r.route) :
                  u[i] = IF i <= Len(w) THEN w[i] ELSE r.route[i - Len(w)]
            BY <1>4, <5>4, CatFacts
          <6>2. ASSUME NEW i \in 1..Len(u), u[i].node \in Routes!Mux PROVE Remembered(u[i].node)
            <7>1. CASE i <= Len(w)
              <8>1. u[i] = w[i] /\ i \in 1..Len(w)
                BY <5>5, <5>6, <6>1, <7>1
              <8> QED
                BY <4>2, <6>2, <8>1 DEF AllRemembered
            <7>2. CASE ~(i <= Len(w))
              <8>1. u[i] = r.route[i - Len(w)] /\ i - Len(w) \in 1..Len(r.route)
                BY <2>4, <5>5, <5>6, <6>1, <7>2
              <8> QED
                BY <4>3, <6>2, <8>1 DEF AllRemembered
            <7> QED
              BY <7>1, <7>2
          <6> QED
            BY <6>2 DEF AllRemembered
        <5>10. q.pc = "dial" /\ q.path = <<>> /\ q.route = u
          BY <1>3, <2>3, <3>3, <4>1, <4>6, <5>4
        <5>11. EndsIn(q)
          <6>1. r.route[Len(r.route)].chain = r.chain
            BY <2>1, <3>3 DEF EndsIn
          <6> QED
            BY <1>2, <5>5, <5>6, <5>10, <6>1 DEF EndsIn
        <5>12. Straight(q)
          <6>1. SUFFICES ASSUME ~Routes!Nested(r.chain) PROVE FALSE
            BY <1>2 DEF Straight
          <6>2. l.chain = r.chain
            <7>1. 1 \in 1..Len(r.route)
              BY <1>4, <3>3
            <7> QED
              BY <1>1, <2>1, <6>1, <7>1 DEF Straight
          <6>3. a > 1
            BY <5>1, <5>6
          <6> QED
            BY <3>3, <4>4, <6>1, <6>2, <6>3, NestedAt
        <5> QED
          BY <1>2, <5>5, <5>6, <5>7, <5>8, <5>9, <5>10, <5>11, <5>12 DEF OnChain, RemembersOf, Going
      <4> QED
        BY <4>5, <4>6
    <3> QED
      BY <1>3, <3>1, <3>2, <3>3
  <2>7. LineOf(q) /\ RemembersOf(q)
    BY <1>2, <1>6, <1>8, <2>6 DEF LineOf
  <2> QED
    BY <1>1, <1>2, <2>7, LineStep DEF Routes!Transport
<1> QED
  BY <1>7, <1>8

(* The next node of a route; one that multiplexes is told how it is reached.*)
LEMMA LinePickNode ==
    ASSUME RouteInv, NEW d \in Dialers, Routes!PickNode(d)
    PROVE  LineInv'
<1>1. PICK q, r, c, i : /\ q = dial'[d] /\ r = dial[d] /\ c = dial[d].chain
                        /\ i = Len(dial[d].path) + 1
  OBVIOUS
<1>2. PICK took : took = Routes!HopSelect(Routes!Hops[c][i],
                             Routes!Eligible(Routes!Hops[c][i], r.target), counter[<<c, i>>])
  OBVIOUS
<1>3. /\ OnlyDialOf(d) /\ q.good = r.good /\ q.service = r.service /\ q.chain = c
      /\ r.pc = "route" /\ r.chain = c
      /\ c \in Routes!Chains /\ i \in DOMAIN Routes!Hops[c]
  BY <1>1, PickNodeIs DEF RouteInv, Kept, Aim
<1>4. \/ \E x \in took :
               /\ x \in Routes!Nodes /\ Located(c, i, x)
               /\ via' = IF x \in Routes!Mux THEN [via EXCEPT ![x] = r.route] ELSE via
               /\ q.pc = "route" /\ q.path = Append(r.path, Leg(x, c))
               /\ q.route = IF x \in Routes!Mux THEN <<Leg(x, c)>> ELSE Append(r.route, Leg(x, c))
      \/ /\ took = {}
         /\ via' = via
         /\ q.pc = "dial" /\ q.path = <<>> /\ q.route = r.route
  BY <1>1, <1>2, PickNodeIs DEF RouteInv
<1>5. UNCHANGED <<net, session>>
  BY DEF Routes!PickNode
<1>6. LineOf(r) /\ RemembersOf(r) /\ net \in Nets
  BY <1>1 DEF RouteInv, RouteTypes, RouteRest, LineInv
<1>7. /\ r.good => c = Routes!Groups[r.service][1]
      /\ Seg(r.path, c, 1) /\ AllRemembered(r.route)
      /\ \E a \in Nat : /\ a + Len(r.route) = Len(r.path) + 1
                        /\ Seg(r.route, c, a) /\ Starts(r.route, a)
      /\ EndsIn(r) /\ Straight(r)
  BY <1>3, <1>6 DEF LineOf, OnChain, Going, RemembersOf
<1>8. PICK a \in Nat : a + Len(r.route) = i /\ Seg(r.route, c, a) /\ Starts(r.route, a)
  BY <1>1, <1>7
<1>9. PICK h \in Nat : h = HopsOf(c) /\ i \in 1..h
  BY <1>3, <1>6, HopsOfType
<1>10. Len(r.path) \in Nat /\ Len(r.route) \in Nat /\ 1 + Len(r.path) = i
  <2>1. Len(r.path) \in Nat /\ Len(r.route) \in Nat
    BY <1>7, <1>8 DEF Seg
  <2> QED
    BY <1>1, <2>1
<1>11. CASE took = {} /\ via' = via /\ q.pc = "dial" /\ q.path = <<>> /\ q.route = r.route
  <2>1. ~r.good
    <3>1. SUFFICES ASSUME r.good PROVE FALSE
      OBVIOUS
    <3>2. took # {}
      BY <1>1, <1>2, <1>3, <1>7, <3>1, GoodIsTaken DEF RouteInv
    <3> QED
      BY <1>11, <3>2
  <2>2. OnChain(q)
    BY <1>3, <1>8, <1>11, <2>1 DEF OnChain
  <2>3. EndsIn(q) /\ Straight(q)
    BY <1>3, <1>7, <1>11 DEF EndsIn, Straight
  <2>4. LineOf(q) /\ RemembersOf(q)
    BY <1>3, <1>7, <1>11, <2>1, <2>2, <2>3 DEF LineOf, RemembersOf, Going
  <2> QED
    BY <1>1, <1>3, <1>5, <1>11, <2>4, LineStep
<1>12. CASE \E x \in took :
               /\ x \in Routes!Nodes /\ Located(c, i, x)
               /\ via' = IF x \in Routes!Mux THEN [via EXCEPT ![x] = r.route] ELSE via
               /\ q.pc = "route" /\ q.path = Append(r.path, Leg(x, c))
               /\ q.route = IF x \in Routes!Mux THEN <<Leg(x, c)>> ELSE Append(r.route, Leg(x, c))
  <2>1. PICK x \in Routes!Nodes :
               /\ Located(c, i, x)
               /\ via' = IF x \in Routes!Mux THEN [via EXCEPT ![x] = r.route] ELSE via
               /\ q.pc = "route" /\ q.path = Append(r.path, Leg(x, c))
               /\ q.route = IF x \in Routes!Mux THEN <<Leg(x, c)>> ELSE Append(r.route, Leg(x, c))
    BY <1>12
  <2>2. PICK l \in Routes!Legs : l = Leg(x, c) /\ l.node = x /\ l.chain = c
    BY <1>3, LegIs
  <2>3. On(c, i, l)
    BY <1>3, <2>1, <2>2 DEF On
  <2>4. Seg(q.path, c, 1) /\ Len(q.path) = i /\ Len(q.path) <= HopsOf(c)
    <3>1. On(c, 1 + Len(r.path), l)
      BY <1>10, <2>3
    <3>2. Seg(Append(r.path, l), c, 1) /\ Len(Append(r.path, l)) = Len(r.path) + 1
      BY <1>7, <3>1, SegAppend
    <3> QED
      BY <1>1, <1>9, <2>1, <2>2, <3>2
  <2>5. CASE x \notin Routes!Mux
    <3>1. PICK u : u = Append(r.route, l)
      OBVIOUS
    <3>2. q.route = u /\ via' = via
      BY <2>1, <2>2, <2>5, <3>1
    <3>3. /\ Seg(u, c, a) /\ Len(u) = Len(r.route) + 1 /\ u # <<>> /\ u[Len(r.route) + 1] = l
          /\ \A j \in 1..Len(r.route) : u[j] = r.route[j]
          /\ r.route # <<>> => u[1] = r.route[1]
      <4>1. On(c, a + Len(r.route), l)
        BY <1>8, <2>3
      <4> QED
        BY <1>8, <3>1, <4>1, SegAppend
    <3>4. Starts(u, a)
      BY <1>8, <3>3 DEF Starts
    <3>5. \A j \in 1..Len(u) : j = Len(r.route) + 1 \/ j \in 1..Len(r.route)
      BY <1>10, <3>3
    <3>6. AllRemembered(u)
      <4>1. ASSUME NEW j \in 1..Len(u), u[j].node \in Routes!Mux PROVE Remembered(u[j].node)
        <5>1. j # Len(r.route) + 1
          BY <2>2, <2>5, <3>3, <4>1
        <5>2. j \in 1..Len(r.route)
          BY <3>5, <5>1
        <5> QED
          BY <1>7, <3>3, <4>1, <5>2 DEF AllRemembered
      <4> QED
        BY <4>1 DEF AllRemembered
    <3>7. a + Len(q.route) = Len(q.path) + 1
      BY <1>8, <1>10, <2>4, <3>2, <3>3
    <3>8. OnChain(q)
      BY <1>3, <2>1, <2>4, <3>2, <3>3, <3>4, <3>7 DEF OnChain
    <3>9. EndsIn(q)
      BY <1>3, <2>2, <3>2, <3>3 DEF EndsIn
    <3>10. Straight(q)
      <4>1. SUFFICES ASSUME ~Routes!Nested(c), NEW j \in 1..Len(u) PROVE u[j].chain = c
        BY <1>3, <3>2 DEF Straight
      <4> QED
        BY <1>3, <1>7, <2>2, <3>3, <3>5, <4>1 DEF Straight
    <3>11. LineOf(q) /\ RemembersOf(q)
      BY <1>3, <1>7, <2>1, <3>2, <3>6, <3>8, <3>9, <3>10 DEF LineOf, RemembersOf, Going
    <3> QED
      BY <1>1, <1>3, <1>5, <3>2, <3>11, LineStep
  <2>6. CASE x \in Routes!Mux
    <3>1. q.route = <<l>> /\ via' = [via EXCEPT ![x] = r.route]
      BY <2>1, <2>2, <2>6
    <3>2. DOMAIN via = Routes!Mux /\ Routes!Mux' = Routes!Mux
      BY <1>5, SameNet DEF RouteInv, RouteTypes, RouteRest
    <3>3. via'[x] = r.route /\ \A y \in Routes!Mux : y # x => via'[y] = via[y]
      BY <2>6, <3>1, <3>2
    <3>4. r.route = <<>> => 1 \in DOMAIN Routes!Hops[c] /\ Located(c, 1, x)
      <4>1. SUFFICES ASSUME r.route = <<>> PROVE 1 \in DOMAIN Routes!Hops[c] /\ Located(c, 1, x)
        OBVIOUS
      <4>2. a = 1 /\ Len(r.route) = 0
        BY <1>8, <4>1 DEF Starts
      <4>3. i = 1
        BY <1>8, <4>2
      <4> QED
        BY <1>3, <2>1, <4>3
    <3>5. \A e : /\ (1 \in DOMAIN Routes!Hops[e])' <=> 1 \in DOMAIN Routes!Hops[e]
                 /\ \A z : Located(e, 1, z)' <=> Located(e, 1, z)
      BY <1>5, SameNet DEF Located
    <3>6. Remembered(x)'
      <4>1. via'[x] # <<>> \/ (1 \in DOMAIN Routes!Hops[c] /\ Located(c, 1, x))
        BY <3>3, <3>4
      <4> QED
        BY <1>3, <1>5, <3>5, <4>1, SameNet DEF Remembered
    <3>7. \A y \in Routes!Mux : Remembered(y) => Remembered(y)'
      <4>1. ASSUME NEW y \in Routes!Mux, Remembered(y), y # x PROVE Remembered(y)'
        BY <1>5, <3>3, <3>5, <4>1, SameNet DEF Remembered
      <4> QED
        BY <3>6, <4>1
    <3>8. \A s : AllRemembered(s) => AllRemembered(s)'
      BY <3>2, <3>7 DEF AllRemembered
    <3>9. Seg(<<l>>, c, i) /\ Len(<<l>>) = 1 /\ <<l>>[1] = l /\ <<l>> # <<>>
      BY <1>9, <2>3, SegOne
    <3>10. RemembersOf(q)'
      <4>1. AllRemembered(<<l>>)'
        BY <2>2, <3>6, <3>9 DEF AllRemembered
      <4> QED
        BY <3>1, <4>1 DEF RemembersOf
    <3>11. LineOf(q)
      <4>1. i + Len(<<l>>) = Len(q.path) + 1 /\ Starts(<<l>>, i) /\ i \in Nat
        BY <1>9, <2>2, <2>4, <2>6, <3>9 DEF Starts
      <4>2. OnChain(q)
        BY <1>3, <2>1, <2>4, <3>1, <3>9, <4>1 DEF OnChain
      <4>3. EndsIn(q) /\ Straight(q)
        BY <1>3, <2>2, <3>1, <3>9 DEF EndsIn, Straight
      <4> QED
        BY <1>3, <1>7, <2>1, <4>2, <4>3 DEF LineOf, Going
    <3>12. (\A y \in Dialers : LineOf(dial[y]) /\ RemembersOf(dial[y]))'
      BY <1>1, <1>3, <1>5, <3>8, <3>10, <3>11, LinesKept DEF RouteInv
    <3>13. WayTo(r.route, x)
      <4>1. ASSUME NEW e \in Routes!Chains, NEW j \in DOMAIN Routes!Hops[e], Located(e, j, x)
            PROVE  \E b \in 1..j : b + Len(r.route) = j /\ Seg(r.route, e, b) /\ Starts(r.route, b)
        <5>1. j = i /\ (Routes!Shared \/ c = e)
          BY <1>3, <1>6, <2>1, <2>6, <4>1, OnePlace
        <5>2. Seg(r.route, e, a)
          BY <1>8, <5>1, SegOther
        <5>3. a \in 1..i
          <6>1. a # 0
            BY <1>8 DEF Seg
          <6> QED
            BY <1>8, <1>9, <1>10, <6>1
        <5> QED
          BY <1>8, <5>1, <5>2, <5>3
      <4> QED
        BY <4>1 DEF WayTo
    <3>14. ASSUME NEW y \in Routes!Mux
           PROVE  /\ via'[y] # <<>> => WayTo(via'[y], y)
                  /\ AllRemembered(via'[y])
                  /\ session'[y] # <<>> => PathTo(session'[y], y)
      <4>1. PICK w, t : w = via'[y] /\ t = session'[y]
        OBVIOUS
      <4>2. /\ w # <<>> => WayTo(w, y)
            /\ AllRemembered(w)
        <5>1. CASE y = x
          BY <1>7, <3>3, <3>13, <4>1, <5>1
        <5>2. CASE y # x
          BY <3>3, <4>1, <5>2 DEF RouteInv, LineInv
        <5> QED
          BY <5>1, <5>2
      <4>3. t # <<>> => PathTo(t, y)
        BY <1>5, <4>1 DEF RouteInv, LineInv
      <4> QED
        BY <4>1, <4>2, <4>3
    <3> QED
      BY <1>5, <3>8, <3>12, <3>14, MuxKept DEF LineInv, RouteInv
  <2> QED
    BY <2>5, <2>6
<1> QED
  BY <1>4, <1>11, <1>12

(* A node that is reached goes from the route to the path; the path is that*)
(* of its session.                                                         *)
LEMMA LineReached ==
    ASSUME RouteInv, NEW d \in Dialers, Routes!Reached(d)
    PROVE  LineInv'
<1>1. PICK q, r, l, x : q = dial'[d] /\ r = dial[d] /\ l = dial[d].route[1] /\ x = l.node
  OBVIOUS
<1>2. /\ OnlyDialOf(d) /\ q.good = r.good /\ q.service = r.service /\ q.chain = r.chain
      /\ r.pc = "connect" /\ r.route # <<>>
      /\ q.pc = "connect" /\ q.path = Append(r.path, l) /\ q.route = Tail(r.route)
      /\ session' = IF x \in Routes!Mux THEN [session EXCEPT ![x] = Append(r.path, l)]
                    ELSE session
  BY <1>1, ReachedIs DEF RouteInv, Kept, Aim
<1>3. UNCHANGED <<net, via>>
  BY DEF Routes!Reached
<1>4. LineOf(r) /\ net \in Nets
  BY <1>1 DEF RouteInv, RouteTypes, RouteRest, LineInv
<1>5. PICK c \in Routes!Chains : c = r.chain
  BY <1>2, <1>4 DEF LineOf, Going
<1>6. /\ r.good => c = Routes!Groups[r.service][1]
      /\ Seg(r.path, c, 1) /\ Seg(r.route, c, Len(r.path) + 1)
      /\ r.good => Len(r.path) + Len(r.route) = HopsOf(c)
      /\ EndsIn(r) /\ Straight(r)
  BY <1>2, <1>4, <1>5 DEF LineOf, OnChain, Going
<1>7. /\ Seg(q.route, c, (Len(r.path) + 1) + 1) /\ Len(q.route) = Len(r.route) - 1
      /\ On(c, Len(r.path) + 1, l) /\ l \in Routes!Legs
      /\ \A j \in 1..Len(r.route) - 1 : q.route[j] = r.route[j + 1]
      /\ IF q.route = <<>> THEN Len(r.route) = 1
         ELSE q.route[Len(q.route)] = r.route[Len(r.route)]
  <2>1. PICK a, s, t : a = Len(r.path) + 1 /\ s = r.route /\ t = Tail(r.route)
    OBVIOUS
  <2>2. Seg(s, c, a) /\ s # <<>> /\ l = s[1] /\ t = Tail(s) /\ t = q.route
    BY <1>1, <1>2, <1>6, <2>1
  <2>3. /\ Seg(t, c, a + 1) /\ Len(t) = Len(s) - 1
        /\ On(c, a, l) /\ l \in Routes!Legs
        /\ \A j \in 1..Len(s) - 1 : t[j] = s[j + 1]
        /\ IF t = <<>> THEN Len(s) = 1 ELSE t[Len(t)] = s[Len(s)]
    BY <2>2, SegTail
  <2> QED
    BY <2>1, <2>2, <2>3
<1>8. PICK h \in Nat, n \in Nat, m \in Nat : h = HopsOf(c) /\ n = Len(r.path) /\ m = Len(r.route)
  BY <1>4, <1>6, HopsOfType DEF Seg
<1>9. Seg(q.path, c, 1) /\ Len(q.path) = n + 1 /\ q.path[n + 1] = l /\ q.path # <<>>
  <2>1. On(c, 1 + Len(r.path), l)
    <3>1. 1 + n = n + 1
      OBVIOUS
    <3> QED
      BY <1>7, <1>8, <3>1
  <2> QED
    BY <1>2, <1>6, <1>7, <1>8, <2>1, SegAppend
<1>10. Seg(q.route, c, Len(q.path) + 1) /\ (q.good => Len(q.path) + Len(q.route) = HopsOf(c))
  <2>1. Len(q.path) + 1 = (n + 1) + 1 /\ Len(q.route) = m - 1
    BY <1>7, <1>8, <1>9
  <2>2. q.good => n + m = h
    BY <1>2, <1>6, <1>8
  <2>3. q.good => Len(q.path) + Len(q.route) = h
    BY <1>9, <2>1, <2>2
  <2> QED
    BY <1>7, <1>8, <2>1, <2>3
<1>11. EndsIn(q)
  <2>1. r.route[Len(r.route)].chain = c
    BY <1>2, <1>5, <1>6 DEF EndsIn
  <2>2. CASE q.route = <<>>
    <3>1. l.chain = c
      BY <1>1, <1>7, <2>1, <2>2
    <3>2. Located(c, n + 1, l.node)
      BY <1>7, <1>8, <3>1 DEF On
    <3> QED
      BY <1>2, <1>5, <1>9, <2>2, <3>2 DEF EndsIn
  <2>3. CASE q.route # <<>>
    BY <1>2, <1>5, <1>7, <2>1, <2>3 DEF EndsIn
  <2> QED
    BY <2>2, <2>3
<1>12. Straight(q)
  <2>1. SUFFICES ASSUME ~Routes!Nested(c), NEW j \in 1..Len(q.route) PROVE q.route[j].chain = c
    BY <1>2, <1>5 DEF Straight
  <2>2. j \in 1..m - 1 /\ j + 1 \in 1..m
    BY <1>7, <1>8
  <2> QED
    BY <1>5, <1>6, <1>7, <1>8, <2>1, <2>2 DEF Straight
<1>13. LineOf(q) /\ RemembersOf(q)
  <2>1. OnChain(q)
    BY <1>2, <1>5, <1>9, <1>10 DEF OnChain
  <2> QED
    BY <1>2, <1>5, <1>6, <1>11, <1>12, <2>1 DEF LineOf, RemembersOf, Going
<1>14. \A s : AllRemembered(s) => AllRemembered(s)'
  BY <1>3, SameRemembered
<1>15. RemembersOf(q)'
  BY <1>13, <1>14 DEF RemembersOf
<1>16. (\A y \in Dialers : LineOf(dial[y]) /\ RemembersOf(dial[y]))'
  BY <1>1, <1>2, <1>3, <1>13, <1>14, <1>15, LinesKept DEF RouteInv
<1>17. DOMAIN session = Routes!Mux
  BY DEF RouteInv, RouteTypes, RouteRest
<1>18. ASSUME NEW y \in Routes!Mux
       PROVE  /\ via'[y] # <<>> => WayTo(via'[y], y)
              /\ AllRemembered(via'[y])
              /\ session'[y] # <<>> => PathTo(session'[y], y)
  <2>1. PICK w, t : w = via'[y] /\ t = session'[y]
    OBVIOUS
  <2>2. /\ w # <<>> => WayTo(w, y)
        /\ AllRemembered(w)
    BY <1>3, <2>1 DEF RouteInv, LineInv
  <2>3. t # <<>> => PathTo(t, y)
    <3>1. CASE x \in Routes!Mux /\ y = x
      <4>1. t = q.path
        BY <1>2, <1>17, <2>1, <3>1
      <4>2. l.chain \in Routes!Chains /\ Located(l.chain, n + 1, x)
            /\ n + 1 \in DOMAIN Routes!Hops[l.chain] /\ (Routes!Shared \/ l.chain = c)
        BY <1>1, <1>7, <1>8, LegsAre DEF On
      <4>3. ASSUME NEW e \in Routes!Chains, NEW j \in DOMAIN Routes!Hops[e], Located(e, j, x)
            PROVE  Seg(q.path, e, 1) /\ Len(q.path) = j
        <5>1. j = n + 1 /\ (Routes!Shared \/ e = l.chain)
          BY <1>4, <3>1, <4>2, <4>3, OnePlace
        <5>2. Routes!Shared \/ c = e
          BY <4>2, <5>1
        <5> QED
          BY <1>9, <5>1, <5>2, SegOther
      <4> QED
        BY <1>1, <1>9, <3>1, <4>1, <4>3 DEF PathTo
    <3>2. CASE ~(x \in Routes!Mux /\ y = x)
      <4>1. t = session[y]
        BY <1>2, <1>17, <2>1, <3>2
      <4> QED
        BY <4>1 DEF RouteInv, LineInv
    <3> QED
      BY <3>1, <3>2
  <2> QED
    BY <2>1, <2>2, <2>3
<1> QED
  BY <1>3, <1>14, <1>16, <1>18, MuxKept DEF LineInv, RouteInv

(* Where a dial fails that is nested, the one around it fails.             *)
LEMMA LineUnreached ==
    ASSUME RouteInv, NEW d \in Dialers, Routes!Unreached(d)
    PROVE  LineInv'
<1>1. PICK q, r, o : q = dial'[d] /\ r = dial[d] /\ o = Routes!Outer(dial[d].route)
  OBVIOUS
<1>2. /\ OnlyDialOf(d) /\ q.good = r.good /\ q.service = r.service /\ q.chain = r.chain
      /\ r.pc \in {"connect", "unwind"} /\ UNCHANGED <<net, via, session>>
      /\ q.path = r.path
      /\ \/ o = <<>> /\ q.pc \in {"chain", "failed"}
         \/ o # <<>> /\ q.pc = "unwind" /\ q.route = o
  BY <1>1, UnreachedIs DEF RouteInv, Kept
<1>3. CASE o = <<>>
  <2>1. LineOf(q) /\ RemembersOf(q)
    BY <1>2, <1>3 DEF LineOf, RemembersOf, Going
  <2> QED
    BY <1>1, <1>2, <2>1, LineStep
<1>4. CASE o # <<>>
  <2>1. LineOf(r) /\ r.route \in Seq(Routes!Legs)
    BY <1>1 DEF RouteInv, RouteTypes, DialOK, LineInv
  <2>2. PICK k \in 2..Len(r.route) : r.route[k].node \in Routes!Mux
                                    /\ o = SubSeq(r.route, k, Len(r.route))
    BY <1>1, <1>4, <2>1, OuterIs
  <2>3. k \in 1..Len(r.route) /\ k >= 2 /\ k \in Nat
    BY <2>1, <2>2
  <2>4. r.route # <<>>
    BY <2>3
  <2>5. r.chain \in Routes!Chains
    BY <1>2, <2>1, <2>4 DEF LineOf, Going
  <2>6. PICK a \in Nat : Seg(r.route, r.chain, a)
    <3>1. OnChain(r)
      BY <1>2, <2>1, <2>5 DEF LineOf, Going
    <3>2. CASE r.pc = "connect"
      <4>1. Len(r.path) + 1 \in Nat /\ Seg(r.route, r.chain, Len(r.path) + 1)
        BY <3>1, <3>2 DEF OnChain, Seg
      <4> QED
        BY <4>1
    <3>3. CASE r.pc = "unwind"
      BY <3>1, <3>3 DEF OnChain
    <3> QED
      BY <1>2, <3>2, <3>3
  <2>7. Seg(o, r.chain, a + k - 1) /\ o[1] = r.route[k] /\ o[Len(o)] = r.route[Len(r.route)]
    BY <2>2, <2>3, <2>6, SegRest
  <2>8. a + k - 1 \in Nat /\ a + k - 1 >= 2
    <3>1. a # 0
      BY <2>6 DEF Seg
    <3> QED
      BY <2>3, <3>1
  <2>9. EndsIn(r) /\ Straight(r)
    BY <1>2, <2>1, <2>5 DEF LineOf, Going
  <2>10. OnChain(q)
    BY <1>2, <1>4, <2>2, <2>7, <2>8 DEF OnChain
  <2>11. EndsIn(q)
    BY <1>2, <1>4, <2>4, <2>7, <2>9 DEF EndsIn
  <2>12. Straight(q)
    <3>1. SUFFICES ASSUME ~Routes!Nested(r.chain), NEW j \in 1..Len(o) PROVE o[j].chain = r.chain
      BY <1>2, <1>4 DEF Straight
    <3>2. PICK n \in Nat : n = Len(r.route)
      BY <2>1
    <3>3. Len(o) = n - k + 1 /\ \A m \in 1..n - k + 1 : o[m] = r.route[k + m - 1]
      BY <2>1, <2>2, <2>3, <3>2, SubSeqProperties
    <3>4. k + j - 1 \in 1..n /\ j \in 1..n - k + 1
      BY <2>3, <3>2, <3>3
    <3> QED
      BY <2>9, <3>1, <3>2, <3>3, <3>4 DEF Straight
  <2>13. LineOf(q) /\ RemembersOf(q)
    BY <1>2, <1>4, <2>1, <2>5, <2>10, <2>11, <2>12 DEF LineOf, RemembersOf, Going
  <2> QED
    BY <1>1, <1>2, <2>13, LineStep
<1> QED
  BY <1>3, <1>4

LEMMA LineBroken ==
    ASSUME RouteInv, NEW d \in Dialers, Routes!Broken(d)
    PROVE  LineInv'
<1>1. PICK q : q = dial'[d]
  OBVIOUS
<1>2. OnlyDialOf(d) /\ q.pc \in {"chain", "failed"} /\ UNCHANGED <<net, via, session>>
  BY <1>1, AgainIs DEF RouteInv, Routes!Broken
<1>3. LineOf(q) /\ RemembersOf(q)
  BY <1>2 DEF LineOf, RemembersOf, Going
<1> QED
  BY <1>1, <1>2, <1>3, LineStep

LEMMA LineConnected ==
    ASSUME RouteInv, NEW d \in Dialers, Routes!Connected(d)
    PROVE  LineInv'
<1>1. PICK q, r : q = dial'[d] /\ r = dial[d]
  OBVIOUS
<1>2. /\ OnlyDialOf(d) /\ q.good = r.good /\ q.service = r.service /\ q.chain = r.chain
      /\ r.pc = "connect" /\ r.route = <<>> /\ q.pc = "connected"
      /\ q.route = r.route /\ q.path = r.path
  BY <1>1, ConnectedIs DEF RouteInv, Kept, Aim
<1>3. LineOf(r)
  BY <1>1 DEF RouteInv, LineInv
<1>4. ASSUME r.chain \in Routes!Chains PROVE OnChain(q) /\ EndsIn(q) /\ Straight(q)
  <2>1. /\ Seg(r.path, r.chain, 1) /\ (r.good => Len(r.path) + Len(r.route) = HopsOf(r.chain))
        /\ EndsIn(r) /\ Straight(r)
    BY <1>2, <1>3, <1>4 DEF LineOf, OnChain, Going
  <2>2. Len(r.path) \in Nat /\ Len(r.route) = 0
    BY <1>2, <2>1 DEF Seg
  <2>3. r.good => Len(r.path) = HopsOf(r.chain)
    BY <2>1, <2>2
  <2>4. EndsIn(q) /\ Straight(q)
    BY <1>2, <2>1 DEF EndsIn, Straight
  <2> QED
    BY <1>2, <2>1, <2>3, <2>4 DEF OnChain
<1>5. LineOf(q) /\ RemembersOf(q)
  BY <1>2, <1>3, <1>4 DEF LineOf, RemembersOf, Going
<1> QED
  BY <1>1, <1>2, <1>5, LineStep DEF Routes!Connected

(* What spoils the chances of dials leaves them where they are.            *)
LEMMA LineSpoiled ==
    ASSUME RouteInv, (\E x \in Routes!Nodes : Routes!Flip(x)) \/ (\E m \in Routes!Marked : Routes!Expire(m))
    PROVE  LineInv'
<1>1. UNCHANGED <<net, via>> /\ dial' = Routes!Spoiled
  BY DEF Routes!Flip, Routes!Expire
<1>2. \A x \in Routes!Mux : session'[x] = <<>> \/ session'[x] = session[x]
  BY DEF Routes!Flip, Routes!Expire
<1>3. \A s : AllRemembered(s) => AllRemembered(s)'
  BY <1>1, SameRemembered
<1>4. ASSUME NEW d \in Dialers PROVE LineOf(dial[d])' /\ RemembersOf(dial[d])'
  <2>1. PICK q, r : q = dial'[d] /\ r = dial[d]
    OBVIOUS
  <2>2. /\ ~q.good /\ q.pc = r.pc /\ q.chain = r.chain /\ q.service = r.service
        /\ q.route = r.route /\ q.path = r.path
    BY <1>1, <2>1, SpoiledIs DEF RouteInv
  <2>3. LineOf(r) /\ RemembersOf(r)
    BY <2>1 DEF RouteInv, LineInv
  <2>4. OnChain(r) => OnChain(q)
    BY <2>2 DEF OnChain
  <2>5. (EndsIn(r) => EndsIn(q)) /\ (Straight(r) => Straight(q))
    BY <2>2 DEF EndsIn, Straight
  <2>6. LineOf(q) /\ RemembersOf(q)
    BY <2>2, <2>3, <2>4, <2>5 DEF LineOf, RemembersOf
  <2>7. LineOf(q)' /\ RemembersOf(q)'
    BY <1>1, <1>3, <2>6, SameLines DEF RemembersOf
  <2> QED
    BY <2>1, <2>7
<1>5. \A x \in Routes!Mux : /\ via'[x] # <<>> => WayTo(via'[x], x)
                            /\ AllRemembered(via'[x])
                            /\ session'[x] # <<>> => PathTo(session'[x], x)
  BY <1>1, <1>2 DEF RouteInv, LineInv
<1> QED
  BY <1>1, <1>3, <1>4, <1>5, MuxKept DEF LineInv, RouteInv

LEMMA LineNext ==
    ASSUME RouteInv, [Routes!Next]_routeVars
    PROVE  LineInv'
<1>1. CASE UNCHANGED routeVars
  <2>1. UNCHANGED <<net, via, session, dial>>
    BY <1>1 DEF routeVars
  <2>2. \A s : AllRemembered(s) => AllRemembered(s)'
    BY <2>1, SameRemembered
  <2>3. ASSUME NEW d \in Dialers PROVE LineOf(dial[d])' /\ RemembersOf(dial[d])'
    <3>1. PICK r : r = dial[d]
      OBVIOUS
    <3>2. LineOf(r)' /\ RemembersOf(r)'
      BY <2>1, <2>2, <3>1, SameLines DEF RouteInv, LineInv, RemembersOf
    <3> QED
      BY <2>1, <3>1, <3>2
  <2>4. \A x \in Routes!Mux : /\ via'[x] # <<>> => WayTo(via'[x], x)
                              /\ AllRemembered(via'[x])
                              /\ session'[x] # <<>> => PathTo(session'[x], x)
    BY <2>1 DEF RouteInv, LineInv
  <2> QED
    BY <2>1, <2>2, <2>3, <2>4, MuxKept DEF RouteInv, LineInv
<1>2. ASSUME NEW d \in Dialers, Routes!Step(d) PROVE LineInv'
  BY <1>2, LinePickChain, LinePickNode, LineRouteDone, LineTransport, LineReached, LineUnreached,
     LineBroken, LineConnected DEF Routes!Step
<1> QED
  BY <1>1, <1>2, LineStart, LineSpoiled DEF Routes!Next

LEMMA NodesOfMore ==
    ASSUME NEW s \in Seq(Routes!Legs), NEW l \in Routes!Legs, NEW R,
           Routes!NodesOf(s) \cup {l.node} \subseteq R
    PROVE  Routes!NodesOf(Append(s, l)) \subseteq R
<1>1. PICK u, n : u = Append(s, l) /\ n = Len(s)
  OBVIOUS
<1>2. n \in Nat /\ u \in Seq(Routes!Legs) /\ Len(u) = n + 1 /\ u[n + 1] = l
      /\ \A j \in 1..n : u[j] = s[j]
  BY <1>1, AppendProperties
<1>3. \A j \in 1..n : s[j].node \in R
  BY <1>1 DEF Routes!NodesOf
<1>4. ASSUME NEW j \in 1..n + 1 PROVE u[j].node \in R
  <2>1. j = n + 1 \/ j \in 1..n
    BY <1>2
  <2> QED
    BY <1>2, <1>3, <2>1
<1> QED
  BY <1>1, <1>2, <1>4 DEF Routes!NodesOf

(* Sessions go over nodes that can be reached: one that goes down ends them.*)
LEMMA UpNext ==
    ASSUME RouteInv, [Routes!Next]_routeVars
    PROVE  UpInv'
<1>1. Routes!Mux' = Routes!Mux /\ \A x \in Routes!Mux : Routes!NodesOf(session[x]) \subseteq reachable
  <2>1. UNCHANGED net
    BY DEF Routes!Next, Routes!Start, Routes!Step, Routes!PickChain, Routes!PickNode,
       Routes!RouteDone, Routes!Transport, Routes!Reached, Routes!Unreached, Routes!GiveUp,
       Routes!Connected, Routes!Broken, Routes!Flip, Routes!Expire, routeVars
  <2> QED
    BY <2>1, SameNet DEF RouteInv, UpInv
<1>2. CASE UNCHANGED <<session, reachable>>
  BY <1>1, <1>2 DEF UpInv
<1>3. ASSUME NEW d \in Dialers, Routes!Reached(d) PROVE UpInv'
  <2>1. PICK r, l : r = dial[d] /\ l = dial[d].route[1]
    OBVIOUS
  <2>2. /\ r.route # <<>> /\ Routes!NodesOf(r.path) \cup {l.node} \subseteq reachable
        /\ session' = IF l.node \in Routes!Mux THEN [session EXCEPT ![l.node] = Append(r.path, l)]
                      ELSE session
        /\ r.path \in Seq(Routes!Legs) /\ r.route \in Seq(Routes!Legs) /\ UNCHANGED reachable
    BY <1>3, <2>1, ReachedIs DEF RouteInv, RouteTypes, DialOK, Routes!Reached
  <2>3. Routes!NodesOf(Append(r.path, l)) \subseteq reachable
    <3>1. l \in Routes!Legs
      BY <2>1, <2>2
    <3> QED
      BY <2>2, <3>1, NodesOfMore
  <2>4. ASSUME NEW x \in Routes!Mux PROVE Routes!NodesOf(session'[x]) \subseteq reachable
    <3>1. session'[x] = session[x] \/ session'[x] = Append(r.path, l)
      BY <2>2 DEF RouteInv, RouteTypes, RouteRest
    <3> QED
      BY <1>1, <2>3, <3>1
  <2> QED
    BY <1>1, <2>2, <2>4 DEF UpInv
<1>4. ASSUME NEW n \in Routes!Nodes, Routes!Flip(n) PROVE UpInv'
  <2>1. /\ reachable' = IF n \in reachable THEN reachable \ {n} ELSE reachable \cup {n}
        /\ session' = [m \in Routes!Mux |-> IF n \in Routes!NodesOf(session[m]) THEN <<>>
                                            ELSE session[m]]
    BY <1>4 DEF Routes!Flip
  <2>2. ASSUME NEW x \in Routes!Mux PROVE Routes!NodesOf(session'[x]) \subseteq reachable'
    <3>1. CASE n \in Routes!NodesOf(session[x])
      <4>1. session'[x] = <<>> /\ Routes!NodesOf(<<>>) = {}
        BY <2>1, <3>1 DEF Routes!NodesOf
      <4> QED
        BY <4>1
    <3>2. CASE n \notin Routes!NodesOf(session[x])
      BY <1>1, <2>1, <3>2
    <3> QED
      BY <3>1, <3>2
  <2> QED
    BY <1>1, <2>2 DEF UpInv
<1> QED
  BY <1>2, <1>3, <1>4 DEF Routes!Next, Routes!Start, Routes!Step, Routes!PickChain, Routes!PickNode,
     Routes!RouteDone, Routes!Transport, Routes!Unreached, Routes!GiveUp, Routes!Connected,
     Routes!Broken, Routes!Expire, routeVars

LEMMA LineInvIsRight == RouteInv => Routes!StaysOnChain
<1> SUFFICES ASSUME RouteInv, NEW d \in Dialers, dial[d].good, dial[d].pc = "connected",
                    NEW c, c = Routes!Groups[dial[d].service][1],
                    NEW path, path = dial[d].path
             PROVE  /\ Len(path) = Len(Routes!Hops[c])
                    /\ \A i \in DOMAIN path :
                          path[i].node \in Routes!ToSet(Routes!Hops[path[i].chain][i])
                    /\ path # <<>> =>
                          path[Len(path)].node \in Routes!ToSet(Routes!Hops[c][Len(path)])
                    /\ ~Routes!Shared => \A i \in DOMAIN path : path[i].chain = c
  BY DEF Routes!StaysOnChain
<1>1. PICK r : r = dial[d]
  OBVIOUS
<1>2. c \in Routes!Chains
  <2>1. dial[d].service \in Routes!Entries /\ net \in Nets
    BY DEF RouteInv, RouteTypes, RouteRest, DialOK
  <2>2. Routes!Groups[dial[d].service] \in Seq(Routes!Chains) /\ Routes!Groups[dial[d].service] # <<>>
    BY <2>1, NetFacts
  <2> QED
    BY <2>2
<1>3. /\ Seg(path, c, 1) /\ Len(path) = HopsOf(c)
      /\ path # <<>> => Located(c, Len(path), path[Len(path)].node)
  <2>1. r.chain = c
    BY <1>1 DEF RouteInv, LineInv, LineOf, Going
  <2>2. OnChain(r) /\ EndsIn(r)
    BY <1>1, <1>2, <2>1 DEF RouteInv, LineInv, LineOf, Going
  <2> QED
    BY <1>1, <2>1, <2>2 DEF OnChain, EndsIn
<1>4. ASSUME NEW i \in DOMAIN path
      PROVE  /\ path[i].node \in Routes!ToSet(Routes!Hops[path[i].chain][i])
             /\ ~Routes!Shared => path[i].chain = c
  <2>1. i \in 1..Len(path) /\ 1 + i - 1 = i
    BY <1>3 DEF Seg
  <2>2. On(c, 1 + i - 1, path[i])
    BY <1>3, <2>1 DEF Seg
  <2> QED
    BY <2>1, <2>2 DEF On, Located
<1> QED
  BY <1>3, <1>4 DEF HopsOf, Located

-----------------------------------------------------------------------------
(* The chance of a dial.  What dials note, they note of nodes that are     *)
(* down, or of those whose transports have failed: nodes that multiplex,   *)
(* behind the first hop, of which no chain without nested routes has any.  *)
PathsUp == \A e \in Dialers : dial[e].pc = "connect" => Routes!NodesOf(dial[e].path) \subseteq reachable
NoUnwind == \A e \in Dialers : dial[e].pc # "unwind"

LEMMA NoneIsDown ==
    ASSUME RouteTypes, Routes!Down = 0
    PROVE  Routes!Nodes \subseteq reachable
<1>1. IsFiniteSet(Routes!Nodes \ reachable)
  BY FiniteNodes, FS_Subset DEF RouteTypes, RouteRest
<1>2. Cardinality(Routes!Nodes \ reachable) = 0
  BY SameNumber DEF Routes!Down
<1>3. Routes!Nodes \ reachable = {}
  BY <1>1, <1>2, FS_EmptySet
<1> QED
  BY <1>3

LEMMA StepIsOf ==
    ASSUME RouteTypes, NEW d \in Dialers, Routes!Step(d)
    PROVE  OnlyDialOf(d) /\ Kept(d)
BY PickChainIs, PickNodeIs, RouteDoneIs, TransportIs, ReachedIs, UnreachedIs, ConnectedIs, AgainIs
   DEF Routes!Step, Routes!Broken

LEMMA PathsStayUp ==
    ASSUME RouteInv, NEW d \in Dialers, Routes!Step(d), PathsUp
    PROVE  \A e \in Dialers :
              dial'[e].pc = "connect" => Routes!NodesOf(dial'[e].path) \subseteq reachable
<1>1. PICK q, r : q = dial'[d] /\ r = dial[d]
  OBVIOUS
<1>2. SUFFICES ASSUME q.pc = "connect" PROVE Routes!NodesOf(q.path) \subseteq reachable
  <2>1. OnlyDialOf(d)
    BY StepIsOf DEF RouteInv
  <2> QED
    BY <1>1, <2>1 DEF OnlyDialOf, PathsUp
<1>3. Routes!NodesOf(<<>>) = {}
  BY DEF Routes!NodesOf
<1>4. CASE Routes!Transport(d)
  <2>1. r.pc = "dial" /\ (q.path = r.path \/ \E x \in Routes!Mux : q.path = session[x])
    BY <1>1, <1>4, TransportIs DEF RouteInv
  <2>2. LineOf(r)
    BY <1>1 DEF RouteInv, LineInv
  <2>3. r.path = <<>>
    BY <2>1, <2>2 DEF LineOf, OnChain, Going
  <2> QED
    BY <1>3, <2>1, <2>3 DEF RouteInv, UpInv
<1>5. CASE Routes!Reached(d)
  <2>1. PICK l : l = r.route[1]
    OBVIOUS
  <2>2. /\ r.route # <<>> /\ Routes!NodesOf(r.path) \cup {l.node} \subseteq reachable
        /\ q.path = Append(r.path, l)
    BY <1>1, <1>5, <2>1, ReachedIs DEF RouteInv
  <2>3. r.path \in Seq(Routes!Legs) /\ r.route \in Seq(Routes!Legs)
    BY <1>1 DEF RouteInv, RouteTypes, DialOK
  <2>4. l \in Routes!Legs
    BY <2>1, <2>2, <2>3
  <2> QED
    BY <2>2, <2>3, <2>4, NodesOfMore
<1>6. ~Routes!PickChain(d)
  BY <1>1, <1>2, PickChainIs DEF RouteInv
<1>7. ~Routes!PickNode(d)
  BY <1>1, <1>2, PickNodeIs DEF RouteInv
<1>8. ~Routes!RouteDone(d) /\ ~Routes!Connected(d)
  BY <1>1, <1>2, RouteDoneIs, ConnectedIs DEF RouteInv
<1>9. ~Routes!Unreached(d)
  BY <1>1, <1>2, UnreachedIs DEF RouteInv
<1>10. ~Routes!Broken(d)
  BY <1>1, <1>2, AgainIs DEF RouteInv, Routes!Broken
<1> QED
  BY <1>4, <1>5, <1>6, <1>7, <1>8, <1>9, <1>10 DEF Routes!Step

(* The head of a route whose dial fails is a leg: a node that is down, or  *)
(* one that multiplexes and is behind the first hop of its chain.          *)
LEMMA FailsAt ==
    ASSUME RouteInv, NEW d \in Dialers, Routes!Unreached(d), PathsUp,
           NEW l, l = dial[d].route[1]
    PROVE  /\ l \in Routes!Legs
           /\ \/ dial[d].pc = "connect" /\ dial[d].route # <<>> /\ l.node \notin reachable
              \/ /\ dial[d].pc = "unwind" /\ l.node \in Routes!Mux
                 /\ \E a \in DOMAIN Routes!Hops[l.chain] : a >= 2 /\ Located(l.chain, a, l.node)
<1>1. PICK r : r = dial[d]
  OBVIOUS
<1>2. /\ \/ /\ r.pc = "connect" /\ r.route # <<>>
            /\ ~(Routes!NodesOf(r.path) \cup {l.node} \subseteq reachable)
         \/ r.pc = "unwind"
      /\ r.route \in Seq(Routes!Legs) /\ LineOf(r)
  BY <1>1, UnreachedIs DEF RouteInv, RouteTypes, DialOK, LineInv
<1>3. CASE r.pc = "connect" /\ r.route # <<>>
  <2>1. Routes!NodesOf(r.path) \subseteq reachable
    BY <1>1, <1>3 DEF PathsUp
  <2>2. l \in Routes!Legs
    BY <1>1, <1>2, <1>3
  <2> QED
    BY <1>1, <1>2, <1>3, <2>1, <2>2
<1>4. CASE r.pc = "unwind"
  <2>1. /\ r.route # <<>> /\ r.route[1].node \in Routes!Mux
        /\ \E a \in Nat : a >= 2 /\ Seg(r.route, r.chain, a)
    BY <1>2, <1>4 DEF LineOf, OnChain, Going
  <2>2. PICK a \in Nat : a >= 2 /\ Seg(r.route, r.chain, a)
    BY <2>1
  <2>3. On(r.chain, a, l) /\ l \in Routes!Legs
    BY <1>1, <2>1, <2>2, SegTail
  <2> QED
    BY <1>1, <1>4, <2>1, <2>2, <2>3 DEF On
<1> QED
  BY <1>2, <1>3, <1>4

LEMMA NoneFails ==
    ASSUME RouteInv, NEW d \in Dialers, Routes!Unreached(d), PathsUp, NoUnwind, Routes!Down = 0
    PROVE  FALSE
<1>1. PICK l : l = dial[d].route[1]
  OBVIOUS
<1>2. l \in Routes!Legs /\ l.node \notin reachable
  BY <1>1, FailsAt DEF NoUnwind
<1>3. l.node \in Routes!Nodes
  BY <1>2, LegsAre
<1> QED
  BY <1>2, <1>3, NoneIsDown DEF RouteInv

LEMMA NoUnwindStays ==
    ASSUME RouteInv, NEW d \in Dialers, Routes!Step(d), PathsUp, NoUnwind, Routes!Down = 0
    PROVE  \A e \in Dialers : dial'[e].pc # "unwind"
<1>1. OnlyDialOf(d)
  BY StepIsOf DEF RouteInv
<1>2. dial'[d].pc # "unwind"
  <2>1. ~Routes!Unreached(d)
    BY NoneFails
  <2>2. CASE Routes!PickChain(d) \/ Routes!RouteDone(d) \/ Routes!Connected(d)
    BY <2>2, PickChainIs, RouteDoneIs, ConnectedIs DEF RouteInv
  <2>3. CASE Routes!PickNode(d)
    BY <2>3, PickNodeIs DEF RouteInv
  <2>4. CASE Routes!Transport(d) \/ Routes!Reached(d)
    BY <2>4, TransportIs, ReachedIs DEF RouteInv
  <2>5. CASE Routes!Broken(d)
    BY <2>5, AgainIs DEF RouteInv, Routes!Broken
  <2> QED
    BY <2>1, <2>2, <2>3, <2>4, <2>5 DEF Routes!Step
<1> QED
  BY <1>1, <1>2 DEF OnlyDialOf, NoUnwind

(* What a step makes of the markers.                                       *)
LEMMA StepMarks ==
    ASSUME RouteTypes, NEW d \in Dialers, Routes!Step(d)
    PROVE  /\ UNCHANGED <<fails, expired>> \/ (\E M : Routes!Reset(M)) \/ Routes!Unreached(d)
           /\ expired' \subseteq expired
<1>1. UNCHANGED <<fails, expired>> \/ (\E M : Routes!Reset(M)) \/ Routes!Unreached(d)
  BY TransportIs, ReachedIs DEF Routes!Step, Routes!PickChain, Routes!PickNode, Routes!RouteDone,
     Routes!Connected, Routes!Broken
<1>2. Routes!Unreached(d) => \E M : Routes!Mark(M)
  BY DEF Routes!Unreached, Routes!GiveUp
<1> QED
  BY <1>1, <1>2 DEF Routes!Reset, Routes!Mark

LEMMA AliveStays ==
    ASSUME RouteInv, NEW d \in Dialers, Routes!Step(d), PathsUp,
           NEW c \in Routes!Chains, Routes!Nested(c) => NoUnwind,
           NEW i \in DOMAIN Routes!Hops[c], NEW x \in reachable, Located(c, i, x), Routes!Alive(x)
    PROVE  Routes!Alive(x)'
<1>1. x \in Routes!Nodes /\ x \in Routes!Marked /\ x \notin Routes!Chains /\ fails[x] \in 0..MaxFails
  BY NetFacts DEF RouteInv, RouteTypes, RouteRest, Routes!Marked
<1>2. CASE UNCHANGED <<fails, expired>>
  BY <1>2 DEF Routes!Alive
<1>3. CASE \E M : Routes!Reset(M)
  BY <1>1, <1>3, RouteNumbers DEF Routes!Reset, Routes!Alive
<1>4. CASE Routes!Unreached(d)
  <2>1. PICK l : l = dial[d].route[1]
    OBVIOUS
  <2>2. Routes!Mark({l.node, l.chain})
    BY <1>4, <2>1, UnreachedIs DEF RouteInv
  <2>3. l \in Routes!Legs
    BY <1>4, <2>1, FailsAt
  <2>4. l.chain \in Routes!Chains
    BY <2>3, LegsAre
  <2>5. x # l.node
    <3>1. SUFFICES ASSUME x = l.node PROVE FALSE
      OBVIOUS
    <3>2. /\ dial[d].pc = "unwind" /\ l.node \in Routes!Mux
          /\ \E a \in DOMAIN Routes!Hops[l.chain] : a >= 2 /\ Located(l.chain, a, l.node)
      BY <1>4, <2>1, <3>1, FailsAt
    <3>3. PICK a \in DOMAIN Routes!Hops[l.chain] : a >= 2 /\ Located(l.chain, a, l.node)
      BY <3>2
    <3>4. i = a
      BY <2>4, <3>1, <3>2, <3>3, OnePlace DEF RouteInv, RouteTypes, RouteRest
    <3>5. i > 1
      <4>1. Routes!Hops[c] \in Seq(Seq(Routes!Nodes))
        BY NetFacts DEF RouteInv, RouteTypes, RouteRest
      <4>2. i \in Nat
        BY <4>1
      <4> QED
        BY <3>3, <3>4, <4>2
    <3>6. Routes!Nested(c)
      BY <3>1, <3>2, <3>5, NestedAt
    <3> QED
      BY <3>2, <3>6 DEF NoUnwind
  <2>6. x \notin {l.node, l.chain}
    BY <1>1, <2>4, <2>5
  <2> QED
    BY <1>1, <2>2, <2>6 DEF Routes!Mark, Routes!Alive
<1> QED
  BY <1>2, <1>3, <1>4, StepMarks DEF RouteInv

LEMMA EntryIs ==
    ASSUME RouteTypes, NEW s \in Routes!Entries
    PROVE  Routes!Groups[s][1] \in Routes!Chains
<1>1. Routes!Groups[s] \in Seq(Routes!Chains) /\ Routes!Groups[s] # <<>>
  BY NetFacts DEF RouteTypes, RouteRest
<1> QED
  BY <1>1

LEMMA ChanceStays ==
    ASSUME RouteTypes, NEW s \in Routes!Entries, NEW t, Routes!GoodChance(s, t),
           NEW c, c = Routes!Groups[s][1],
           UNCHANGED <<net, reachable>>, expired' \subseteq expired,
           \A e \in Dialers :
              dial'[e].pc = "connect" => Routes!NodesOf(dial'[e].path) \subseteq reachable,
           Routes!Nested(c) => \A e \in Dialers : dial'[e].pc # "unwind",
           \A i \in DOMAIN Routes!Hops[c] : \A x \in reachable :
              Located(c, i, x) /\ Routes!Alive(x) => Routes!Alive(x)'
    PROVE  Routes!GoodChance(s, t)'
<1>1. c \in Routes!Chains
  BY EntryIs
<1>2. Routes!Hops[c] \in Seq(Seq(Routes!Nodes))
  BY <1>1, NetFacts DEF RouteTypes, RouteRest
<1>3. ASSUME NEW i \in DOMAIN Routes!Hops[c], NEW hop, hop = Routes!Hops[c][i], Routes!Offers(hop, t)
      PROVE  Routes!Offers(hop, t)'
  <2>1. Routes!Eligible(hop, t)' = Routes!Eligible(hop, t)
    BY DEF Routes!Eligible
  <2>2. PICK k \in Routes!Eligible(hop, t) : hop[k] \in reachable /\ Routes!Alive(hop[k])
    BY <1>3 DEF Routes!Offers
  <2>3. PICK x : x = hop[k]
    OBVIOUS
  <2>4. Located(c, i, x)
    BY <1>3, <2>2, <2>3 DEF Routes!Eligible, Located, Routes!ToSet
  <2>5. Routes!Alive(x)'
    BY <2>2, <2>3, <2>4
  <2> QED
    BY <2>1, <2>2, <2>3, <2>5 DEF Routes!Offers
<1>4. Routes!HasPriorities' <=> Routes!HasPriorities
  BY DEF Routes!HasPriorities, Routes!Nodes
<1>5. Routes!Down' = Routes!Down
  BY DEF Routes!Down, Routes!Nodes
<1>6. Routes!Nested(c)' <=> Routes!Nested(c)
  BY SameNet DEF Routes!Nested
<1>7. /\ Len(Routes!Groups[s]) = 1 /\ MaxFails = 1 /\ ~Routes!HasPriorities
      /\ \A n \in Routes!Nodes \ reachable : n \notin expired
      /\ \A i \in DOMAIN Routes!Hops[c] : Routes!Offers(Routes!Hops[c][i], t)
      /\ Routes!Down <= Retries
      /\ Routes!Nested(c) => Routes!Down = 0
  BY DEF Routes!GoodChance
<1>8. \A i \in DOMAIN Routes!Hops[c] : Routes!Offers(Routes!Hops[c][i], t)'
  <2>1. SUFFICES ASSUME NEW i \in DOMAIN Routes!Hops[c]
                 PROVE  Routes!Offers(Routes!Hops[c][i], t)'
    OBVIOUS
  <2>2. PICK hop : hop = Routes!Hops[c][i]
    OBVIOUS
  <2>3. Routes!Offers(hop, t)'
    BY <1>3, <1>7, <2>2
  <2>4. Routes!Hops'[c][i] = hop
    BY <2>2, SameNet
  <2> QED
    BY <2>3, <2>4 DEF Routes!Offers, Routes!Eligible
<1>10. \A n \in Routes!Nodes \ reachable : n \notin expired'
  BY <1>7
<1>9. Routes!Groups'[s][1] = c
  BY SameNet
<1> QED
  BY <1>4, <1>5, <1>6, <1>7, <1>8, <1>9, <1>10, SameNet DEF Routes!GoodChance

LEMMA ChanceKept ==
    ASSUME ChanceInv, NEW d \in Dialers, OnlyDialOf(d), ChanceOf(dial'[d]), UNCHANGED net,
           \A s \in Routes!Entries : \A t : Routes!GoodChance(s, t) => Routes!GoodChance(s, t)'
    PROVE  ChanceInv'
<1>1. ASSUME NEW x \in Dialers PROVE ChanceOf(dial[x])'
  <2>1. PICK r : r = dial'[x]
    OBVIOUS
  <2>2. ChanceOf(r)
    BY <2>1 DEF ChanceInv, OnlyDialOf
  <2>3. PICK s, t : s = r.service /\ t = r.target
    OBVIOUS
  <2>4. r.good => s \in Routes!Entries' /\ Routes!GoodChance(s, t)'
    BY <2>2, <2>3, SameNet DEF ChanceOf
  <2> QED
    BY <2>1, <2>3, <2>4 DEF ChanceOf
<1> QED
  BY <1>1 DEF ChanceInv

LEMMA ChanceNext ==
    ASSUME RouteInv, [Routes!Next]_routeVars
    PROVE  ChanceInv'
<1>1. CASE UNCHANGED routeVars
  <2>1. UNCHANGED <<net, reachable, expired, fails, dial>>
    BY <1>1 DEF routeVars
  <2>2. ASSUME NEW s \in Routes!Entries, NEW t, Routes!GoodChance(s, t)
        PROVE  Routes!GoodChance(s, t)'
    <3>1. \A x : Routes!Alive(x)' <=> Routes!Alive(x)
      BY <2>1 DEF Routes!Alive
    <3>2. PathsUp /\ (Routes!Nested(Routes!Groups[s][1]) => NoUnwind)
      BY <2>2 DEF Routes!GoodChance, PathsUp, NoUnwind
    <3> QED
      BY <2>1, <2>2, <3>1, <3>2, ChanceStays DEF RouteInv, PathsUp, NoUnwind
  <2>3. ASSUME NEW x \in Dialers PROVE ChanceOf(dial[x])'
    <3>1. PICK r, s, t : r = dial[x] /\ s = r.service /\ t = r.target
      OBVIOUS
    <3>2. r.good => s \in Routes!Entries' /\ Routes!GoodChance(s, t)'
      BY <2>1, <2>2, <3>1, SameNet DEF RouteInv, ChanceInv, ChanceOf
    <3> QED
      BY <2>1, <3>1, <3>2 DEF ChanceOf
  <2> QED
    BY <2>3 DEF ChanceInv
<1>2. ASSUME NEW d \in Dialers, NEW s \in Routes!Entries, NEW t \in Routes!Targets,
             Routes!Start(d, s, t)
      PROVE  ChanceInv'
  <2>1. ChanceOf(dial'[d]) /\ OnlyDialOf(d) /\ dial'[d].pc = "chain"
    BY <1>2, StartIs DEF ChanceOf, RouteInv
  <2>2. UNCHANGED <<net, reachable, expired, fails>>
    BY <1>2 DEF Routes!Start
  <2>3. ASSUME NEW e \in Routes!Entries, NEW w, Routes!GoodChance(e, w)
        PROVE  Routes!GoodChance(e, w)'
    <3>1. \A x : Routes!Alive(x)' <=> Routes!Alive(x)
      BY <2>2 DEF Routes!Alive
    <3>2. PathsUp /\ (Routes!Nested(Routes!Groups[e][1]) => NoUnwind)
      BY <2>3 DEF Routes!GoodChance, PathsUp, NoUnwind
    <3>3. \A x \in Dialers : dial'[x] = dial[x] \/ dial'[x].pc = "chain"
      BY <2>1 DEF OnlyDialOf
    <3> QED
      BY <2>2, <2>3, <3>1, <3>2, <3>3, ChanceStays DEF RouteInv, PathsUp, NoUnwind
  <2> QED
    BY <2>1, <2>2, <2>3, ChanceKept DEF RouteInv
<1>3. ASSUME NEW d \in Dialers, Routes!Step(d) PROVE ChanceInv'
  <2>1. OnlyDialOf(d) /\ Kept(d)
    BY <1>3, StepIsOf DEF RouteInv
  <2>2. ChanceOf(dial'[d])
    BY <2>1 DEF RouteInv, ChanceInv, ChanceOf, Kept
  <2>3. UNCHANGED <<net, reachable>> /\ expired' \subseteq expired
    BY <1>3, StepRest, StepMarks DEF RouteInv
  <2>4. ASSUME NEW s \in Routes!Entries, NEW t, Routes!GoodChance(s, t)
        PROVE  Routes!GoodChance(s, t)'
    <3>1. PICK c \in Routes!Chains : c = Routes!Groups[s][1]
      BY EntryIs DEF RouteInv
    <3>2. PathsUp /\ (Routes!Nested(c) => NoUnwind /\ Routes!Down = 0)
      BY <2>4, <3>1 DEF Routes!GoodChance, PathsUp, NoUnwind
    <3>3. \A e \in Dialers :
             dial'[e].pc = "connect" => Routes!NodesOf(dial'[e].path) \subseteq reachable
      BY <1>3, <3>2, PathsStayUp
    <3>4. Routes!Nested(c) => \A e \in Dialers : dial'[e].pc # "unwind"
      BY <1>3, <3>2, NoUnwindStays
    <3>5. \A i \in DOMAIN Routes!Hops[c] : \A x \in reachable :
             Located(c, i, x) /\ Routes!Alive(x) => Routes!Alive(x)'
      BY <1>3, <3>2, AliveStays
    <3> QED
      BY <2>3, <2>4, <3>1, <3>3, <3>4, <3>5, ChanceStays DEF RouteInv
  <2> QED
    BY <2>1, <2>2, <2>3, <2>4, ChanceKept DEF RouteInv
<1>4. CASE (\E x \in Routes!Nodes : Routes!Flip(x)) \/ (\E m \in Routes!Marked : Routes!Expire(m))
  <2>1. dial' = Routes!Spoiled
    BY <1>4 DEF Routes!Flip, Routes!Expire
  <2>2. \A d \in Dialers : ~dial'[d].good
    BY <2>1, SpoiledIs DEF RouteInv
  <2> QED
    BY <2>2 DEF ChanceInv, ChanceOf
<1> QED
  BY <1>1, <1>2, <1>3, <1>4 DEF Routes!Next


-----------------------------------------------------------------------------
(* The nodes that are down and known to be.  Each try of a dial with a good*)
(* chance adds one to them, or another dial has: those that the dial still *)
(* holds in its route do not count yet.                                    *)
Dead == {x \in Routes!Nodes \ reachable : ~Routes!Alive(x)}
Trying == {"chain", "route", "dial", "connect"}
HeldOf(r) == IF r.pc \in {"route", "dial", "connect"} THEN Routes!NodesOf(r.route) ELSE {}
Retrying(r, D) ==
    r.good =>
        /\ r.pc # "failed" /\ r.pc # "unwind"
        /\ r.pc \in Trying => r.try <= Cardinality(D \ HeldOf(r))
RetryInv == \A d \in Dialers : Retrying(dial[d], Dead)

LEMMA FewAreDead ==
    ASSUME RouteTypes
    PROVE  /\ IsFiniteSet(Dead) /\ IsFiniteSet(Routes!Nodes \ reachable)
           /\ Routes!Down = Cardinality(Routes!Nodes \ reachable)
           /\ Dead \subseteq Routes!Nodes \ reachable
<1>1. IsFiniteSet(Routes!Nodes)
  BY FiniteNodes DEF RouteTypes, RouteRest
<1>2. IsFiniteSet(Routes!Nodes \ reachable)
  BY <1>1, FS_Subset
<1>3. Dead \subseteq Routes!Nodes \ reachable
  BY DEF Dead
<1>4. IsFiniteSet(Dead)
  BY <1>2, <1>3, FS_Subset
<1> QED
  BY <1>2, <1>3, <1>4, SameNumber DEF Routes!Down

(* More nodes that are dead, or fewer that are held, allow no fewer tries. *)
LEMMA RetryGrows ==
    ASSUME NEW r, NEW q, NEW D, NEW E, Retrying(r, D), IsFiniteSet(E),
           D \ HeldOf(r) \subseteq E \ HeldOf(q),
           r.good => r.pc \in Trying /\ q.pc \in Trying /\ q.try = r.try /\ r.try \in Nat,
           q.good = r.good
    PROVE  Retrying(q, E)
<1>1. IsFiniteSet(E \ HeldOf(q))
  BY FS_Subset
<1>2. Cardinality(D \ HeldOf(r)) <= Cardinality(E \ HeldOf(q))
  BY <1>1, FS_Subset
<1>3. Cardinality(E \ HeldOf(q)) \in Nat /\ Cardinality(D \ HeldOf(r)) \in Nat
  BY <1>1, FS_CardinalityType, FS_Subset
<1> QED
  BY <1>2, <1>3 DEF Retrying, Trying

LEMMA RetryStays ==
    ASSUME NEW r, NEW D, NEW E, Retrying(r, D), D \subseteq E, IsFiniteSet(E),
           r.pc \in Trying => r.try \in Nat
    PROVE  Retrying(r, E)
<1>1. CASE r.good /\ r.pc \in Trying
  BY <1>1, RetryGrows
<1>2. CASE ~(r.good /\ r.pc \in Trying)
  BY <1>2 DEF Retrying
<1> QED
  BY <1>1, <1>2

(* Success is noted of nodes that can be reached.                          *)
LEMMA ResetIsUp ==
    ASSUME RouteInv, NEW d \in Dialers, Routes!Step(d)
    PROVE  \/ UNCHANGED <<fails, expired>>
           \/ \E M : Routes!Mark(M)
           \/ \E M : Routes!Reset(M) /\ M \subseteq reachable \cup Routes!Chains
<1>1. PICK r, l : r = dial[d] /\ l = dial[d].route[1]
  OBVIOUS
<1>2. r.route \in Seq(Routes!Legs)
  BY <1>1 DEF RouteInv, RouteTypes, DialOK
<1>3. r.route # <<>> => l \in Routes!Legs
  BY <1>1, <1>2
<1>4. r.route # <<>> => Routes!Noted(d) \subseteq {l.node} \cup Routes!Chains
  BY <1>1, <1>3, LegsAre DEF Routes!Noted, Routes!Head1
<1>5. CASE Routes!Transport(d)
  <2>1. SUFFICES ASSUME Routes!Reset(Routes!Noted(d)), r.route # <<>>, l.node \in Routes!Mux,
                        session[l.node] # <<>>
                 PROVE  l.node \in reachable
    BY <1>1, <1>4, <1>5 DEF Routes!Transport, Routes!Head1
  <2>2. PICK s : s = session[l.node]
    OBVIOUS
  <2>3. s \in Seq(Routes!Legs) /\ PathTo(s, l.node) /\ Routes!NodesOf(s) \subseteq reachable
    BY <2>1, <2>2 DEF RouteInv, RouteTypes, RouteRest, LineInv, UpInv
  <2>4. s # <<>>
    BY <2>1, <2>2
  <2>5. Len(s) \in 1..Len(s)
    BY <2>3, <2>4
  <2>6. s[Len(s)].node = l.node
    BY <2>3 DEF PathTo
  <2>7. s[Len(s)].node \in Routes!NodesOf(s)
    BY <2>3, <2>5 DEF Routes!NodesOf
  <2> QED
    BY <2>3, <2>6, <2>7
<1>6. CASE Routes!Reached(d)
  <2>1. r.route # <<>> /\ l.node \in reachable /\ Routes!Reset(Routes!Noted(d))
    BY <1>1, <1>6 DEF Routes!Reached, Routes!Head1
  <2> QED
    BY <1>4, <2>1
<1>7. CASE Routes!Unreached(d)
  BY <1>7 DEF Routes!Unreached, Routes!GiveUp
<1> QED
  BY <1>5, <1>6, <1>7 DEF Routes!Step, Routes!PickChain, Routes!PickNode, Routes!RouteDone,
     Routes!Connected, Routes!Broken

LEMMA DeadStay ==
    ASSUME RouteInv, NEW d \in Dialers, Routes!Step(d)
    PROVE  /\ Dead \subseteq Dead' /\ IsFiniteSet(Dead') /\ Dead' \subseteq Routes!Nodes \ reachable
           /\ Routes!Nodes' = Routes!Nodes /\ UNCHANGED reachable
<1>1. UNCHANGED <<net, reachable>>
  BY StepRest DEF RouteInv
<1>2. Routes!Nodes' = Routes!Nodes
  BY <1>1 DEF Routes!Nodes
<1>3. ASSUME NEW x \in Dead
      PROVE  /\ x \in Routes!Nodes /\ x \notin reachable /\ x \in Routes!Marked
             /\ fails[x] \in Nat /\ ~(fails[x] < MaxFails) /\ x \notin expired
             /\ x \notin Routes!Chains
  BY NetFacts, RouteNumbers DEF Dead, Routes!Alive, RouteInv, RouteTypes, RouteRest, Routes!Marked
<1>4. ASSUME NEW x \in Dead PROVE ~(fails'[x] < MaxFails) /\ x \notin expired'
  <2>1. CASE UNCHANGED <<fails, expired>>
    BY <1>3, <2>1
  <2>2. CASE \E M : Routes!Reset(M) /\ M \subseteq reachable \cup Routes!Chains
    <3>1. PICK M : Routes!Reset(M) /\ M \subseteq reachable \cup Routes!Chains
      BY <2>2
    <3>2. x \notin M
      BY <1>3, <3>1
    <3> QED
      BY <1>3, <3>1, <3>2 DEF Routes!Reset
  <2>3. CASE \E M : Routes!Mark(M)
    <3>1. PICK M : Routes!Mark(M)
      BY <2>3
    <3> QED
      BY <1>3, <3>1 DEF Routes!Mark
  <2> QED
    BY <2>1, <2>2, <2>3, ResetIsUp
<1>5. Dead \subseteq Dead'
  BY <1>1, <1>2, <1>3, <1>4 DEF Dead, Routes!Alive
<1>6. Dead' \subseteq Routes!Nodes \ reachable
  BY <1>1, <1>2 DEF Dead
<1>7. IsFiniteSet(Dead')
  BY <1>6, FewAreDead, FS_Subset DEF RouteInv
<1> QED
  BY <1>1, <1>2, <1>5, <1>6, <1>7

LEMMA RetryKept ==
    ASSUME RouteTypes, RetryInv, NEW d \in Dialers, OnlyDialOf(d),
           NEW E, E = Dead', Dead \subseteq E, IsFiniteSet(E), Retrying(dial'[d], E)
    PROVE  RetryInv'
<1>1. ASSUME NEW x \in Dialers PROVE Retrying(dial'[x], E)
  <2>1. CASE x = d
    BY <2>1
  <2>2. CASE x # d
    <3>1. PICK r : r = dial[x]
      OBVIOUS
    <3>2. (r.pc \in Trying => r.try \in Nat) /\ Retrying(r, Dead)
      BY <3>1 DEF RouteTypes, DialOK, RetryInv
    <3>3. Retrying(r, E)
      BY <3>2, RetryStays
    <3> QED
      BY <2>2, <3>1, <3>3 DEF OnlyDialOf
  <2> QED
    BY <2>1, <2>2
<1> QED
  BY <1>1 DEF RetryInv

(* Where a dial with a good chance fails there is nothing around it: its   *)
(* chain has no nested routes.                                             *)
LEMMA FailsOnce ==
    ASSUME RouteInv, RetryInv, NEW d \in Dialers, Routes!Unreached(d), dial[d].good,
           NEW r, r = dial[d], NEW x, x = dial[d].route[1].node
    PROVE  /\ r.pc = "connect" /\ r.route # <<>>
           /\ x \in Routes!Nodes \ reachable /\ x \in HeldOf(r)
           /\ Routes!Outer(r.route) = <<>>
<1>1. PICK l, c : l = r.route[1] /\ c = Routes!Groups[r.service][1]
  OBVIOUS
<1>2. Routes!GoodChance(r.service, r.target)
  BY DEF RouteInv, ChanceInv, ChanceOf
<1>3. PathsUp /\ (Routes!Nested(c) => NoUnwind /\ Routes!Down = 0)
  BY <1>1, <1>2 DEF Routes!GoodChance, PathsUp, NoUnwind
<1>4. r.pc # "unwind" /\ r.route \in Seq(Routes!Legs) /\ LineOf(r)
  BY DEF RetryInv, Retrying, RouteInv, RouteTypes, DialOK, LineInv
<1>5. r.pc = "connect" /\ r.route # <<>> /\ x \notin reachable /\ l \in Routes!Legs
  BY <1>1, <1>3, <1>4, FailsAt
<1>6. x \in Routes!Nodes
  BY <1>1, <1>5, LegsAre
<1>7. ~Routes!Nested(c)
  BY <1>3, NoneFails
<1>8. r.chain = c /\ c \in Routes!Chains
  BY <1>1, <1>4, <1>5 DEF LineOf, Going
<1>9. /\ Seg(r.path, c, 1) /\ Seg(r.route, c, Len(r.path) + 1)
      /\ \A j \in 1..Len(r.route) : r.route[j].chain = c
  BY <1>4, <1>5, <1>7, <1>8 DEF LineOf, OnChain, Straight, Going
<1>10. Routes!Outer(r.route) = <<>>
  <2>1. SUFFICES ASSUME NEW k \in 2..Len(r.route), r.route[k].node \in Routes!Mux PROVE FALSE
    BY <1>4, OuterIs
  <2>2. PICK n \in Nat : n = Len(r.path)
    BY <1>9 DEF Seg
  <2> DEFINE y == r.route[k].node
  <2>3. k \in 1..Len(r.route) /\ (n + 1) + k - 1 > 1
    BY <2>1, <2>2
  <2>4. On(c, (n + 1) + k - 1, r.route[k])
    BY <1>9, <2>2, <2>3 DEF Seg
  <2>5. (n + 1) + k - 1 \in DOMAIN Routes!Hops[c] /\ Located(c, (n + 1) + k - 1, y)
    BY <1>9, <2>2, <2>3, <2>4 DEF On
  <2> QED
    BY <1>7, <2>1, <2>2, <2>3, <2>5, NestedAt
<1>11. x \in HeldOf(r)
  <2>1. 1 \in DOMAIN r.route
    BY <1>4, <1>5
  <2> QED
    BY <1>1, <1>5, <2>1 DEF HeldOf, Routes!NodesOf
<1> QED
  BY <1>5, <1>6, <1>10, <1>11

(* A try that fails has found a node to be down that was not in Dead, or   *)
(* was there already while the dial held it.                               *)
LEMMA RetryUnreached ==
    ASSUME RouteInv, RetryInv, NEW d \in Dialers, Routes!Unreached(d)
    PROVE  Retrying(dial'[d], Dead')
<1>1. PICK q, r, x, D, E : /\ q = dial'[d] /\ r = dial[d] /\ x = dial[d].route[1].node
                           /\ D = Dead /\ E = Dead'
  OBVIOUS
<1>2. SUFFICES ASSUME q.good PROVE Retrying(q, E)
  BY <1>1 DEF Retrying
<1>3. r.good
  BY <1>1, <1>2, UnreachedIs DEF RouteInv, Kept
<1>4. /\ r.pc = "connect" /\ x \in Routes!Nodes \ reachable /\ x \in HeldOf(r)
      /\ Routes!Outer(r.route) = <<>>
  BY <1>1, <1>3, FailsOnce
<1>5. /\ q.try = r.try + 1
      /\ q.pc = (IF r.try < Retries THEN "chain" ELSE "failed")
  BY <1>1, <1>4, UnreachedIs DEF RouteInv
<1>6. MaxFails = 1 /\ Routes!Down <= Retries
  BY <1>1, <1>3 DEF RouteInv, ChanceInv, ChanceOf, Routes!GoodChance
<1>7. D \subseteq E /\ IsFiniteSet(E) /\ E \subseteq Routes!Nodes \ reachable
      /\ Routes!Nodes' = Routes!Nodes /\ UNCHANGED reachable
  BY <1>1, DeadStay DEF Routes!Step
<1>8. x \in E
  <2>1. PICK M : x \in M /\ Routes!Mark(M)
    BY <1>1 DEF Routes!Unreached, Routes!GiveUp, Routes!Head1
  <2>2. x \in Routes!Marked /\ fails[x] \in 0..MaxFails
    BY <1>4 DEF RouteInv, RouteTypes, RouteRest, Routes!Marked
  <2>3. fails'[x] = 1 /\ x \notin expired'
    BY <1>6, <2>1, <2>2 DEF Routes!Mark
  <2>4. ~Routes!Alive(x)'
    BY <1>6, <2>3 DEF Routes!Alive
  <2> QED
    BY <1>1, <1>4, <1>7, <2>4 DEF Dead
<1>9. r.try \in Nat /\ r.try <= Cardinality(D \ HeldOf(r))
  BY <1>1, <1>3, <1>4 DEF RouteInv, RouteTypes, DialOK, RetryInv, Retrying, Trying
<1>10. IsFiniteSet(D) /\ IsFiniteSet(Routes!Nodes \ reachable)
       /\ Routes!Down = Cardinality(Routes!Nodes \ reachable)
  BY <1>1, FewAreDead DEF RouteInv
<1>11. r.try + 1 <= Cardinality(E) /\ Cardinality(E) \in Nat
  <2> DEFINE Others == D \ HeldOf(r)
  <2>1. IsFiniteSet(Others) /\ x \notin Others
    BY <1>4, <1>10, FS_Subset
  <2>2. Cardinality(Others \cup {x}) = Cardinality(Others) + 1 /\ Cardinality(Others) \in Nat
    BY <2>1, FS_AddElement, FS_CardinalityType
  <2>3. Others \cup {x} \subseteq E
    BY <1>7, <1>8
  <2>4. Cardinality(Others \cup {x}) <= Cardinality(E) /\ Cardinality(E) \in Nat
    BY <1>7, <2>3, FS_Subset, FS_CardinalityType
  <2> QED
    BY <1>9, <2>2, <2>4
<1>12. Cardinality(E) <= Routes!Down /\ Routes!Down \in Nat
  BY <1>7, <1>10, FS_Subset, FS_CardinalityType
<1>13. r.try < Retries
  BY <1>6, <1>9, <1>11, <1>12, RouteNumbers
<1>14. q.pc = "chain" /\ HeldOf(q) = {}
  BY <1>5, <1>13 DEF HeldOf
<1>15. q.try <= Cardinality(E \ HeldOf(q))
  <2>1. E \ {} = E
    OBVIOUS
  <2> QED
    BY <1>5, <1>11, <1>14, <2>1
<1> QED
  BY <1>14, <1>15 DEF Retrying

(* The legs of the tail, and of one leg more.                              *)
LEMMA HeldByTail ==
    ASSUME NEW s \in Seq(Routes!Legs), s # <<>>
    PROVE  Routes!NodesOf(Tail(s)) \subseteq Routes!NodesOf(s)
<1>1. PICK u, n : u = Tail(s) /\ n = Len(s)
  OBVIOUS
<1>2. n \in Nat /\ n > 0 /\ u \in Seq(Routes!Legs) /\ Len(u) = n - 1
      /\ \A j \in 1..n - 1 : u[j] = s[j + 1]
  BY <1>1
<1>3. ASSUME NEW j \in 1..n - 1 PROVE u[j].node \in Routes!NodesOf(s)
  <2>1. j + 1 \in 1..n
    BY <1>2
  <2> QED
    BY <1>1, <1>2, <2>1 DEF Routes!NodesOf
<1> QED
  BY <1>1, <1>2, <1>3 DEF Routes!NodesOf

LEMMA HeldByMore ==
    ASSUME NEW s \in Seq(Routes!Legs), NEW x \in Routes!Nodes, NEW c \in Routes!Chains
    PROVE  /\ Routes!NodesOf(Append(s, Leg(x, c))) \subseteq Routes!NodesOf(s) \cup {x}
           /\ Routes!NodesOf(<<Leg(x, c)>>) \subseteq {x}
<1>1. Leg(x, c) \in Routes!Legs /\ Leg(x, c).node = x
  BY LegIs
<1>2. Routes!NodesOf(Append(s, Leg(x, c))) \subseteq Routes!NodesOf(s) \cup {x}
  BY <1>1, NodesOfMore
<1>3. PICK u : u = <<Leg(x, c)>>
  OBVIOUS
<1>4. u \in Seq(Routes!Legs) /\ Len(u) = 1 /\ u[1] = Leg(x, c)
  BY <1>1, <1>3
<1>5. \A j \in 1..Len(u) : j = 1
  BY <1>4
<1>6. Routes!NodesOf(u) \subseteq {x}
  BY <1>1, <1>4, <1>5 DEF Routes!NodesOf
<1> QED
  BY <1>2, <1>3, <1>6

(* A dial with a good chance holds no dead node when it takes another one. *)
LEMMA RetryPickNode ==
    ASSUME RouteInv, RetryInv, NEW d \in Dialers, Routes!PickNode(d)
    PROVE  Retrying(dial'[d], Dead')
<1>1. PICK q, r, D, E : q = dial'[d] /\ r = dial[d] /\ D = Dead /\ E = Dead'
  OBVIOUS
<1>2. SUFFICES ASSUME q.good PROVE Retrying(q, E)
  BY <1>1 DEF Retrying
<1>3. PICK c, i : c = r.chain /\ i = Len(r.path) + 1
  OBVIOUS
<1>4. PICK took : took = Routes!HopSelect(Routes!Hops[c][i],
                             Routes!Eligible(Routes!Hops[c][i], r.target), counter[<<c, i>>])
  OBVIOUS
<1>5. /\ q.good = r.good /\ q.try = r.try /\ r.pc = "route"
      /\ c \in Routes!Chains /\ i \in DOMAIN Routes!Hops[c]
      /\ \/ \E x \in took :
               /\ x \in Routes!Nodes /\ q.pc = "route"
               /\ q.route = IF x \in Routes!Mux THEN <<Leg(x, c)>> ELSE Append(r.route, Leg(x, c))
         \/ q.pc = "dial" /\ q.route = r.route
  BY <1>1, <1>3, <1>4, PickNodeIs DEF RouteInv, Kept, Aim
<1>6. /\ r.route \in Seq(Routes!Legs) /\ r.try \in Nat /\ Retrying(r, D)
      /\ IsFiniteSet(E) /\ D \subseteq E
  BY <1>1, DeadStay DEF RouteInv, RouteTypes, DialOK, RetryInv, Routes!Step
<1>7. \A x \in took : Routes!Alive(x)
  <2>1. r.chain = Routes!Groups[r.service][1]
    BY <1>1, <1>2, <1>5 DEF RouteInv, LineInv, LineOf, Going
  <2> QED
    BY <1>1, <1>2, <1>3, <1>4, <1>5, <2>1, GoodIsTaken DEF RouteInv
<1>8. D \ HeldOf(r) \subseteq D \ HeldOf(q)
  <2>1. HeldOf(r) = Routes!NodesOf(r.route) /\ HeldOf(q) = Routes!NodesOf(q.route)
    BY <1>5 DEF HeldOf
  <2>2. CASE q.route = r.route
    BY <2>1, <2>2
  <2>3. CASE \E x \in took : /\ x \in Routes!Nodes
                             /\ q.route = IF x \in Routes!Mux THEN <<Leg(x, c)>>
                                          ELSE Append(r.route, Leg(x, c))
    <3>1. PICK x \in took : /\ x \in Routes!Nodes
                            /\ q.route = IF x \in Routes!Mux THEN <<Leg(x, c)>>
                                         ELSE Append(r.route, Leg(x, c))
      BY <2>3
    <3>2. HeldOf(q) \subseteq HeldOf(r) \cup {x}
      BY <1>5, <1>6, <2>1, <3>1, HeldByMore
    <3>3. x \notin D
      BY <1>1, <1>7, <3>1 DEF Dead
    <3> QED
      BY <3>2, <3>3
  <2> QED
    BY <1>5, <2>2, <2>3
<1>9. D \ HeldOf(r) \subseteq E \ HeldOf(q)
  BY <1>6, <1>8
<1>10. r.pc \in Trying /\ q.pc \in Trying
  BY <1>5 DEF Trying
<1> QED
  BY <1>5, <1>6, <1>9, <1>10, RetryGrows

(* A transport adds a route only where one is nested, and then nothing is  *)
(* down.                                                                   *)
LEMMA RetryTransport ==
    ASSUME RouteInv, RetryInv, NEW d \in Dialers, Routes!Transport(d)
    PROVE  Retrying(dial'[d], Dead')
<1>1. PICK q, r, l, D, E : /\ q = dial'[d] /\ r = dial[d] /\ l = dial[d].route[1]
                           /\ D = Dead /\ E = Dead'
  OBVIOUS
<1>2. SUFFICES ASSUME q.good PROVE Retrying(q, E)
  BY <1>1 DEF Retrying
<1>3. /\ q.good = r.good /\ r.pc = "dial" /\ q.try = r.try
      /\ q.pc \in {"dial", "connect"}
      /\ \/ q.route = r.route
         \/ r.route # <<>> /\ q.route = Tail(r.route)
         \/ /\ r.route # <<>> /\ l.node \in Routes!Mux
            /\ q.route = Cat(via[l.node], r.route)
  BY <1>1, TransportIs DEF RouteInv, Kept, Aim, Cat
<1>4. /\ r.route \in Seq(Routes!Legs) /\ r.try \in Nat /\ Retrying(r, D) /\ LineOf(r)
      /\ IsFiniteSet(E) /\ D \subseteq E
  BY <1>1, DeadStay DEF RouteInv, RouteTypes, DialOK, RetryInv, LineInv, Routes!Step
<1>5. r.pc \in Trying /\ q.pc \in Trying
  BY <1>3 DEF Trying
<1>6. HeldOf(r) = Routes!NodesOf(r.route) /\ HeldOf(q) = Routes!NodesOf(q.route)
  BY <1>3 DEF HeldOf
<1>7. CASE HeldOf(q) \subseteq HeldOf(r)
  <2>1. D \ HeldOf(r) \subseteq E \ HeldOf(q)
    BY <1>4, <1>7
  <2> QED
    BY <1>3, <1>4, <1>5, <2>1, RetryGrows
<1>8. CASE q.route = r.route \/ (r.route # <<>> /\ q.route = Tail(r.route))
  BY <1>4, <1>6, <1>7, <1>8, HeldByTail
<1>9. CASE /\ r.route # <<>> /\ l.node \in Routes!Mux
           /\ q.route = Cat(via[l.node], r.route)
  <2>1. PICK w, x : w = via[l.node] /\ x = l.node
    OBVIOUS
  <2>2. w \in Seq(Routes!Legs) /\ (w # <<>> => WayTo(w, x))
    BY <1>9, <2>1 DEF RouteInv, RouteTypes, RouteRest, LineInv
  <2>3. CASE w = <<>>
    <3>1. q.route = r.route
      BY <1>4, <1>9, <2>1, <2>3 DEF Cat
    <3> QED
      BY <1>8, <3>1
  <2>4. CASE w # <<>>
    <3>1. PICK c : c = r.chain
      OBVIOUS
    <3>2. c = Routes!Groups[r.service][1] /\ c \in Routes!Chains
      BY <1>2, <1>3, <1>4, <1>9, <3>1 DEF LineOf, Going
    <3>3. PICK a \in Nat : Seg(r.route, c, a)
      BY <1>3, <1>4, <3>1, <3>2 DEF LineOf, OnChain, Going
    <3>4. On(c, a, l) /\ l \in Routes!Legs
      BY <1>1, <1>9, <3>3, SegTail
    <3>5. l.chain \in Routes!Chains /\ a \in DOMAIN Routes!Hops[l.chain] /\ Located(l.chain, a, x)
      BY <2>1, <3>4, LegsAre DEF On
    <3>6. a > 1
      <4>1. PICK b \in 1..a : b + Len(w) = a
        BY <2>2, <2>4, <3>5 DEF WayTo
      <4>2. Len(w) \in Nat \ {0}
        BY <2>2, <2>4
      <4> QED
        BY <4>1, <4>2
    <3>7. Routes!Nested(c)
      <4>1. SUFFICES ASSUME ~Routes!Nested(c) PROVE FALSE
        OBVIOUS
      <4>2. Straight(r)
        BY <1>3, <1>4, <3>1, <3>2 DEF LineOf, Going
      <4>3. l.chain = c
        <5>1. 1 \in 1..Len(r.route)
          BY <1>4, <1>9
        <5> QED
          BY <1>1, <3>1, <4>1, <4>2, <5>1 DEF Straight
      <4> QED
        BY <1>9, <2>1, <3>5, <3>6, <4>1, <4>3, NestedAt
    <3>8. Routes!Down = 0
      BY <1>1, <1>2, <1>3, <3>2, <3>7 DEF RouteInv, ChanceInv, ChanceOf, Routes!GoodChance
    <3>9. D = {}
      BY <1>1, <3>8, NoneIsDown DEF RouteInv, Dead
    <3>10. D \ HeldOf(r) \subseteq E \ HeldOf(q)
      BY <3>9
    <3> QED
      BY <1>3, <1>4, <1>5, <3>10, RetryGrows
  <2> QED
    BY <2>3, <2>4
<1> QED
  BY <1>3, <1>8, <1>9

(* The other steps of a dial.                                              *)
LEMMA RetryStep ==
    ASSUME RouteInv, RetryInv, NEW d \in Dialers, Routes!Step(d)
    PROVE  Retrying(dial'[d], Dead')
<1>1. PICK q, r, D, E : q = dial'[d] /\ r = dial[d] /\ D = Dead /\ E = Dead'
  OBVIOUS
<1>2. /\ r.route \in Seq(Routes!Legs) /\ Retrying(r, D) /\ (r.pc \in Trying => r.try \in Nat)
      /\ IsFiniteSet(E) /\ D \subseteq E
  BY <1>1, DeadStay DEF RouteInv, RouteTypes, DialOK, RetryInv
<1>3. ASSUME q.good = r.good, r.pc \in Trying, q.pc \in Trying, q.try = r.try,
             HeldOf(q) \subseteq HeldOf(r)
      PROVE  Retrying(q, E)
  <2>1. D \ HeldOf(r) \subseteq E \ HeldOf(q)
    BY <1>2, <1>3
  <2> QED
    BY <1>2, <1>3, <2>1, RetryGrows
<1>4. CASE Routes!PickChain(d)
  <2>1. /\ q.good = r.good /\ r.pc = "chain" /\ q.try = r.try
        /\ q.route = <<>> /\ q.pc \in {"route", "dial"}
    BY <1>1, <1>4, PickChainIs DEF RouteInv, Kept
  <2>2. HeldOf(q) = {}
    BY <2>1 DEF HeldOf, Routes!NodesOf
  <2> QED
    BY <1>1, <1>3, <2>1, <2>2 DEF Trying
<1>5. CASE Routes!RouteDone(d)
  <2>1. /\ q.good = r.good /\ r.pc = "route" /\ q.try = r.try
        /\ q.pc = "dial" /\ q.route = r.route
    BY <1>1, <1>5, RouteDoneIs DEF RouteInv, Kept, Aim
  <2>2. HeldOf(q) = HeldOf(r)
    BY <2>1 DEF HeldOf
  <2> QED
    BY <1>1, <1>3, <2>1, <2>2 DEF Trying
<1>6. CASE Routes!Reached(d)
  <2>1. /\ q.good = r.good /\ r.pc = "connect" /\ q.try = r.try /\ r.route # <<>>
        /\ q.pc = "connect" /\ q.route = Tail(r.route)
    BY <1>1, <1>6, ReachedIs DEF RouteInv, Kept, Aim
  <2>2. HeldOf(q) \subseteq HeldOf(r)
    BY <1>2, <2>1, HeldByTail DEF HeldOf
  <2> QED
    BY <1>1, <1>3, <2>1, <2>2 DEF Trying
<1>7. CASE Routes!Connected(d)
  <2>1. q.pc = "connected"
    BY <1>1, <1>7, ConnectedIs DEF RouteInv
  <2> QED
    BY <1>1, <2>1 DEF Retrying, Trying
<1>8. CASE Routes!Broken(d)
  <2>1. /\ q.good = r.good /\ r.pc = "connect" /\ ~(Routes!NodesOf(r.path) \subseteq reachable)
    BY <1>1, <1>8, AgainIs DEF RouteInv, Kept, Routes!Broken
  <2>2. ~r.good
    BY <1>1, <2>1 DEF RouteInv, ChanceInv, ChanceOf, Routes!GoodChance
  <2> QED
    BY <1>1, <2>1, <2>2 DEF Retrying
<1> QED
  BY <1>4, <1>5, <1>6, <1>7, <1>8, RetryPickNode, RetryTransport, RetryUnreached DEF Routes!Step

LEMMA RetryInit == Routes!Init => RetryInv
BY DEF Routes!Init, Routes!Idle, RetryInv, Retrying

LEMMA RetryNext ==
    ASSUME RouteInv, RetryInv, [Routes!Next]_routeVars
    PROVE  RetryInv'
<1>1. CASE UNCHANGED routeVars
  BY <1>1 DEF routeVars, RetryInv, Dead, Routes!Alive, Routes!Nodes
<1>2. ASSUME NEW d \in Dialers, NEW s \in Routes!Entries, NEW t \in Routes!Targets,
             Routes!Start(d, s, t)
      PROVE  RetryInv'
  <2>1. PICK q, E : q = dial'[d] /\ E = Dead'
    OBVIOUS
  <2>2. OnlyDialOf(d) /\ q.pc = "chain" /\ q.try = 0
    BY <1>2, <2>1, StartIs DEF RouteInv
  <2>3. UNCHANGED <<net, reachable, fails, expired>>
    BY <1>2 DEF Routes!Start
  <2>4. E = Dead /\ IsFiniteSet(E)
    BY <2>1, <2>3, FewAreDead DEF Dead, Routes!Alive, Routes!Nodes, RouteInv
  <2>5. Retrying(q, E)
    <3>1. IsFiniteSet(E \ HeldOf(q))
      BY <2>4, FS_Subset
    <3>2. Cardinality(E \ HeldOf(q)) \in Nat
      BY <3>1, FS_CardinalityType
    <3> QED
      BY <2>2, <3>2 DEF Retrying, Trying
  <2> QED
    BY <2>1, <2>2, <2>4, <2>5, RetryKept DEF RouteInv
<1>3. ASSUME NEW d \in Dialers, Routes!Step(d) PROVE RetryInv'
  <2>1. OnlyDialOf(d)
    BY <1>3, StepIsOf DEF RouteInv
  <2>2. PICK E : E = Dead'
    OBVIOUS
  <2>3. Dead \subseteq E /\ IsFiniteSet(E) /\ Retrying(dial'[d], E)
    BY <1>3, <2>2, DeadStay, RetryStep
  <2> QED
    BY <2>1, <2>2, <2>3, RetryKept DEF RouteInv
<1>4. CASE (\E x \in Routes!Nodes : Routes!Flip(x)) \/ (\E m \in Routes!Marked : Routes!Expire(m))
  <2>1. dial' = Routes!Spoiled
    BY <1>4 DEF Routes!Flip, Routes!Expire
  <2>2. \A d \in Dialers : ~dial'[d].good
    BY <2>1, SpoiledIs DEF RouteInv
  <2> QED
    BY <2>2 DEF RetryInv, Retrying
<1> QED
  BY <1>1, <1>2, <1>3, <1>4 DEF Routes!Next

LEMMA RetryInvIsRight == RetryInv => Routes!RetriesFindTheWay
BY DEF RetryInv, Retrying, Routes!RetriesFindTheWay

LEMMA RouteInvNext ==
    RouteInv /\ RetryInv /\ [Routes!Next]_routeVars => RouteInv' /\ RetryInv'
BY RouteTypesNext, ChanceNext, LineNext, UpNext, RetryNext DEF RouteInv

LEMMA RouteInvInit == Routes!Init => RouteInv /\ RetryInv
BY RouteInit, ChanceInit, LineInit, RetryInit DEF RouteInv

-----------------------------------------------------------------------------
(* All parts side by side: while one runs, the others keep what they have. *)
PartsInv ==
    /\ FlowInv
    /\ TableInv
    /\ RouteInv /\ RetryInv
    /\ HandlerInv
    /\ RelayInv
    /\ Tunnels!TypeOK

LEMMA PartsInit == MCInit => PartsInv
<1> SUFFICES ASSUME MCInit PROVE PartsInv
  OBVIOUS
<1>1. Init /\ Tables!Init /\ Routes!Init /\ Handling!Init /\ Relaying!Init /\ Tunnels!Init
  BY DEF MCInit
<1> QED
  BY <1>1, InitFlowInv, TableInit, RouteInvInit, HandlerInit, RelayInit, TunnelInit DEF PartsInv

(* A step of the whole is a step of each part, or leaves it alone.         *)
LEMMA PartsStep ==
    ASSUME [MCNext]_allVars
    PROVE  /\ [Next]_vars /\ [Tables!Next]_tableVars
           /\ [Routes!Next]_routeVars /\ [Handling!Next]_handlerVars
           /\ [Relaying!Next]_relayVars /\ [Tunnels!Next]_tunnelVars
           /\ part' = part
<1> USE DEF allVars
<1>1. CASE Flow(Next)
  BY <1>1 DEF Flow
<1>2. CASE Table(Tables!Next)
  BY <1>2 DEF Table
<1>3. CASE Route(Routes!Next)
  BY <1>3 DEF Route
<1>4. CASE Handle(Handling!Next)
  BY <1>4 DEF Handle
<1>5. CASE Pass(Relaying!Next)
  BY <1>5 DEF Pass
<1>6. CASE Tunnel(Tunnels!Next)
  BY <1>6 DEF Tunnel
<1> QED
  BY <1>1, <1>2, <1>3, <1>4, <1>5, <1>6 DEF MCNext

LEMMA PartsNext == PartsInv /\ [MCNext]_allVars => PartsInv'
<1> SUFFICES ASSUME PartsInv, [MCNext]_allVars PROVE PartsInv'
  OBVIOUS
<1>1. FlowInv' /\ TableInv'
  BY PartsStep, NextFlowInv, TableNext DEF PartsInv
<1>2. RouteInv' /\ RetryInv'
  BY PartsStep, RouteInvNext DEF PartsInv
<1>3. HandlerInv' /\ RelayInv' /\ Tunnels!TypeOK'
  BY PartsStep, HandlerNext, RelayNext, TunnelNext DEF PartsInv
<1> QED
  BY <1>1, <1>2, <1>3 DEF PartsInv

LEMMA PartsAlways == MCSpec => []PartsInv
BY PartsInit, PartsNext, PTL DEF MCSpec

(* Which part runs is settled at the start.                                *)
PartInv == part \in {"flow", "tables", "routes", "handler", "relay", "tunnel"}
LEMMA PartStays == MCSpec => []PartInv
<1>1. MCInit => PartInv
  BY DEF MCInit, PartInv
<1>2. PartInv /\ [MCNext]_allVars => PartInv'
  BY PartsStep DEF PartInv
<1> QED
  BY <1>1, <1>2, PTL DEF MCSpec

(* A dial that has a good chance does not fail before its retries find the *)
(* way, and what it reaches it reaches through every hop of its chain, for *)
(* any chains, groups and markers, and any number of dials side by side.   *)
THEOREM DialsFindTheWay == Routes!Spec => [](Routes!RetriesFindTheWay /\ Routes!StaysOnChain)
<1>1. [Routes!Next]_(Routes!vars) => [Routes!Next]_routeVars
  BY DEF Routes!vars, routeVars
<1>2. RouteInv /\ RetryInv => Routes!RetriesFindTheWay /\ Routes!StaysOnChain
  BY RetryInvIsRight, LineInvIsRight
<1> QED
  BY <1>1, <1>2, RouteInvInit, RouteInvNext, PTL DEF Routes!Spec

(* The same for all of them side by side, as the run checks it: tables     *)
(* change as a whole,                                                      *)
THEOREM TablesChangeAsAWhole == MCSpec => []ChangesAreWhole
<1>1. PartsInv => ChangesAreWhole
  BY TableInvIsRight DEF PartsInv, ChangesAreWhole
<1> QED
  BY <1>1, PartsAlways, PTL

(* dials get through, and through every hop,                               *)
THEOREM RoutesLeadOn == MCSpec => []RoutesAreRight
<1>1. PartsInv => RoutesAreRight
  BY RetryInvIsRight, LineInvIsRight DEF PartsInv, RoutesAreRight
<1> QED
  BY <1>1, PartsAlways, PTL

(* and talks and requests are carried on as they were said.                *)
THEOREM TalksAreCarriedOn == MCSpec => []TalkIsKept
<1>1. PartsInv => TalkIsKept
  BY HandlerInvIsRight, RelayInvIsRight DEF PartsInv, TalkIsKept
<1> QED
  BY <1>1, PartsAlways, PTL

(* Every part keeps its types.                                             *)
THEOREM WaysKeepTypes == MCSpec => []TypesOK
<1>1. PartsInv /\ PartInv => TypesOK
  <2> SUFFICES ASSUME PartsInv, PartInv PROVE TypesOK
    OBVIOUS
  <2>1. TypeOK /\ Tables!TypeOK /\ Routes!TypeOK
    BY TableInvIsRight, RouteTypesAreRight DEF PartsInv, FlowInv, RouteInv
  <2>2. Handling!TypeOK /\ Relaying!TypeOK /\ Tunnels!TypeOK
    BY HandlerInvIsRight, RelayInvIsRight DEF PartsInv
  <2> QED
    BY <2>1, <2>2 DEF TypesOK, PartInv
<1> QED
  BY <1>1, PartsAlways, PartStays, PTL
=============================================================================
