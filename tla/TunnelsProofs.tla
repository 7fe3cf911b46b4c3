--------------------------- MODULE TunnelsProofs ---------------------------
(***************************************************************************)
(* A session that is up can be given to visitors, and a visitor who can    *)
(* hope for one gets through, for any number of nodes, connectors and      *)
(* visitors.  The master's session of a settled node is the connection the *)
(* node reports on, and no command is executed twice, for any number of    *)
(* connections, receivers and commands.                                    *)
(*                                                                         *)
(* LiveIsReachable is inductive together with the types it needs and the   *)
(* fact that no session is up before NewConnector has made it: otherwise   *)
(* PoolAdd could be followed by a session that becomes live later.         *)
(*                                                                         *)
(* VisitorsGetThrough speaks of the end of a dial.  HopeInv says what is   *)
(* true of each of its steps as long as no session is lost: a connector at *)
(* the node the visitor came to stays there; otherwise the connector it    *)
(* can hope for stays announced, or the dial has been misled.  That rests  *)
(* on LiveIsReachable and on what DirectoryInv says of announcements.      *)
(*                                                                         *)
(* Of the link, MasterInv says that a connection that works, and that the  *)
(* handler of its establishment has put in nodeSessions, is still there    *)
(* unless `upset` tells of a handler that did not look: what send_msg and  *)
(* the handlers of the end of a session remove is otherwise a session      *)
(* whose connection does not work, which is what DropInv is for.           *)
(* CommandInv follows a command from the master to the node and back.      *)
(***************************************************************************)
EXTENDS MCTunnels, SequenceTheorems, TLAPS

Phases == {"new", "asked", "made", "added", "done", "late"}

TypeInv ==
    /\ home \in [Connectors -> Nodes]
    /\ phase \in [Connectors -> Phases]
    /\ up \subseteq Connectors
    /\ pool = [n \in Nodes |-> pool[n]]

MadeFirst == \A c \in up : phase[c] \notin {"new", "asked"}

PoolInv == TypeInv /\ MadeFirst /\ LiveIsReachable

(* What the directory announces has been added to a tunnel; a session that *)
(* is up is watched, and so not withdrawn; a tunnel has connectors of its  *)
(* node only.                                                              *)
DirectoryInv ==
    /\ \A c \in sd : phase[c] \in {"done", "late"}
    /\ \A c \in up : watch[c] = "accept"
    /\ \A n \in Nodes : \A c \in Members(n) : home[c] = n

(* A connector that fits is in the tunnel of n, or announced by another.   *)
Near(n, net) == Fitting(n, net) # {}
Told(n, net) == \E c \in sd \cap up : home[c] # n /\ kind[c].net = net

(* The dial of a visitor who can hope and lost nothing is on its way.      *)
OnItsWay(d) ==
    /\ d.pc # "failed"
    /\ d.pc \in {"try", "lookup", "dial"} => d.try = 0 /\ ~d.failed
    /\ d.pc = "try" => Near(d.node, d.net) \/ (~d.second /\ ~d.near /\ Told(d.node, d.net))
    /\ d.pc = "open" => d.conn \in up
    /\ d.pc = "lookup" => ~d.second /\ ~d.near /\ Told(d.node, d.net)
    /\ d.pc = "dial" => d.node \notin shut /\ ~d.near /\ Near(d.node, d.net)

HopeOf(v) ==
    /\ dial[v].pc = "idle" => ~dial[v].hope
    /\ ~losses[v] /\ dial[v].hope /\ (dial[v].near \/ ~dial[v].misled) => OnItsWay(dial[v])

HopeInv == \A v \in Visitors : HopeOf(v)

VisitInv == TypeOK /\ PoolInv /\ DirectoryInv /\ HopeInv

-----------------------------------------------------------------------------
(* Who is in a tunnel stays there, or is there then, in each kind of       *)
(* update of the pool.                                                     *)

LEMMA SetMembers ==
    ASSUME TypeInv, NEW n \in Nodes, NEW S \in SUBSET Connectors,
           pool' = [pool EXCEPT ![n] = S]
    PROVE  \A k \in Nodes : Members(k)' = IF k = n THEN S ELSE Members(k)
<1>1. NoTunnel # S
  BY TunnelAssumption DEF NoTunnel
<1> QED
  BY <1>1 DEF TypeInv, Members

LEMMA DropTunnel ==
    ASSUME TypeInv, NEW n \in Nodes, pool' = [pool EXCEPT ![n] = NoTunnel]
    PROVE  \A k \in Nodes : Members(k)' = IF k = n THEN {} ELSE Members(k)
BY DEF TypeInv, Members

LEMMA SameMembers ==
    ASSUME pool' = pool
    PROVE  \A k \in Nodes : Members(k)' = Members(k)
BY DEF Members

-----------------------------------------------------------------------------
LEMMA InitPoolInv == Init => PoolInv
BY DEF Init, PoolInv, TypeInv, Phases, MadeFirst, LiveIsReachable

(* The steps of a bind.                                                    *)
LEMMA BindKeeps ==
    ASSUME PoolInv, NEW c \in Connectors, Bind(c) \/ NewConnector(c) \/ Register(c)
    PROVE  PoolInv'
<1>1. home' = home /\ pool' = pool
  BY DEF Bind, NewConnector, Register, config
<1>2. \A k \in Nodes : Members(k)' = Members(k)
  BY <1>1, SameMembers
<1>3. CASE Bind(c)
  BY <1>1, <1>2, <1>3 DEF Bind, Go, PoolInv, TypeInv, Phases, MadeFirst, LiveIsReachable
<1>4. CASE NewConnector(c)
  BY <1>1, <1>2, <1>4
     DEF NewConnector, Go, PoolInv, TypeInv, Phases, MadeFirst, LiveIsReachable
<1>5. CASE Register(c)
  BY <1>1, <1>2, <1>5 DEF Register, Go, PoolInv, TypeInv, Phases, MadeFirst, LiveIsReachable
<1> QED
  BY <1>3, <1>4, <1>5

LEMMA PoolAddKeeps ==
    ASSUME PoolInv, NEW c \in Connectors, PoolAdd(c)
    PROVE  PoolInv'
<1>1. home[c] \in Nodes
  BY DEF PoolInv, TypeInv
<1>2. PICK S0 : S0 = Members(home[c]) \cup {c} /\ pool' = [pool EXCEPT ![home[c]] = S0]
  BY DEF PoolAdd
<1>3. S0 # NoTunnel
  BY <1>2, TunnelAssumption DEF NoTunnel
<1>4. \A k \in Nodes : Members(k)' = IF k = home[c] THEN S0 ELSE Members(k)
  BY <1>1, <1>2, <1>3 DEF Members, PoolInv, TypeInv
<1>5. /\ phase' = [phase EXCEPT ![c] = "added"] /\ phase[c] = "made"
      /\ UNCHANGED <<home, up>>
  BY DEF PoolAdd, Go, config
<1>6. TypeInv' /\ MadeFirst'
  BY <1>2, <1>5 DEF PoolInv, TypeInv, Phases, MadeFirst
<1>7. LiveIsReachable'
  BY <1>1, <1>2, <1>4, <1>5 DEF PoolInv, TypeInv, LiveIsReachable
<1> QED
  BY <1>6, <1>7 DEF PoolInv

(* What makes sessions end only shrinks up.                                *)
LEMMA SessionEndsKeeps ==
    ASSUME PoolInv, NEW c \in Connectors, SessionEnds(c)
    PROVE  PoolInv'
<1>1. \A k \in Nodes : Members(k)' = Members(k)
  BY SameMembers DEF SessionEnds
<1> QED
  BY <1>1 DEF SessionEnds, config, binding, PoolInv, TypeInv, MadeFirst, LiveIsReachable

(* The clean-up takes away closed connectors and empty tunnels only.       *)
LEMMA CleanKeeps ==
    ASSUME PoolInv, NEW n \in Nodes, Clean(n)
    PROVE  PoolInv'
<1>1. pool[n] # NoTunnel
  BY DEF Clean, Members
<1>2. pool' = [pool EXCEPT ![n] = Members(n) \cap up]
  BY <1>1 DEF Clean, Members
<1>3. Members(n) \cap up \in SUBSET Connectors
  BY DEF PoolInv, TypeInv
<1>4. \A k \in Nodes : Members(k)' = IF k = n THEN Members(n) \cap up ELSE Members(k)
  BY <1>2, <1>3, SetMembers DEF PoolInv
<1> QED
  BY <1>2, <1>4 DEF Clean, config, binding, PoolInv, TypeInv, MadeFirst, LiveIsReachable

LEMMA CloseIdlesKeeps ==
    ASSUME PoolInv, NEW n \in Nodes, CloseIdles(n)
    PROVE  PoolInv'
<1>1. Members(n) = {}
  BY DEF CloseIdles, Members
<1>2. \A k \in Nodes : Members(k)' = Members(k)
  BY <1>1, DropTunnel DEF CloseIdles, PoolInv
<1> QED
  BY <1>2 DEF CloseIdles, config, binding, PoolInv, TypeInv, MadeFirst, LiveIsReachable

(* A handler that is closed drops its tunnel, and the sessions in it.      *)
LEMMA CloseKeeps ==
    ASSUME PoolInv, NEW n \in Nodes, Close(n)
    PROVE  PoolInv'
<1>1. \A k \in Nodes : Members(k)' = IF k = n THEN {} ELSE Members(k)
  BY DropTunnel DEF Close, PoolInv
<1>2. up' = up \ Members(n)
  BY DEF Close
<1> QED
  BY <1>1, <1>2 DEF Close, config, binding, PoolInv, TypeInv, MadeFirst, LiveIsReachable

(* Watchers, the directory and visitors do not touch the pool.             *)
LEMMA OthersKeep ==
    ASSUME PoolInv, UNCHANGED <<home, phase, up, pool>>
    PROVE  PoolInv'
BY DEF PoolInv, TypeInv, Phases, MadeFirst, LiveIsReachable, Members

-----------------------------------------------------------------------------
LEMMA NextPoolInv == PoolInv /\ [Next]_vars => PoolInv'
<1> SUFFICES ASSUME PoolInv, [Next]_vars PROVE PoolInv'
  OBVIOUS
<1>1. CASE UNCHANGED vars
  BY <1>1, OthersKeep DEF vars
<1>2. ASSUME NEW c \in Connectors,
             Bind(c) \/ Binding(c) \/ SessionEnds(c) \/ Watching(c) \/ Expire(c)
      PROVE  PoolInv'
  <2>1. CASE Bind(c) \/ NewConnector(c) \/ Register(c)
    BY <2>1, BindKeeps
  <2>2. CASE PoolAdd(c)
    BY <2>2, PoolAddKeeps
  <2>3. CASE SessionEnds(c)
    BY <2>3, SessionEndsKeeps
  <2>4. CASE WaitClose(c) \/ Deregister(c) \/ Expire(c)
    BY <2>4, OthersKeep DEF WaitClose, Deregister, Expire, config, binding
  <2> QED
    BY <1>2, <2>1, <2>2, <2>3, <2>4 DEF Binding, Watching
<1>3. ASSUME NEW n \in Nodes, Clean(n) \/ CloseIdles(n) \/ Close(n)
      PROVE  PoolInv'
  BY <1>3, CleanKeeps, CloseIdlesKeeps, CloseKeeps
<1>4. ASSUME NEW v \in Visitors, Visit(v) \/ Dialing(v)
      PROVE  PoolInv'
  <2>1. CASE Visit(v) \/ Get(v) \/ GetConn(v) \/ Lookup(v) \/ DialNode(v) \/ PeerAccept(v)
    BY <2>1, OthersKeep
       DEF Visit, Get, GetConn, Lookup, DialNode, PeerAccept, OnlyDial, config, binding
  <2>2. CASE End(v)
    BY <2>2, OthersKeep DEF End, config, binding
  <2> QED
    BY <1>4, <2>1, <2>2 DEF Dialing
<1> QED
  BY <1>1, <1>2, <1>3, <1>4 DEF Next

(* Every session that is up, and whose bind has added it, is in the tunnel *)
(* of its node: for every number of nodes, connectors and visitors.        *)
THEOREM LiveReachable == Spec => []LiveIsReachable
<1>1. Init => PoolInv
  BY InitPoolInv
<1>2. PoolInv /\ [Next]_vars => PoolInv'
  BY NextPoolInv
<1>3. PoolInv => LiveIsReachable
  BY DEF PoolInv
<1> QED
  BY <1>1, <1>2, <1>3, PTL DEF Spec
-----------------------------------------------------------------------------
(* Types.                                                                  *)

LEMMA NoDialType == NoDial \in DialRecords
<1>0. Retry \in Nat
  BY TunnelAssumption
<1>1. 0 \in 0..Retry
  BY <1>0
<1> QED
  BY <1>1 DEF NoDial, DialRecords, Networks

LEMMA InitTypeOK == Init => TypeOK
<1>1. NoDial.pc = "idle"
  BY DEF NoDial
<1> QED
  BY <1>1, NoDialType DEF Init, TypeOK

LEMMA MembersType ==
    ASSUME TypeOK, NEW n \in Nodes
    PROVE  Members(n) \in SUBSET Connectors
BY DEF TypeOK, Members

(* A visitor's step writes a record of the type.                           *)
LEMMA DialType ==
    ASSUME TypeOK, NEW v \in Visitors, NEW d \in DialRecords,
           d.pc # "idle" => d.node \in Nodes, d.pc = "open" => d.try < Retry,
           Set(v, d), OnlyDial
    PROVE  TypeOK'
BY DEF TypeOK, Set, OnlyDial, config, binding

LEMMA BindingTypeOK ==
    ASSUME TypeOK, NEW c \in Connectors,
           Bind(c) \/ Binding(c) \/ SessionEnds(c) \/ Watching(c) \/ Expire(c)
    PROVE  TypeOK'
<1>1. home[c] \in Nodes /\ Members(home[c]) \in SUBSET Connectors
  BY MembersType DEF TypeOK
<1>2. CASE Bind(c)
  BY <1>2 DEF TypeOK, Bind, Go, config, dialing
<1>3. CASE NewConnector(c)
  BY <1>3 DEF TypeOK, NewConnector, Go, config, dialing
<1>4. CASE PoolAdd(c)
  BY <1>1, <1>4 DEF TypeOK, PoolAdd, Go, config, dialing
<1>5. CASE Register(c)
  BY <1>5 DEF TypeOK, Register, Go, config, dialing
<1>6. CASE SessionEnds(c)
  BY <1>6 DEF TypeOK, SessionEnds, Lost, config, binding
<1>7. CASE WaitClose(c)
  BY <1>7 DEF TypeOK, WaitClose, config, dialing
<1>8. CASE Deregister(c)
  BY <1>8 DEF TypeOK, Deregister, config, dialing
<1>9. CASE Expire(c)
  BY <1>9 DEF TypeOK, Expire, config, binding, dialing
<1> QED
  BY <1>2, <1>3, <1>4, <1>5, <1>6, <1>7, <1>8, <1>9 DEF Binding, Watching

LEMMA PoolTypeOK ==
    ASSUME TypeOK, NEW n \in Nodes, Clean(n) \/ CloseIdles(n) \/ Close(n)
    PROVE  TypeOK'
<1>1. CASE Clean(n)
  <2>1. pool[n] # NoTunnel /\ pool[n] \in SUBSET Connectors
    BY <1>1 DEF TypeOK, Clean, Members
  <2> QED
    BY <1>1, <2>1 DEF TypeOK, Clean, config, binding, dialing
<1>2. CASE CloseIdles(n)
  BY <1>2 DEF TypeOK, CloseIdles, config, binding, dialing
<1>3. CASE Close(n)
  BY <1>3, MembersType DEF TypeOK, Close, Lost, config, binding
<1> QED
  BY <1>1, <1>2, <1>3

LEMMA VisitorTypeOK ==
    ASSUME TypeOK, NEW v \in Visitors, Visit(v) \/ Dialing(v)
    PROVE  TypeOK'
<1>r. Retry \in Nat
  BY TunnelAssumption
<1>d. /\ dial[v] \in DialRecords
      /\ dial[v].pc # "idle" => dial[v].node \in Nodes
      /\ dial[v].pc = "open" => dial[v].try < Retry
  BY DEF TypeOK
<1>0. NoDial \in DialRecords /\ NoDial.pc = "idle"
  BY NoDialType DEF NoDial
<1>1. CASE Visit(v)
  <2>1. PICK n \in Nodes \ shut, net \in Networks :
          Set(v, [NoDial EXCEPT !.pc = "try", !.node = n, !.net = net,
                      !.near = Fitting(n, net) # {}, !.hope = Hope(n, net) # {}])
    BY <1>1 DEF Visit
  <2>2. [NoDial EXCEPT !.pc = "try", !.node = n, !.net = net,
                      !.near = Fitting(n, net) # {}, !.hope = Hope(n, net) # {}]
          \in DialRecords
    BY <1>0, <2>1 DEF DialRecords
  <2> DEFINE d == [NoDial EXCEPT !.pc = "try", !.node = n, !.net = net,
                      !.near = Fitting(n, net) # {}, !.hope = Hope(n, net) # {}]
  <2>3. d.pc = "try" /\ d.node = n /\ d \in DialRecords
    BY <1>0, <2>2 DEF DialRecords
  <2>4. Set(v, d) /\ OnlyDial
    BY <1>1, <2>1 DEF Visit
  <2> HIDE DEF d
  <2> QED
    BY <2>3, <2>4, DialType
<1>2. CASE Get(v)
  <2>1. dial[v].node \in Nodes
    BY <1>2 DEF Get, TypeOK
  <2>2. GetConnector(dial[v].node, dial[v].net) \subseteq Connectors
    BY <2>1, MembersType DEF GetConnector, Fitting
  <2> QED
    BY <1>2, <1>d, <2>1, <2>2, DialType DEF Get, DialRecords
<1>3. CASE GetConn(v)
  <2>1. dial[v].try + 1 \in 0..Retry
    BY <1>3, <1>d, <1>r DEF GetConn, DialRecords
  <2>2. CASE dial[v].conn \in up
    <3>1. PICK d : d = [NoDial EXCEPT !.pc = "connected", !.node = dial[v].node,
                                      !.conn = dial[v].conn]
      OBVIOUS
    <3>2. d \in DialRecords /\ d.pc = "connected" /\ d.node \in Nodes
      BY <1>0, <1>3, <1>d, <2>2, <3>1 DEF GetConn, DialRecords
    <3> QED
      BY <1>3, <2>2, <3>1, <3>2, DialType DEF GetConn
  <2>3. CASE dial[v].conn \notin up
    BY <1>3, <1>d, <2>1, <2>3, DialType DEF GetConn, DialRecords
  <2> QED
    BY <2>2, <2>3
<1>4. CASE Lookup(v)
  BY <1>4, <1>d, DialType DEF Lookup, Stale, DialRecords, TypeOK
<1>5. CASE DialNode(v)
  BY <1>5, <1>d, DialType DEF DialNode, DialRecords
<1>6. CASE PeerAccept(v)
  BY <1>6, <1>d, DialType DEF PeerAccept, DialRecords
<1>7. CASE End(v)
  BY <1>7, <1>0 DEF End, Set, TypeOK, config, binding
<1> QED
  BY <1>1, <1>2, <1>3, <1>4, <1>5, <1>6, <1>7 DEF Dialing
LEMMA NextTypeOK == TypeOK /\ [Next]_vars => TypeOK'
<1> SUFFICES ASSUME TypeOK, [Next]_vars PROVE TypeOK'
  OBVIOUS
<1>1. CASE UNCHANGED vars
  BY <1>1 DEF vars, TypeOK
<1> QED
  BY <1>1, BindingTypeOK, PoolTypeOK, VisitorTypeOK DEF Next

(* The type invariant of the tunnels.                                      *)
THEOREM TunnelTypes == Spec => []TypeOK
BY InitTypeOK, NextTypeOK, PTL DEF Spec

-----------------------------------------------------------------------------
(* The directory.                                                          *)

LEMMA DirectoryBinding ==
    ASSUME TypeOK, PoolInv, DirectoryInv, NEW c \in Connectors,
           Bind(c) \/ Binding(c) \/ SessionEnds(c) \/ Watching(c) \/ Expire(c)
    PROVE  DirectoryInv'
<1>1. CASE PoolAdd(c)
  <2>1. PICK S0 \in SUBSET Connectors :
            S0 = Members(home[c]) \cup {c} /\ pool' = [pool EXCEPT ![home[c]] = S0]
    BY <1>1, MembersType DEF PoolAdd, TypeOK
  <2>2. \A k \in Nodes : Members(k)' = IF k = home[c] THEN S0 ELSE Members(k)
    BY <2>1, SetMembers DEF PoolInv, TypeOK
  <2> QED
    BY <1>1, <2>1, <2>2 DEF DirectoryInv, PoolAdd, Go, config, TypeOK
<1>2. CASE ~PoolAdd(c)
  <2>1. pool' = pool /\ home' = home
    BY <1>2 DEF Bind, Binding, NewConnector, Register, SessionEnds, Watching, WaitClose,
                Deregister, Expire, config
  <2>2. \A k \in Nodes : Members(k)' = Members(k)
    BY <2>1, SameMembers
  <2>3. CASE Bind(c)
    BY <2>1, <2>2, <2>3 DEF DirectoryInv, Bind, Go, TypeOK
  <2>4. CASE NewConnector(c)
    BY <2>1, <2>2, <2>4 DEF DirectoryInv, NewConnector, Go, TypeOK
  <2>5. CASE Register(c)
    BY <2>1, <2>2, <2>5 DEF DirectoryInv, Register, Go, TypeOK
  <2>6. CASE SessionEnds(c)
    BY <2>1, <2>2, <2>6 DEF DirectoryInv, SessionEnds, binding
  <2>7. CASE WaitClose(c)
    BY <2>1, <2>2, <2>7 DEF DirectoryInv, WaitClose, TypeOK
  <2>8. CASE Deregister(c)
    BY <2>1, <2>2, <2>8 DEF DirectoryInv, Deregister, TypeOK
  <2>9. CASE Expire(c)
    BY <2>1, <2>2, <2>9 DEF DirectoryInv, Expire, binding
  <2> QED
    BY <1>2, <2>3, <2>4, <2>5, <2>6, <2>7, <2>8, <2>9 DEF Binding, Watching
<1> QED
  BY <1>1, <1>2

LEMMA DirectoryPool ==
    ASSUME TypeOK, PoolInv, DirectoryInv, NEW n \in Nodes, Clean(n) \/ CloseIdles(n) \/ Close(n)
    PROVE  DirectoryInv'
<1>1. \A k \in Nodes : Members(k)' \subseteq Members(k)
  <2>1. CASE Clean(n)
    BY <2>1, MembersType, SetMembers DEF Clean, Members, PoolInv, TypeOK
  <2>2. CASE CloseIdles(n) \/ Close(n)
    BY <2>2, DropTunnel DEF CloseIdles, Close, PoolInv
  <2> QED
    BY <2>1, <2>2
<1>2. UNCHANGED <<home, phase, watch, sd>> /\ up' \subseteq up
  BY DEF Clean, CloseIdles, Close, config, binding
<1> QED
  BY <1>1, <1>2 DEF DirectoryInv

LEMMA DirectoryVisitor ==
    ASSUME DirectoryInv, NEW v \in Visitors, Visit(v) \/ Dialing(v)
    PROVE  DirectoryInv' /\ UNCHANGED <<home, kind, entry, phase, up, watch, pool, shut, sd>>
<1>1. UNCHANGED <<home, kind, entry, phase, up, watch, pool, shut, sd>>
  BY DEF Visit, Dialing, Get, GetConn, Lookup, DialNode, PeerAccept, End, OnlyDial, config,
         binding
<1> QED
  BY <1>1 DEF DirectoryInv, Members

-----------------------------------------------------------------------------
(* What a step of somebody else leaves to a dial under way: nothing that is *)
(* up goes, without being noticed as a loss.                                *)

Stays ==
    /\ UNCHANGED <<home, kind, entry, shut>>
    /\ up \subseteq up'
    /\ \A n \in Nodes : Members(n) \cap up \subseteq Members(n)'
    /\ sd \cap up \subseteq sd'

LEMMA StaysKeepsHope ==
    ASSUME TypeOK, Stays, NEW v \in Visitors, HopeOf(v), UNCHANGED <<dial[v], losses[v]>>
    PROVE  HopeOf(v)'
<1>1. ASSUME NEW n \in Nodes, NEW net, Near(n, net)
      PROVE  Near(n, net)'
  BY <1>1 DEF Near, Fitting, Stays
<1>2. ASSUME NEW n, NEW net, Told(n, net)
      PROVE  Told(n, net)'
  BY <1>2 DEF Told, Stays
<1>3. dial[v].pc # "idle" => dial[v].node \in Nodes
  BY DEF TypeOK
<1>4. ASSUME OnItsWay(dial[v])
      PROVE  OnItsWay(dial[v])'
  BY <1>1, <1>2, <1>3, <1>4 DEF OnItsWay, Stays
<1> QED
  BY <1>4 DEF HopeOf

LEMMA LostKeepsHope ==
    ASSUME NEW v \in Visitors, HopeOf(v), dial' = dial, losses'[v] = Lost(v)
    PROVE  HopeOf(v)'
BY DEF HopeOf, Lost

LEMMA BindingKeepsHope ==
    ASSUME VisitInv, NEW c \in Connectors,
           Bind(c) \/ Binding(c) \/ SessionEnds(c) \/ Watching(c) \/ Expire(c)
    PROVE  HopeInv'
<1> USE DEF VisitInv
<1>1. CASE SessionEnds(c)
  BY <1>1, LostKeepsHope DEF SessionEnds, HopeInv
<1>2. CASE ~SessionEnds(c)
  <2>1. UNCHANGED <<home, kind, entry, shut, dial, losses>>
    BY <1>2 DEF Bind, Binding, NewConnector, PoolAdd, Register, Watching, WaitClose, Deregister,
                Expire, config, dialing
  <2>2. up \subseteq up'
    BY <1>2 DEF Bind, Binding, NewConnector, PoolAdd, Register, Watching, WaitClose, Deregister,
                Expire
  <2>3. \A n \in Nodes : Members(n) \subseteq Members(n)'
    <3>1. CASE PoolAdd(c)
      <4>1. PICK S0 \in SUBSET Connectors :
              S0 = Members(home[c]) \cup {c} /\ pool' = [pool EXCEPT ![home[c]] = S0]
        BY <3>1, MembersType DEF PoolAdd, TypeOK
      <4>2. home[c] \in Nodes /\ TypeInv
        BY DEF TypeOK, PoolInv
      <4>3. \A k \in Nodes : Members(k)' = IF k = home[c] THEN S0 ELSE Members(k)
        BY <4>1, <4>2, SetMembers
      <4> QED
        BY <4>1, <4>3
    <3>2. CASE ~PoolAdd(c)
      BY <1>2, <3>2, SameMembers
         DEF Bind, Binding, NewConnector, Register, Watching, WaitClose, Deregister, Expire
    <3> QED
      BY <3>1, <3>2
  <2>4. sd \cap up \subseteq sd'
    <3>1. CASE Deregister(c)
      BY <3>1 DEF Deregister, DirectoryInv
    <3>2. CASE Expire(c)
      <4>1. c \notin up
        BY <3>2 DEF Expire, DirectoryInv, PoolInv, LiveIsReachable, TypeOK
      <4> QED
        BY <3>2, <4>1 DEF Expire
    <3> QED
      BY <1>2, <3>1, <3>2 DEF Bind, Binding, NewConnector, PoolAdd, Register, Watching, WaitClose
  <2> QED
    BY <2>1, <2>2, <2>3, <2>4, StaysKeepsHope DEF Stays, HopeInv
<1> QED
  BY <1>1, <1>2

LEMMA PoolKeepsHope ==
    ASSUME VisitInv, NEW n \in Nodes, Clean(n) \/ CloseIdles(n) \/ Close(n)
    PROVE  HopeInv'
<1> USE DEF VisitInv
<1>1. CASE Close(n)
  BY <1>1, LostKeepsHope DEF Close, HopeInv
<1>2. CASE Clean(n) \/ CloseIdles(n)
  <2>1. UNCHANGED <<home, kind, entry, shut, up, sd, dial, losses>>
    BY <1>2 DEF Clean, CloseIdles, config, dialing
  <2>2. \A k \in Nodes : Members(k) \cap up \subseteq Members(k)'
    <3>1. CASE Clean(n)
      <4>1. PICK S0 \in SUBSET Connectors :
              S0 = Members(n) \cap up /\ pool' = [pool EXCEPT ![n] = S0]
        BY <3>1, MembersType DEF Clean, Members
      <4>2. \A k \in Nodes : Members(k)' = IF k = n THEN S0 ELSE Members(k)
        BY <4>1, SetMembers DEF PoolInv
      <4> QED
        BY <4>1, <4>2
    <3>2. CASE CloseIdles(n)
      <4>1. Members(n) = {}
        BY <3>2 DEF CloseIdles, Members
      <4> QED
        BY <3>2, <4>1, DropTunnel DEF CloseIdles, PoolInv
    <3> QED
      BY <1>2, <3>1, <3>2
  <2> QED
    BY <2>1, <2>2, StaysKeepsHope DEF Stays, HopeInv
<1> QED
  BY <1>1, <1>2

-----------------------------------------------------------------------------
(* The visitor's own steps.                                                *)

(* Who fits is found.                                                      *)
LEMMA NearIsFound ==
    ASSUME NEW n, NEW net, Near(n, net)
    PROVE  GetConnector(n, net) # {}
BY DEF Near, Fitting, GetConnector

LEMMA FoundIsUp ==
    ASSUME NEW n, NEW net
    PROVE  GetConnector(n, net) \subseteq up
BY DEF Fitting, GetConnector

(* An announced connector that is up is in the tunnel of its node.         *)
LEMMA ToldIsNear ==
    ASSUME VisitInv, NEW c \in sd \cap up
    PROVE  Near(home[c], kind[c].net)
<1>1. c \in Members(home[c])
  BY DEF VisitInv, DirectoryInv, PoolInv, LiveIsReachable
<1> QED
  BY <1>1 DEF Near, Fitting

(* When visitor v makes d its dial, the others keep what they hope for.    *)
LEMMA SetKeepsHope ==
    ASSUME VisitInv, NEW v \in Visitors, NEW d,
           Set(v, d), UNCHANGED <<home, kind, entry, phase, up, watch, pool, shut, sd>>,
           \A w \in Visitors : w # v => losses'[w] = losses[w],
           d.pc = "idle" => ~d.hope,
           ~losses'[v] /\ d.hope /\ (d.near \/ ~d.misled) => OnItsWay(d)
    PROVE  HopeInv'
<1>1. Stays
  BY DEF Stays, Members
<1>2. ASSUME NEW w \in Visitors, w # v
      PROVE  HopeOf(w)'
  <2>1. dial'[w] = dial[w] /\ losses'[w] = losses[w]
    BY <1>2 DEF Set, VisitInv, TypeOK
  <2> QED
    BY <1>1, <2>1, StaysKeepsHope DEF VisitInv, HopeInv
<1>3. dial'[v] = d
  BY DEF Set, VisitInv, TypeOK
<1>4. OnItsWay(d) => OnItsWay(d)'
  BY DEF OnItsWay, Near, Told, Fitting, Members
<1>5. HopeOf(v)'
  BY <1>3, <1>4 DEF HopeOf, OnItsWay, Near, Told, Fitting, Members
<1> QED
  BY <1>2, <1>5 DEF HopeInv

LEMMA VisitKeepsHope ==
    ASSUME VisitInv, NEW v \in Visitors, Visit(v)
    PROVE  HopeInv'
<1>1. PICK n \in Nodes \ shut, net \in Networks :
        Set(v, [NoDial EXCEPT !.pc = "try", !.node = n, !.net = net,
                      !.near = Fitting(n, net) # {}, !.hope = Hope(n, net) # {}])
  BY DEF Visit
<1> DEFINE d == [NoDial EXCEPT !.pc = "try", !.node = n, !.net = net,
                      !.near = Fitting(n, net) # {}, !.hope = Hope(n, net) # {}]
<1>2. /\ d.pc = "try" /\ d.node = n /\ d.net = net /\ d.hope = (Hope(n, net) # {})
      /\ d.near = (Fitting(n, net) # {}) /\ d.try = 0 /\ ~d.failed /\ ~d.second
  BY DEF NoDial
<1>3. ASSUME Hope(n, net) # {}
      PROVE  Near(n, net) \/ Told(n, net)
  <2>1. CASE Fitting(n, net) # {}
    BY <2>1 DEF Near
  <2>2. CASE Fitting(n, net) = {}
    <3>1. PICK m \in entry \ (shut \cup {n}) : Fitting(m, net) \cap sd # {}
      BY <1>3, <2>2 DEF Hope
    <3>2. PICK c : c \in Fitting(m, net) /\ c \in sd
      BY <3>1
    <3>3. home[c] = m /\ c \in up /\ kind[c].net = net
      BY <3>1, <3>2 DEF Fitting, VisitInv, TypeOK, DirectoryInv
    <3> QED
      BY <3>1, <3>2, <3>3 DEF Told
  <2> QED
    BY <2>1, <2>2
<1>4. Set(v, d)
  BY <1>1
<1> HIDE DEF d
<1>5. OnItsWay(d) \/ ~d.hope
  BY <1>2, <1>3 DEF OnItsWay, Near
<1> QED
  BY <1>2, <1>4, <1>5, SetKeepsHope, DirectoryVisitor DEF Visit, OnlyDial, VisitInv

LEMMA GetKeepsHope ==
    ASSUME VisitInv, NEW v \in Visitors, Get(v)
    PROVE  HopeInv'
<1> DEFINE d == dial[v]
           fits == GetConnector(d.node, d.net)
           good == ~losses[v] /\ d.hope /\ (d.near \/ ~d.misled)
<1>r. Retry \in Nat \ {0}
  BY TunnelAssumption
<1>0. d.pc = "try" /\ d \in DialRecords /\ fits \subseteq up
  BY FoundIsUp DEF Get, VisitInv, TypeOK
<1>1. good => OnItsWay(d)
  BY DEF VisitInv, HopeInv, HopeOf
<1>2. losses' = losses /\ UNCHANGED <<home, kind, entry, phase, up, watch, pool, shut, sd>>
  BY DEF Get, OnlyDial, config, binding
<1>3. ASSUME NEW c \in fits, Set(v, [d EXCEPT !.pc = "open", !.conn = c])
      PROVE  HopeInv'
  <2>1. PICK e : e = [d EXCEPT !.pc = "open", !.conn = c]
    OBVIOUS
  <2>2. e.pc = "open" /\ e.conn = c /\ e.misled = d.misled /\ e.hope = d.hope /\ e.near = d.near
    BY <1>0, <2>1 DEF DialRecords
  <2>3. OnItsWay(e)
    BY <1>0, <1>3, <2>2 DEF OnItsWay
  <2> QED
    BY <1>2, <1>3, <2>1, <2>2, <2>3, SetKeepsHope
<1>4. ASSUME fits = {} \/ d.try = Retry,
             Set(v, [d EXCEPT !.pc = IF d.failed \/ d.second THEN "failed" ELSE "lookup"])
      PROVE  HopeInv'
  <2>1. PICK e : e = [d EXCEPT !.pc = IF d.failed \/ d.second THEN "failed" ELSE "lookup"]
    OBVIOUS
  <2>2. /\ e.pc = IF d.failed \/ d.second THEN "failed" ELSE "lookup"
        /\ e.node = d.node /\ e.net = d.net /\ e.second = d.second /\ e.try = d.try
        /\ e.failed = d.failed /\ e.hope = d.hope /\ e.misled = d.misled /\ e.near = d.near
    BY <1>0, <2>1 DEF DialRecords
  <2>3. ASSUME good
        PROVE  OnItsWay(e)
    <3>1. /\ d.try = 0 /\ ~d.failed
          /\ Near(d.node, d.net) \/ (~d.second /\ ~d.near /\ Told(d.node, d.net))
      BY <1>0, <1>1, <2>3 DEF OnItsWay
    <3>2. fits = {}
      BY <1>4, <1>r, <3>1
    <3>3. ~Near(d.node, d.net)
      BY <3>2, NearIsFound
    <3> QED
      BY <2>2, <3>1, <3>3 DEF OnItsWay
  <2>4. Set(v, e) /\ e.pc # "idle" /\ \A w \in Visitors : losses'[w] = losses[w]
    BY <1>2, <1>4, <2>1, <2>2
  <2>5. ~losses'[v] /\ e.hope /\ (e.near \/ ~e.misled) => OnItsWay(e)
    BY <1>2, <2>2, <2>3
  <2> HIDE DEF d, fits, good
  <2> QED
    BY <1>2, <2>4, <2>5, SetKeepsHope
<1> QED
  BY <1>3, <1>4 DEF Get

LEMMA GetConnKeepsHope ==
    ASSUME VisitInv, NEW v \in Visitors, GetConn(v)
    PROVE  HopeInv'
<1> DEFINE d == dial[v]
<1>0. d.pc = "open" /\ d \in DialRecords
  BY DEF GetConn, VisitInv, TypeOK
<1>1. ~losses[v] /\ d.hope /\ (d.near \/ ~d.misled) => d.conn \in up
  BY <1>0 DEF VisitInv, HopeInv, HopeOf, OnItsWay
<1>2. losses' = losses /\ UNCHANGED <<home, kind, entry, phase, up, watch, pool, shut, sd>>
  BY DEF GetConn, OnlyDial, config, binding
<1>3. CASE d.conn \in up
  <2>1. PICK e : /\ Set(v, e)
                 /\ e = [NoDial EXCEPT !.pc = "connected", !.node = d.node, !.conn = d.conn]
    BY <1>3 DEF GetConn
  <2>2. e.pc = "connected" /\ ~e.hope
    BY <2>1 DEF NoDial
  <2> QED
    BY <1>2, <2>1, <2>2, SetKeepsHope
<1>4. CASE d.conn \notin up
  <2>1. PICK e : /\ Set(v, e)
                 /\ e = [d EXCEPT !.pc = "try", !.try = @ + 1, !.failed = TRUE, !.conn = NoOne]
    BY <1>4 DEF GetConn
  <2>2. e.pc = "try" /\ e.misled = d.misled /\ e.hope = d.hope /\ e.near = d.near
    BY <1>0, <2>1 DEF DialRecords
  <2>3. ~(~losses[v] /\ e.hope /\ (e.near \/ ~e.misled))
    BY <1>1, <1>4, <2>2
  <2> QED
    BY <1>2, <2>1, <2>2, <2>3, SetKeepsHope
<1> QED
  BY <1>3, <1>4

LEMMA LookupKeepsHope ==
    ASSUME VisitInv, NEW v \in Visitors, Lookup(v)
    PROVE  HopeInv'
<1> DEFINE d == dial[v]
           services == {c \in sd : home[c] # d.node /\ kind[c].net = d.net}
<1>0. d.pc = "lookup" /\ d \in DialRecords
  BY DEF Lookup, VisitInv, TypeOK
<1>1. ~losses[v] /\ d.hope /\ (d.near \/ ~d.misled) =>
        d.try = 0 /\ ~d.failed /\ ~d.near /\ Told(d.node, d.net)
  BY <1>0 DEF VisitInv, HopeInv, HopeOf, OnItsWay
<1>2. losses' = losses /\ UNCHANGED <<home, kind, entry, phase, up, watch, pool, shut, sd>>
  BY DEF Lookup, OnlyDial, config, binding
<1>3. ASSUME services = {}, Set(v, [d EXCEPT !.pc = "failed"])
      PROVE  HopeInv'
  <2>1. PICK e : e = [d EXCEPT !.pc = "failed"]
    OBVIOUS
  <2>2. e.pc = "failed" /\ e.misled = d.misled /\ e.hope = d.hope /\ e.near = d.near
    BY <1>0, <2>1 DEF DialRecords
  <2>3. ~Told(d.node, d.net)
    BY <1>3 DEF Told
  <2> QED
    BY <1>1, <1>2, <1>3, <2>1, <2>2, <2>3, SetKeepsHope
<1>4. ASSUME Set(v, [d EXCEPT !.pc = "failed", !.misled = TRUE])
      PROVE  HopeInv'
  <2>1. PICK e : e = [d EXCEPT !.pc = "failed", !.misled = TRUE]
    OBVIOUS
  <2>2. e.pc = "failed" /\ e.misled /\ e.hope = d.hope /\ e.near = d.near
    BY <1>0, <2>1 DEF DialRecords
  <2> QED
    BY <1>1, <1>2, <1>4, <2>1, <2>2, SetKeepsHope
<1>5. ASSUME NEW c \in services,
             Set(v, [d EXCEPT !.pc = IF home[c] \in entry THEN "dial" ELSE "failed",
                              !.node = home[c], !.misled = @ \/ Stale(c)])
      PROVE  HopeInv'
  <2>1. PICK e : e = [d EXCEPT !.pc = IF home[c] \in entry THEN "dial" ELSE "failed",
                               !.node = home[c], !.misled = @ \/ Stale(c)]
    OBVIOUS
  <2>2. /\ e.pc = IF home[c] \in entry THEN "dial" ELSE "failed"
        /\ e.node = home[c] /\ e.misled = (d.misled \/ Stale(c)) /\ e.net = d.net
        /\ e.try = d.try /\ e.failed = d.failed /\ e.hope = d.hope /\ e.near = d.near
    BY <1>0, <2>1 DEF DialRecords
  <2>3. ASSUME ~losses[v], e.hope, e.near \/ ~e.misled
        PROVE  OnItsWay(e)
    <3>1. ~d.near /\ ~e.misled /\ d.try = 0 /\ ~d.failed
      BY <1>1, <2>2, <2>3
    <3>2. c \in sd \cap up /\ home[c] \notin shut /\ home[c] \in entry /\ kind[c].net = d.net
      BY <1>5, <2>2, <3>1 DEF Stale
    <3>3. Near(home[c], d.net)
      BY <3>2, ToldIsNear
    <3> QED
      BY <2>2, <3>1, <3>2, <3>3 DEF OnItsWay
  <2>4. e.pc # "idle"
    BY <2>2
  <2> HIDE DEF d, services
  <2> QED
    BY <1>2, <1>5, <2>1, <2>3, <2>4, SetKeepsHope
<1> QED
  BY <1>3, <1>4, <1>5 DEF Lookup

LEMMA DialNodeKeepsHope ==
    ASSUME VisitInv, NEW v \in Visitors, DialNode(v)
    PROVE  HopeInv'
<1> DEFINE d == dial[v]
<1>0. d.pc = "dial" /\ d \in DialRecords
  BY DEF DialNode, VisitInv, TypeOK
<1>1. ~losses[v] /\ d.hope /\ (d.near \/ ~d.misled) =>
        d.try = 0 /\ ~d.failed /\ ~d.near /\ Near(d.node, d.net)
  BY <1>0 DEF VisitInv, HopeInv, HopeOf, OnItsWay
<1>2. losses' = losses /\ UNCHANGED <<home, kind, entry, phase, up, watch, pool, shut, sd>>
  BY DEF DialNode, OnlyDial, config, binding
<1>3. PICK e : /\ Set(v, e)
               /\ \/ e = [d EXCEPT !.pc = "try", !.second = TRUE]
                  \/ e = [d EXCEPT !.pc = "failed", !.misled = TRUE]
  BY DEF DialNode
<1>4. /\ (e.pc = "try" /\ e.misled = d.misled) \/ (e.pc = "failed" /\ e.misled)
      /\ e.node = d.node /\ e.net = d.net /\ e.try = d.try /\ e.failed = d.failed
      /\ e.hope = d.hope /\ e.near = d.near
  BY <1>0, <1>3 DEF DialRecords
<1>5. ~losses[v] /\ e.hope /\ (e.near \/ ~e.misled) => OnItsWay(e)
  BY <1>1, <1>4 DEF OnItsWay
<1>6. e.pc # "idle" /\ \A w \in Visitors : losses'[w] = losses[w]
  BY <1>2, <1>4
<1>7. ~losses'[v] /\ e.hope /\ (e.near \/ ~e.misled) => OnItsWay(e)
  BY <1>2, <1>5
<1> HIDE DEF d
<1> QED
  BY <1>2, <1>3, <1>6, <1>7, SetKeepsHope

LEMMA LastKeepHope ==
    ASSUME VisitInv, NEW v \in Visitors, PeerAccept(v) \/ End(v)
    PROVE  HopeInv'
<1>1. CASE PeerAccept(v)
  <2>1. PICK e : Set(v, e) /\ e = [dial[v] EXCEPT !.pc = "served"]
    BY <1>1 DEF PeerAccept
  <2>2. e.pc = "served"
    BY <2>1 DEF VisitInv, TypeOK, DialRecords
  <2>3. losses' = losses /\ UNCHANGED <<home, kind, entry, phase, up, watch, pool, shut, sd>>
    BY <1>1 DEF PeerAccept, OnlyDial, config, binding
  <2>4. OnItsWay(e)
    BY <2>2 DEF OnItsWay
  <2> QED
    BY <2>1, <2>2, <2>3, <2>4, SetKeepsHope
<1>2. CASE End(v)
  <2>1. Set(v, NoDial) /\ ~NoDial.hope
    BY <1>2 DEF End, NoDial
  <2>2. UNCHANGED <<home, kind, entry, phase, up, watch, pool, shut, sd>>
    BY <1>2 DEF End, config, binding
  <2>3. \A w \in Visitors : w # v => losses'[w] = losses[w]
    BY <1>2 DEF End, VisitInv, TypeOK
  <2> QED
    BY <2>1, <2>2, <2>3, SetKeepsHope
<1> QED
  BY <1>1, <1>2

-----------------------------------------------------------------------------
LEMMA InitVisitInv == Init => VisitInv
<1>1. Init => DirectoryInv
  BY DEF Init, DirectoryInv, Members
<1>2. Init => HopeInv
  BY DEF Init, HopeInv, HopeOf, NoDial
<1> QED
  BY <1>1, <1>2, InitTypeOK, InitPoolInv DEF VisitInv

LEMMA NextVisitInv == VisitInv /\ [Next]_vars => VisitInv'
<1> SUFFICES ASSUME VisitInv, [Next]_vars PROVE VisitInv'
  OBVIOUS
<1>1. TypeOK' /\ PoolInv'
  BY NextTypeOK, NextPoolInv DEF VisitInv
<1>2. CASE UNCHANGED vars
  BY <1>1, <1>2
     DEF vars, VisitInv, DirectoryInv, HopeInv, HopeOf, OnItsWay, Near, Told, Fitting, Members
<1>3. ASSUME NEW c \in Connectors,
             Bind(c) \/ Binding(c) \/ SessionEnds(c) \/ Watching(c) \/ Expire(c)
      PROVE  DirectoryInv' /\ HopeInv'
  BY <1>3, DirectoryBinding, BindingKeepsHope DEF VisitInv
<1>4. ASSUME NEW n \in Nodes, Clean(n) \/ CloseIdles(n) \/ Close(n)
      PROVE  DirectoryInv' /\ HopeInv'
  BY <1>4, DirectoryPool, PoolKeepsHope DEF VisitInv
<1>5. ASSUME NEW v \in Visitors, Visit(v) \/ Dialing(v)
      PROVE  DirectoryInv' /\ HopeInv'
  BY <1>5, DirectoryVisitor, VisitKeepsHope, GetKeepsHope, GetConnKeepsHope, LookupKeepsHope,
     DialNodeKeepsHope, LastKeepHope DEF VisitInv, Dialing
<1> QED
  BY <1>1, <1>2, <1>3, <1>4, <1>5 DEF Next, VisitInv

(* A visitor who can hope for a connector, loses no session during its     *)
(* dial and is not sent to a dead one is not refused.                      *)
THEOREM EveryVisitorGetsThrough == Spec => []VisitorsGetThrough
<1>1. VisitInv => VisitorsGetThrough
  BY DEF VisitInv, HopeInv, HopeOf, OnItsWay, VisitorsGetThrough
<1> QED
  BY <1>1, InitVisitInv, NextVisitInv, PTL DEF Spec

-----------------------------------------------------------------------------
(* The link to the master.  First two facts about queues.                  *)

LEMMA TailDomain ==
    ASSUME NEW S, NEW s \in Seq(S), s # <<>>
    PROVE  /\ Tail(s) \in Seq(S)
           /\ Head(s) = s[1] /\ 1 \in DOMAIN s /\ s[1] \in S
           /\ \A i \in DOMAIN Tail(s) : i + 1 \in DOMAIN s /\ Tail(s)[i] = s[i + 1] /\ i + 1 # 1
           /\ \A i, j \in DOMAIN Tail(s) : i + 1 = j + 1 => i = j
<1> QED BY HeadTailProperties, LenProperties, ElementOfSeq

LEMMA AppendDomain ==
    ASSUME NEW S, NEW s \in Seq(S), NEW x \in S
    PROVE  /\ Append(s, x) \in Seq(S)
           /\ \A i \in DOMAIN Append(s, x) :
                 \/ i \in DOMAIN s /\ Append(s, x)[i] = s[i]
                 \/ i = Len(s) + 1 /\ i \notin DOMAIN s /\ Append(s, x)[i] = x
<1> QED BY AppendProperties, LenProperties

LEMMA EmptyDomain == DOMAIN <<>> = {} /\ \A S : <<>> \in Seq(S)
<1> QED BY EmptySeq, LenProperties

ReceiverInv ==
    \A r \in Receivers :
        /\ recv[r].pc = "answer" => recv[r].cmd \in Commands
        /\ recv[r].pc = "read" => recv[r].on \in LinkConns
LinkTypes == Link!TypeOK /\ ReceiverInv

LEMMA LinkTypesInit == Link!Init => LinkTypes
<1> SUFFICES ASSUME Link!Init PROVE LinkTypes
  OBVIOUS
<1> USE DEF Link!Init, Link!Node!Init, Link!Node!Gone
<1>1. <<>> \in Seq(Commands)
  BY EmptyDomain
<1>2. down \in [LinkConns -> Seq(Commands)] /\ sending \in [LinkConns -> Seq(Commands)]
  BY <1>1
<1>3. Link!Node!TypeOK
  BY <1>2 DEF Link!Node!TypeOK
<1>4. Link!TypeOK
  BY <1>3 DEF Link!TypeOK
<1>5. ReceiverInv
  BY DEF ReceiverInv
<1> QED BY <1>4, <1>5 DEF LinkTypes

LEMMA LinkTypesNext == LinkTypes /\ [Link!Next]_linkVars => LinkTypes'
<1> SUFFICES ASSUME LinkTypes, [Link!Next]_linkVars PROVE LinkTypes'
  OBVIOUS
<1> USE LinkAssumption DEF Link!Node!ReporterAssumption, LinkTypes, ReceiverInv, Link!TypeOK, Link!Node!TypeOK, Link!handlerVars, Link!masterVars,
        Link!nodeSide, Link!nodeVars, Link!Node!wireVars, Link!Node!nodeVars, Link!Node!Gone
<1>1. CASE UNCHANGED linkVars
  BY <1>1 DEF linkVars
<1>2. CASE Link!NodeStep
  <2> UNCHANGED Link!masterVars
    BY <1>2 DEF Link!NodeStep
  <2>1. CASE Link!Node!TryAgain
    BY <2>1 DEF Link!Node!TryAgain
  <2>2. CASE Link!Node!StopReporting
    BY <2>2 DEF Link!Node!StopReporting
  <2>3. ASSUME NEW r \in Receivers, Link!Node!StartReceiver(r) PROVE LinkTypes'
    BY <2>3 DEF Link!Node!StartReceiver
  <2>4. ASSUME NEW r \in Receivers, Link!Node!Receive(r) PROVE LinkTypes'
    <3>1. CASE conn = NoConn \/ ~connected
      BY <2>4, <3>1 DEF Link!Node!Receive
    <3>2. CASE ~(conn = NoConn \/ ~connected)
      <4> DEFINE n == [recv[r] EXCEPT !.pc = "read", !.on = conn]
      <4>1. recv' = [recv EXCEPT ![r] = n]
        BY <2>4, <3>2 DEF Link!Node!Receive
      <4>2. conn \in LinkConns
        BY <3>2
      <4>3. /\ n \in [pc : {"gone", "top", "read", "answer"},
                        on : LinkConns \cup {NoConn}, cmd : Commands \cup {NoConn}]
            /\ n.pc = "read" /\ n.on = conn
        <5>1. recv[r] \in [pc : {"gone", "top", "read", "answer"},
                        on : LinkConns \cup {NoConn}, cmd : Commands \cup {NoConn}]
          OBVIOUS
        <5> QED
          BY ONLY <4>2, <5>1
      <4> HIDE DEF n
      <4> QED
        BY <2>4, <4>1, <4>2, <4>3 DEF Link!Node!Receive
    <3> QED
      BY <3>1, <3>2
  <2>5. ASSUME NEW r \in Receivers, Link!Node!Execute(r) PROVE LinkTypes'
    BY <2>5, TailDomain DEF Link!Node!Execute
  <2>6. ASSUME NEW r \in Receivers, Link!Node!Answer(r) PROVE LinkTypes'
    <3>1. ReceiverInv' /\ recv' \in [Receivers -> [pc : {"gone", "top", "read", "answer"},
                                 on : LinkConns \cup {NoConn}, cmd : Commands \cup {NoConn}]]
      BY <2>6 DEF Link!Node!Answer
    <3>2. connected' \in BOOLEAN
      BY <2>6 DEF Link!Node!Answer
    <3>3. sending' \in [LinkConns -> Seq(Commands)]
      <4>1. recv[r].cmd \in Commands
        BY <2>6 DEF Link!Node!Answer
      <4>2. \A c \in LinkConns : Append(sending[c], recv[r].cmd) \in Seq(Commands)
        BY <4>1, AppendDomain
      <4>3. \/ sending' = sending
            \/ sending' = [sending EXCEPT ![conn] = Append(@, recv[r].cmd)]
        BY <2>6 DEF Link!Node!Answer
      <4>4. sending \in [LinkConns -> Seq(Commands)]
        OBVIOUS
      <4> QED
        BY ONLY <4>2, <4>3, <4>4
    <3> QED
      BY <2>6, <3>1, <3>2, <3>3 DEF Link!Node!Answer
  <2>7. ASSUME NEW r \in Receivers, Link!Node!ReadError(r) PROVE LinkTypes'
    BY <2>7 DEF Link!Node!ReadError
  <2>8. ASSUME NEW c \in LinkConns, Link!Node!Lose(c) PROVE LinkTypes'
    BY <2>8, EmptyDomain DEF Link!Node!Lose
  <2> QED BY <1>2, <2>1, <2>2, <2>3, <2>4, <2>5, <2>6, <2>7, <2>8 DEF Link!NodeStep, Link!Node!Receiver
<1>3. ASSUME NEW c \in LinkConns, Link!Dial(c) PROVE LinkTypes'
  BY <1>3, EmptyDomain DEF Link!Dial, Link!Node!Connect
<1>4. ASSUME NEW c \in LinkConns, Link!EstablishedGet(c) PROVE LinkTypes'
  BY <1>4 DEF Link!EstablishedGet
<1>5. ASSUME NEW c \in LinkConns, Link!EstablishedCloseOld(c) PROVE LinkTypes'
  <2>1. CASE found[c] \in alive
    <3>1. <<>> \in Seq(Commands)
      BY EmptyDomain
    <3>2. down' \in [LinkConns -> Seq(Commands)]
      <4>1. down' = [down EXCEPT ![found[c]] = <<>>] /\ down \in [LinkConns -> Seq(Commands)]
        BY <1>5, <2>1 DEF Link!EstablishedCloseOld, Link!Close
      <4> QED
        BY ONLY <3>1, <4>1
    <3>3. Link!Node!TypeOK' /\ ReceiverInv'
      BY <1>5, <2>1, <3>2 DEF Link!EstablishedCloseOld, Link!Close
    <3>4. /\ alive' \subseteq LinkConns /\ session' = session
          /\ found' \in [LinkConns -> LinkConns \cup {NoConn}]
          /\ est' \in [LinkConns -> {"none", "get", "put", "close", "online"}]
          /\ clo' \in [LinkConns -> {"none", "check", "remove", "offline"}]
      BY <1>5, <2>1 DEF Link!EstablishedCloseOld, Link!Close
    <3>5. {online', upset'} \subseteq BOOLEAN /\ req' = req
      BY <1>5, <2>1 DEF Link!EstablishedCloseOld
    <3> QED
      BY <3>3, <3>4, <3>5
  <2>2. CASE found[c] \notin alive
    BY <1>5, <2>2 DEF Link!EstablishedCloseOld
  <2> QED
    BY <2>1, <2>2
<1>15. ASSUME NEW c \in LinkConns, Link!EstablishedPut(c) PROVE LinkTypes'
  BY <1>15 DEF Link!EstablishedPut
<1>6. ASSUME NEW c \in LinkConns, Link!EstablishedOnline(c) PROVE LinkTypes'
  BY <1>6 DEF Link!EstablishedOnline
<1>7. ASSUME NEW c \in LinkConns, Link!Notice(c) PROVE LinkTypes'
  BY <1>7, EmptyDomain DEF Link!Notice, Link!Close
<1>8. ASSUME NEW c \in LinkConns, Link!ClosedCheck(c) PROVE LinkTypes'
  BY <1>8 DEF Link!ClosedCheck
<1>9. ASSUME NEW c \in LinkConns, Link!ClosedRemove(c) PROVE LinkTypes'
  BY <1>9 DEF Link!ClosedRemove
<1>10. ASSUME NEW c \in LinkConns, Link!ClosedOffline(c) PROVE LinkTypes'
  BY <1>10 DEF Link!ClosedOffline
<1>11. ASSUME NEW c \in LinkConns, Link!TakeAnswer(c) PROVE LinkTypes'
  <2> DEFINE k == Head(sending[c])
  <2>1. k \in Commands /\ Tail(sending[c]) \in Seq(Commands)
    BY <1>11, TailDomain DEF Link!TakeAnswer
  <2>2. sending' \in [LinkConns -> Seq(Commands)]
    BY <1>11, <2>1 DEF Link!TakeAnswer
  <2>3. PICK n \in {"new", "check", "drop", "writing", "waiting", "refused", "answered", "timeout"} :
          req' = [req EXCEPT ![k].st = n]
    <3> HIDE DEF k
    <3>1. req' = [req EXCEPT ![k].st = IF req[k].st = "waiting" THEN "answered" ELSE req[k].st]
      BY <1>11 DEF Link!TakeAnswer, k
    <3>2. req[k].st \in {"new", "check", "drop", "writing", "waiting", "refused", "answered", "timeout"}
      BY <2>1
    <3> QED
      BY <3>1, <3>2
  <2> HIDE DEF k
  <2>4. req' \in [Commands -> [st : {"new", "check", "drop", "writing", "waiting", "refused",
                                     "answered", "timeout"}, on : LinkConns \cup {NoConn}]]
    <3>1. req \in [Commands -> [st : {"new", "check", "drop", "writing", "waiting", "refused",
                                     "answered", "timeout"}, on : LinkConns \cup {NoConn}]]
      OBVIOUS
    <3> QED
      BY ONLY <2>1, <2>3, <3>1
  <2> QED
    BY <1>11, <2>2, <2>4 DEF Link!TakeAnswer
<1>12. ASSUME NEW k \in Commands, Link!SendGet(k) \/ Link!SendCheck(k) \/ Link!SendDrop(k)
       PROVE  LinkTypes'
  <2>1. /\ req \in [Commands -> [st : {"new", "check", "drop", "writing", "waiting", "refused",
                                     "answered", "timeout"}, on : LinkConns \cup {NoConn}]]
        /\ session \in LinkConns \cup {NoConn}
    OBVIOUS
  <2>2. req' \in [Commands -> [st : {"new", "check", "drop", "writing", "waiting", "refused",
                                     "answered", "timeout"}, on : LinkConns \cup {NoConn}]]
    <3>1. CASE Link!SendGet(k)
      BY ONLY <2>1, <3>1 DEF Link!SendGet
    <3>2. CASE Link!SendCheck(k)
      BY ONLY <2>1, <3>2 DEF Link!SendCheck
    <3>3. CASE Link!SendDrop(k)
      BY ONLY <2>1, <3>3 DEF Link!SendDrop
    <3> QED
      BY <1>12, <3>1, <3>2, <3>3
  <2> QED
    BY <1>12, <2>2 DEF Link!SendGet, Link!SendCheck, Link!SendDrop
<1>13. ASSUME NEW k \in Commands, Link!Write(k) PROVE LinkTypes'
  <2>1. req' \in [Commands -> [st : {"new", "check", "drop", "writing", "waiting", "refused",
                                     "answered", "timeout"}, on : LinkConns \cup {NoConn}]]
    BY <1>13 DEF Link!Write
  <2>2. CASE Link!Node!Deliver(req[k].on, k) /\ UNCHANGED session
    <3>1. \A c \in LinkConns : Append(down[c], k) \in Seq(Commands)
      BY AppendDomain
    <3>2. down' \in [LinkConns -> Seq(Commands)]
      BY <2>2, <3>1 DEF Link!Node!Deliver
    <3> QED
      BY <1>13, <2>1, <2>2, <3>2 DEF Link!Write, Link!Node!Deliver
  <2>3. CASE ~(Link!Node!Deliver(req[k].on, k) /\ UNCHANGED session)
    BY <1>13, <2>1, <2>3 DEF Link!Write
  <2> QED
    BY <2>2, <2>3
<1>14. ASSUME NEW k \in Commands, Link!Timeout(k) PROVE LinkTypes'
  <2>1. req' = [req EXCEPT ![k].st = "timeout"]
    BY <1>14 DEF Link!Timeout
  <2>2. req \in [Commands -> [st : {"new", "check", "drop", "writing", "waiting", "refused",
                                   "answered", "timeout"}, on : LinkConns \cup {NoConn}]]
    OBVIOUS
  <2>3. req' \in [Commands -> [st : {"new", "check", "drop", "writing", "waiting", "refused",
                                    "answered", "timeout"}, on : LinkConns \cup {NoConn}]]
    BY ONLY <2>1, <2>2
  <2> QED
    BY <1>14, <2>3 DEF Link!Timeout
<1> QED BY <1>1, <1>2, <1>3, <1>4, <1>5, <1>6, <1>7, <1>8, <1>9, <1>10, <1>11, <1>12, <1>13,
           <1>14, <1>15 DEF Link!Next

-----------------------------------------------------------------------------
(* The master's session.                                                   *)

(* A connection that works and that is in its place, unless the handler of *)
(* a newer one has replaced it and is about to close it.                   *)
Replaced(c) == \E d \in LinkConns : est[d] = "close" /\ found[d] = c
Settling(c) == c \in works /\ est[c] \notin {"get", "put"} /\ ~Replaced(c)

MasterInv ==
    /\ works \subseteq alive
    /\ \A c \in LinkConns : clo[c] # "none" => c \notin alive
    /\ ~upset => \A c \in LinkConns :
          /\ Settling(c) => session = c
          /\ Settling(c) /\ est[c] = "none" => online

(* What send_msg is about to drop because of a closed session stays closed. *)
DropInv == \A k \in Commands : req[k].st = "drop" => req[k].on \notin alive

LEMMA DropInvInit == Link!Init => DropInv
<1> QED BY DEF Link!Init, DropInv

LEMMA DropInvKept ==
    ASSUME DropInv, alive' \subseteq alive, UNCHANGED req
    PROVE  DropInv'
<1> QED BY DEF DropInv

LEMMA DropInvNext == LinkTypes /\ DropInv /\ [Link!Next]_linkVars => DropInv'
<1> SUFFICES ASSUME LinkTypes, DropInv, [Link!Next]_linkVars PROVE DropInv'
  OBVIOUS
<1> USE DEF LinkTypes, Link!TypeOK, Link!handlerVars, Link!masterVars
<1>1. CASE UNCHANGED linkVars \/ Link!NodeStep
  BY <1>1, DropInvKept DEF linkVars, Link!NodeStep
<1>2. ASSUME NEW c \in LinkConns, Link!Dial(c) PROVE DropInv'
  BY <1>2 DEF Link!Dial, Link!Forgotten, DropInv
<1>3. ASSUME NEW c \in LinkConns,
             \/ Link!EstablishedGet(c) \/ Link!EstablishedPut(c) \/ Link!EstablishedCloseOld(c)
             \/ Link!EstablishedOnline(c) \/ Link!Notice(c) \/ Link!ClosedCheck(c)
             \/ Link!ClosedRemove(c) \/ Link!ClosedOffline(c)
      PROVE  DropInv'
  <2>1. req' = req
    BY <1>3 DEF Link!EstablishedGet, Link!EstablishedPut, Link!EstablishedCloseOld,
                Link!EstablishedOnline, Link!Notice, Link!ClosedCheck, Link!ClosedRemove,
                Link!ClosedOffline
  <2>2. alive' \subseteq alive
    BY <1>3 DEF Link!EstablishedGet, Link!EstablishedPut, Link!EstablishedCloseOld,
                Link!EstablishedOnline, Link!Notice, Link!ClosedCheck, Link!ClosedRemove,
                Link!ClosedOffline, Link!Close
  <2> QED
    BY <2>1, <2>2, DropInvKept
<1>4. ASSUME NEW c \in LinkConns, Link!TakeAnswer(c) PROVE DropInv'
  <2>1. PICK k : req' = [req EXCEPT ![k].st = IF @ = "waiting" THEN "answered" ELSE @]
    BY <1>4 DEF Link!TakeAnswer
  <2>2. alive' = alive
    BY <1>4 DEF Link!TakeAnswer
  <2>3. \A x \in Commands : req'[x].st = "drop" => req[x].st = "drop" /\ req'[x].on = req[x].on
    BY <2>1
  <2> QED
    BY <2>2, <2>3 DEF DropInv
<1>5. ASSUME NEW k \in Commands,
             \/ Link!SendGet(k) \/ Link!SendCheck(k) \/ Link!SendDrop(k)
             \/ Link!Write(k) \/ Link!Timeout(k)
      PROVE  DropInv'
  BY <1>5 DEF Link!SendGet, Link!SendCheck, Link!SendDrop, Link!Write, Link!Timeout, DropInv
<1> QED
  BY <1>1, <1>2, <1>3, <1>4, <1>5 DEF Link!Next

LEMMA MasterInvInit == Link!Init => MasterInv
<1> QED BY DEF Link!Init, Link!Node!Init, MasterInv, Settling

(* A step that leaves the master's variables alone and makes no connection *)
(* work keeps it.                                                          *)
LEMMA MasterInvKept ==
    ASSUME MasterInv, works' \subseteq works, UNCHANGED Link!handlerVars
    PROVE  MasterInv'
<1> QED BY DEF MasterInv, Settling, Replaced, Link!handlerVars

LEMMA MasterInvNode ==
    ASSUME LinkTypes, MasterInv, Link!NodeStep
    PROVE  MasterInv'
<1> USE DEF Link!Node!wireVars
<1>1. UNCHANGED Link!handlerVars
  BY DEF Link!NodeStep, Link!masterVars
<1>2. works' \subseteq works
  <2>1. CASE Link!Node!TryAgain
    BY <2>1 DEF Link!Node!TryAgain
  <2>2. CASE Link!Node!StopReporting
    BY <2>2 DEF Link!Node!StopReporting
  <2>3. ASSUME NEW r \in Receivers, Link!Node!StartReceiver(r) PROVE works' = works
    BY <2>3 DEF Link!Node!StartReceiver
  <2>4. ASSUME NEW r \in Receivers, Link!Node!Receiver(r) PROVE works' = works
    BY <2>4 DEF Link!Node!Receiver, Link!Node!Receive, Link!Node!Execute, Link!Node!Answer,
                Link!Node!ReadError
  <2>5. ASSUME NEW c \in LinkConns, Link!Node!Lose(c) PROVE works' \subseteq works
    BY <2>5 DEF Link!Node!Lose
  <2> QED
    BY <2>1, <2>2, <2>3, <2>4, <2>5 DEF Link!NodeStep
<1> QED
  BY <1>1, <1>2, MasterInvKept

LEMMA MasterInvEstablished ==
    ASSUME LinkTypes, MasterInv, NEW c \in LinkConns,
           \/ Link!Dial(c) \/ Link!EstablishedGet(c)
           \/ Link!EstablishedPut(c) \/ Link!EstablishedCloseOld(c) \/ Link!EstablishedOnline(c)
    PROVE  MasterInv'
<1> USE LinkAssumption DEF Link!Node!ReporterAssumption, LinkTypes, Link!TypeOK, Link!nodeVars, Link!nodeSide
<1>1. CASE Link!Dial(c)
  BY <1>1 DEF Link!Dial, Link!Forgotten, Link!Node!Connect, MasterInv, Settling, Replaced
<1>2. CASE Link!EstablishedGet(c)
  BY <1>2 DEF Link!EstablishedGet, MasterInv, Settling, Replaced
<1>3. CASE Link!EstablishedPut(c)
  <2>1. /\ session' = c /\ est' = [est EXCEPT ![c] = "close"]
        /\ UNCHANGED <<online, alive, works, clo, found>>
        /\ upset' = (upset \/ session \notin {NoConn, found[c]})
    BY <1>3 DEF Link!EstablishedPut
  <2>2. ASSUME NEW d \in LinkConns, Replaced(d)
        PROVE  Replaced(d)'
    BY <1>3, <2>1, <2>2 DEF Replaced, Link!EstablishedPut
  <2>3. ASSUME ~upset', NEW d \in LinkConns, d # c, Settling(d)' PROVE FALSE
    <3>1. Settling(d)
      BY <2>1, <2>2, <2>3 DEF Settling
    <3>2. d = found[c]
      BY <2>1, <2>3, <3>1 DEF MasterInv
    <3>3. Replaced(d)'
      BY <2>1, <3>2 DEF Replaced
    <3> QED
      BY <2>3, <3>3 DEF Settling
  <2>4. est'[c] = "close"
    BY <2>1
  <2> QED
    BY <2>1, <2>3, <2>4 DEF MasterInv
<1>4. CASE Link!EstablishedOnline(c)
  BY <1>4 DEF Link!EstablishedOnline, MasterInv, Settling, Replaced
<1>5. CASE Link!EstablishedCloseOld(c)
  <2>1. /\ est' = [est EXCEPT ![c] = "online"] /\ found' = [found EXCEPT ![c] = NoConn]
        /\ est[c] = "close" /\ UNCHANGED <<session, online, upset>>
    BY <1>5 DEF Link!EstablishedCloseOld
  <2>2. /\ works' \subseteq works /\ found[c] \notin works'
        /\ works' \subseteq alive' /\ \A d \in LinkConns : clo'[d] # "none" => d \notin alive'
    <3>1. CASE found[c] \in alive
      BY <1>5, <3>1 DEF Link!EstablishedCloseOld, Link!Close, MasterInv
    <3>2. CASE found[c] \notin alive
      BY <1>5, <3>2 DEF Link!EstablishedCloseOld, MasterInv
    <3> QED
      BY <3>1, <3>2
  <2>3. ASSUME NEW d \in LinkConns, Settling(d)'
        PROVE  Settling(d) /\ (est'[d] = "none" => est[d] = "none")
    <3>1. d # found[c] /\ d \in works
      BY <2>2, <2>3 DEF Settling
    <3>2. Replaced(d) => Replaced(d)'
      BY <2>1, <3>1 DEF Replaced
    <3> QED
      BY <2>1, <2>3, <3>1, <3>2 DEF Settling
  <2> QED
    BY <2>1, <2>2, <2>3 DEF MasterInv
<1> QED
  BY <1>1, <1>2, <1>3, <1>4, <1>5

LEMMA MasterInvClosed ==
    ASSUME LinkTypes, MasterInv, NEW c \in LinkConns,
           \/ Link!Notice(c) \/ Link!ClosedCheck(c)
           \/ Link!ClosedRemove(c) \/ Link!ClosedOffline(c)
    PROVE  MasterInv'
<1> USE LinkAssumption DEF Link!Node!ReporterAssumption, LinkTypes, Link!TypeOK, Link!nodeVars, Link!nodeSide
<1>1. CASE Link!Notice(c)
  BY <1>1 DEF Link!Notice, Link!Close, MasterInv, Settling, Replaced
<1>2. CASE Link!ClosedCheck(c)
  BY <1>2 DEF Link!ClosedCheck, MasterInv, Settling, Replaced
<1>3. CASE Link!ClosedRemove(c)
  BY <1>3 DEF Link!ClosedRemove, MasterInv, Settling, Replaced
<1>4. CASE Link!ClosedOffline(c)
  BY <1>4 DEF Link!ClosedOffline, MasterInv, Settling, Replaced
<1> QED
  BY <1>1, <1>2, <1>3, <1>4

LEMMA MasterInvCommand ==
    ASSUME LinkTypes, MasterInv, DropInv, NEW k \in Commands,
           \/ Link!SendGet(k) \/ Link!SendCheck(k) \/ Link!SendDrop(k)
           \/ Link!Write(k) \/ Link!Timeout(k)
    PROVE  MasterInv'
<1> USE DEF LinkTypes, Link!TypeOK, Link!nodeVars
<1>1. UNCHANGED <<alive, online, est, found, clo>> /\ works' = works /\ (upset => upset')
  BY DEF Link!SendGet, Link!SendCheck, Link!SendDrop, Link!Write, Link!Timeout, Link!handlerVars,
         Link!Node!Deliver
<1>2. session' = session \/ session \notin works \/ upset'
  <2>1. CASE Link!SendDrop(k)
    <3>1. req[k].on \notin works
      BY <2>1 DEF Link!SendDrop, MasterInv, DropInv
    <3>2. session \in {NoConn, req[k].on} \/ upset'
      BY <2>1 DEF Link!SendDrop
    <3>3. NoConn \notin works
      BY LinkAssumption DEF Link!Node!ReporterAssumption, Link!Node!TypeOK
    <3> QED
      BY <3>1, <3>2, <3>3
  <2>2. CASE Link!Write(k)
    BY <2>2 DEF Link!Write
  <2>3. CASE Link!SendGet(k) \/ Link!SendCheck(k) \/ Link!Timeout(k)
    BY <2>3 DEF Link!SendGet, Link!SendCheck, Link!Timeout, Link!handlerVars
  <2> QED
    BY <2>1, <2>2, <2>3
<1> QED
  BY <1>1, <1>2 DEF MasterInv, Settling, Replaced

LEMMA MasterInvNext == LinkTypes /\ MasterInv /\ DropInv /\ [Link!Next]_linkVars => MasterInv'
<1> SUFFICES ASSUME LinkTypes, MasterInv, DropInv, [Link!Next]_linkVars PROVE MasterInv'
  OBVIOUS
<1>1. CASE UNCHANGED linkVars
  BY <1>1, MasterInvKept DEF linkVars, Link!handlerVars
<1>2. ASSUME NEW c \in LinkConns, Link!TakeAnswer(c) PROVE MasterInv'
  BY <1>2, MasterInvKept DEF Link!TakeAnswer
<1> QED
  BY <1>1, <1>2, MasterInvNode, MasterInvEstablished, MasterInvClosed, MasterInvCommand
     DEF Link!Next

-----------------------------------------------------------------------------
(* The commands.                                                           *)

NotSent == {"new", "check", "drop", "writing", "refused"}

(* A command on its way to the node has not been executed, and is nowhere  *)
(* else on its way; one whose answer is on its way back has.               *)
Toward ==
    /\ \A c \in LinkConns : \A i \in DOMAIN down[c] :
          executed[down[c][i]] = 0 /\ req[down[c][i]].st \notin NotSent
    /\ \A c, d \in LinkConns : \A i \in DOMAIN down[c], j \in DOMAIN down[d] :
          down[c][i] = down[d][j] => c = d /\ i = j
Back ==
    /\ \A c \in LinkConns : \A i \in DOMAIN sending[c] : executed[sending[c][i]] = 1
    /\ \A r \in Receivers : recv[r].pc = "answer" => executed[recv[r].cmd] = 1
Counted ==
    \A k \in Commands :
       /\ executed[k] \in {0, 1}
       /\ req[k].st = "answered" => executed[k] = 1
       /\ req[k].st \in NotSent => executed[k] = 0

CommandInv == Toward /\ Back /\ Counted

LEMMA CommandInvInit == Link!Init => CommandInv
<1> QED
  BY EmptyDomain DEF Link!Init, Link!Node!Init, Link!Node!Gone, CommandInv, Toward, Back, Counted,
                     NotSent

(* Queues that are kept or emptied keep it, as long as no command is       *)
(* executed and no receiver takes one.                                     *)
LEMMA QueuesKept ==
    ASSUME CommandInv, UNCHANGED <<executed, req>>,
           \A c \in LinkConns : down'[c] \in {down[c], <<>>} /\ sending'[c] \in {sending[c], <<>>},
           \A r \in Receivers : recv'[r].pc = "answer" => recv'[r] = recv[r]
    PROVE  CommandInv'
<1>1. \A c \in LinkConns : /\ \A i \in DOMAIN down'[c] : i \in DOMAIN down[c] /\ down'[c][i] = down[c][i]
                           /\ \A i \in DOMAIN sending'[c] : i \in DOMAIN sending[c]
                                                         /\ sending'[c][i] = sending[c][i]
  BY EmptyDomain
<1>2. Toward'
  BY ONLY CommandInv, UNCHANGED <<executed, req>>, <1>1 DEF CommandInv, Toward
<1>3. Back'
  BY <1>1 DEF CommandInv, Back
<1>4. Counted'
  BY DEF CommandInv, Counted
<1> QED
  BY <1>2, <1>3, <1>4 DEF CommandInv

LEMMA CommandInvExecute ==
    ASSUME LinkTypes, CommandInv, NEW r \in Receivers, Link!Node!Execute(r), UNCHANGED req
    PROVE  CommandInv'
<1> DEFINE c == recv[r].on
           k == Head(down[c])
<1>1. c \in LinkConns /\ down[c] \in Seq(Commands) /\ down[c] # <<>>
  BY DEF Link!Node!Execute, LinkTypes, ReceiverInv, Link!TypeOK, Link!Node!TypeOK
<1>2. /\ 1 \in DOMAIN down[c] /\ k = down[c][1] /\ k \in Commands
      /\ \A i \in DOMAIN Tail(down[c]) :
            i + 1 \in DOMAIN down[c] /\ Tail(down[c])[i] = down[c][i + 1] /\ i + 1 # 1
      /\ \A i, j \in DOMAIN Tail(down[c]) : i + 1 = j + 1 => i = j
  BY <1>1, TailDomain
<1>3. /\ down' = [down EXCEPT ![c] = Tail(down[c])]
      /\ executed' = [executed EXCEPT ![k] = executed[k] + 1]
      /\ recv' = [recv EXCEPT ![r] = [pc |-> "answer", on |-> NoConn, cmd |-> k]]
      /\ UNCHANGED <<sending, req>>
  BY DEF Link!Node!Execute
<1>4. /\ down \in [LinkConns -> Seq(Commands)] /\ executed \in [Commands -> Nat]
      /\ recv \in [Receivers -> [pc : {"gone", "top", "read", "answer"},
                               on : LinkConns \cup {NoConn}, cmd : Commands \cup {NoConn}]]
  BY DEF LinkTypes, Link!TypeOK, Link!Node!TypeOK
<1>5. executed[k] = 0 /\ executed'[k] = 1 /\ req[k].st \notin NotSent
  BY <1>1, <1>2, <1>3, <1>4 DEF CommandInv, Toward
<1> HIDE DEF c, k
<1>6. Toward'
  <2>1. ASSUME NEW d \in LinkConns, NEW i \in DOMAIN down'[d]
        PROVE  \E j \in DOMAIN down[d] : /\ down'[d][i] = down[d][j]
                                         /\ d = c => j = i + 1 /\ j # 1
                                         /\ d # c => j = i
    <3>1. CASE d = c
      BY <1>2, <1>3, <1>4, <2>1, <3>1
    <3>2. CASE d # c
      BY <1>3, <1>4, <2>1, <3>2
    <3> QED
      BY <3>1, <3>2
  <2>2. ASSUME NEW d \in LinkConns, NEW i \in DOMAIN down'[d]
        PROVE  executed'[down'[d][i]] = 0 /\ req'[down'[d][i]].st \notin NotSent
    <3>1. PICK j \in DOMAIN down[d] : /\ down'[d][i] = down[d][j]
                                      /\ d = c => j # 1
      BY <2>1, <2>2
    <3>2. down[d][j] # k
      BY <1>1, <1>2, <3>1 DEF CommandInv, Toward
    <3> QED
      BY <1>3, <1>4, <3>1, <3>2 DEF CommandInv, Toward
  <2>3. ASSUME NEW d \in LinkConns, NEW e \in LinkConns,
               NEW i \in DOMAIN down'[d], NEW j \in DOMAIN down'[e], down'[d][i] = down'[e][j]
        PROVE  d = e /\ i = j
    <3>1. PICK x \in DOMAIN down[d] : /\ down'[d][i] = down[d][x]
                                      /\ d = c => x = i + 1
                                      /\ d # c => x = i
      BY <2>1, <2>3
    <3>2. PICK y \in DOMAIN down[e] : /\ down'[e][j] = down[e][y]
                                      /\ e = c => y = j + 1
                                      /\ e # c => y = j
      BY <2>1, <2>3
    <3>3. d = e /\ x = y
      <4>1. down[d][x] = down[e][y]
        BY <2>3, <3>1, <3>2
      <4> QED
        BY ONLY <4>1, CommandInv, d \in LinkConns, e \in LinkConns, x \in DOMAIN down[d],
                y \in DOMAIN down[e] DEF CommandInv, Toward
    <3>4. CASE d = c
      <4>1. i \in DOMAIN Tail(down[c]) /\ j \in DOMAIN Tail(down[c])
        BY <1>1, <1>3, <1>4, <2>3, <3>3, <3>4
      <4> QED
        BY <1>2, <3>1, <3>2, <3>3, <3>4, <4>1
    <3>5. CASE d # c
      BY <3>1, <3>2, <3>3, <3>5
    <3> QED
      BY <3>4, <3>5
  <2> QED
    BY <2>2, <2>3 DEF Toward
<1>7. Back'
  <2>1. \A x \in Commands : executed[x] = 1 => executed'[x] = 1
    BY <1>3, <1>4, <1>5
  <2>2. ASSUME NEW d \in LinkConns, NEW i \in DOMAIN sending[d]
        PROVE  sending[d][i] \in Commands
    <3>1. sending[d] \in Seq(Commands)
      BY DEF LinkTypes, Link!TypeOK, Link!Node!TypeOK
    <3> QED
      BY <3>1, <2>2, ElementOfSeq, LenProperties
  <2>3. \A q \in Receivers : recv[q].pc = "answer" => recv[q].cmd \in Commands
    BY DEF LinkTypes, ReceiverInv
  <2> QED
    BY <1>3, <1>4, <1>5, <2>1, <2>2, <2>3 DEF CommandInv, Back
<1>8. Counted'
  BY <1>3, <1>4, <1>5 DEF CommandInv, Counted
<1> QED
  BY <1>6, <1>7, <1>8 DEF CommandInv

LEMMA CommandInvAnswer ==
    ASSUME LinkTypes, CommandInv, NEW r \in Receivers, Link!Node!Answer(r), UNCHANGED req
    PROVE  CommandInv'
<1>1. UNCHANGED <<down, executed, req>> /\ recv[r].pc = "answer"
  BY DEF Link!Node!Answer
<1>2. recv[r].cmd \in Commands /\ executed[recv[r].cmd] = 1
  BY <1>1 DEF LinkTypes, ReceiverInv, CommandInv, Back
<1>3. \/ sending' = sending
      \/ sending' = [sending EXCEPT ![conn] = Append(@, recv[r].cmd)]
  BY DEF Link!Node!Answer
<1>4. \A q \in Receivers : recv'[q].pc = "answer" => recv'[q] = recv[q]
  BY DEF Link!Node!Answer, LinkTypes, Link!TypeOK, Link!Node!TypeOK
<1>5. sending \in [LinkConns -> Seq(Commands)]
  BY DEF LinkTypes, Link!TypeOK, Link!Node!TypeOK
<1>6. \A c \in LinkConns : \A i \in DOMAIN Append(sending[c], recv[r].cmd) :
         \/ i \in DOMAIN sending[c] /\ Append(sending[c], recv[r].cmd)[i] = sending[c][i]
         \/ Append(sending[c], recv[r].cmd)[i] = recv[r].cmd
  BY <1>2, <1>5, AppendDomain
<1>7. \A c \in LinkConns : \A i \in DOMAIN sending'[c] : executed[sending'[c][i]] = 1
  <2>1. CASE sending' = sending
    BY <2>1 DEF CommandInv, Back
  <2>2. CASE sending' = [sending EXCEPT ![conn] = Append(@, recv[r].cmd)]
    <3>1. \A c \in LinkConns : \/ sending'[c] = sending[c]
                                 \/ sending'[c] = Append(sending[c], recv[r].cmd)
      BY ONLY <1>5, <2>2
    <3> QED
      BY <1>2, <1>6, <3>1 DEF CommandInv, Back
  <2> QED
    BY <1>3, <2>1, <2>2
<1> QED
  BY <1>1, <1>4, <1>7 DEF CommandInv, Toward, Back, Counted

LEMMA CommandInvNode ==
    ASSUME LinkTypes, CommandInv, Link!NodeStep
    PROVE  CommandInv'
<1> USE DEF Link!Node!wireVars
<1>1. UNCHANGED req
  BY DEF Link!NodeStep, Link!masterVars
<1>2. CASE Link!Node!TryAgain \/ Link!Node!StopReporting
  BY <1>1, <1>2, QueuesKept DEF Link!Node!TryAgain, Link!Node!StopReporting
<1>3. ASSUME NEW r \in Receivers,
             Link!Node!StartReceiver(r) \/ Link!Node!Receive(r) \/ Link!Node!ReadError(r)
      PROVE  CommandInv'
  <2>1. UNCHANGED <<executed, down, sending>>
    BY <1>3 DEF Link!Node!StartReceiver, Link!Node!Receive, Link!Node!ReadError
  <2>2. PICK n : recv' = [recv EXCEPT ![r] = n] /\ n.pc # "answer"
    <3>1. recv[r] \in [pc : {"gone", "top", "read", "answer"},
                       on : LinkConns \cup {NoConn}, cmd : Commands \cup {NoConn}]
      BY DEF LinkTypes, Link!TypeOK, Link!Node!TypeOK
    <3>2. CASE Link!Node!StartReceiver(r)
      <4>1. [recv[r] EXCEPT !.pc = "top"].pc # "answer"
        BY <3>1
      <4> QED
        BY <3>2, <4>1 DEF Link!Node!StartReceiver
    <3>3. CASE Link!Node!Receive(r)
      <4>1. [recv[r] EXCEPT !.pc = "read", !.on = conn].pc # "answer" /\ Link!Node!Gone.pc # "answer"
        BY <3>1 DEF Link!Node!Gone
      <4>2. \/ recv' = [recv EXCEPT ![r] = [recv[r] EXCEPT !.pc = "read", !.on = conn]]
            \/ recv' = [recv EXCEPT ![r] = Link!Node!Gone]
        BY <3>3 DEF Link!Node!Receive
      <4> QED
        BY <4>1, <4>2
    <3>4. CASE Link!Node!ReadError(r)
      <4>1. Link!Node!Gone.pc # "answer" /\ recv' = [recv EXCEPT ![r] = Link!Node!Gone]
        BY <3>4 DEF Link!Node!ReadError, Link!Node!Gone
      <4> QED
        BY <4>1
    <3> QED
      BY <1>3, <3>2, <3>3, <3>4
  <2>3. \A q \in Receivers : recv'[q].pc = "answer" => recv'[q] = recv[q]
    BY <2>2 DEF LinkTypes, Link!TypeOK, Link!Node!TypeOK
  <2> QED
    BY <1>1, <2>1, <2>3, QueuesKept
<1>4. ASSUME NEW c \in LinkConns, Link!Node!Lose(c) PROVE CommandInv'
  <2>1. /\ down' = [down EXCEPT ![c] = <<>>] /\ sending' = [sending EXCEPT ![c] = <<>>]
        /\ UNCHANGED <<executed, recv>>
    BY <1>4 DEF Link!Node!Lose, Link!Node!nodeVars
  <2>2. down \in [LinkConns -> Seq(Commands)] /\ sending \in [LinkConns -> Seq(Commands)]
    BY DEF LinkTypes, Link!TypeOK, Link!Node!TypeOK
  <2>3. \A d \in LinkConns : down'[d] \in {down[d], <<>>} /\ sending'[d] \in {sending[d], <<>>}
    BY <2>1, <2>2
  <2> QED
    BY <1>1, <2>1, <2>3, QueuesKept
<1> QED
  BY <1>1, <1>2, <1>3, <1>4, CommandInvExecute, CommandInvAnswer DEF Link!NodeStep, Link!Node!Receiver

(* The master's handlers may empty a queue, and touch no command.          *)
LEMMA CommandInvHandlers ==
    ASSUME LinkTypes, CommandInv, NEW c \in LinkConns,
           \/ Link!Dial(c) \/ Link!EstablishedGet(c) \/ Link!EstablishedPut(c)
           \/ Link!EstablishedCloseOld(c)
           \/ Link!EstablishedOnline(c) \/ Link!Notice(c) \/ Link!ClosedCheck(c)
           \/ Link!ClosedRemove(c) \/ Link!ClosedOffline(c)
    PROVE  CommandInv'
<1> USE DEF Link!nodeVars, Link!nodeSide
<1>1. UNCHANGED <<executed, req, recv>>
  BY DEF Link!Dial, Link!EstablishedGet, Link!EstablishedPut, Link!EstablishedCloseOld,
         Link!EstablishedOnline, Link!Notice, Link!ClosedCheck, Link!ClosedRemove, Link!ClosedOffline, Link!Node!Connect
<1>2. /\ \/ down' = down \/ \E d : down' = [down EXCEPT ![d] = <<>>]
      /\ \/ sending' = sending \/ \E d : sending' = [sending EXCEPT ![d] = <<>>]
  <2>1. CASE Link!Dial(c)
    BY <2>1 DEF Link!Dial, Link!Node!Connect
  <2>2. CASE Link!EstablishedCloseOld(c)
    BY <2>2 DEF Link!EstablishedCloseOld, Link!Close
  <2>3. CASE Link!Notice(c)
    BY <2>3 DEF Link!Notice, Link!Close
  <2>4. CASE \/ Link!EstablishedGet(c) \/ Link!EstablishedPut(c) \/ Link!EstablishedOnline(c)
             \/ Link!ClosedCheck(c) \/ Link!ClosedRemove(c) \/ Link!ClosedOffline(c)
    BY <2>4 DEF Link!EstablishedGet, Link!EstablishedPut, Link!EstablishedOnline, Link!ClosedCheck, Link!ClosedRemove,
                Link!ClosedOffline
  <2> QED
    BY <2>1, <2>2, <2>3, <2>4
<1>3. down \in [LinkConns -> Seq(Commands)] /\ sending \in [LinkConns -> Seq(Commands)]
  BY DEF LinkTypes, Link!TypeOK, Link!Node!TypeOK
<1>4. \A d \in LinkConns : down'[d] \in {down[d], <<>>} /\ sending'[d] \in {sending[d], <<>>}
  BY <1>2, <1>3
<1> QED
  BY <1>1, <1>4, QueuesKept

LEMMA CommandInvTakeAnswer ==
    ASSUME LinkTypes, CommandInv, NEW c \in LinkConns, Link!TakeAnswer(c)
    PROVE  CommandInv'
<1> DEFINE k == Head(sending[c])
           s == IF req[k].st = "waiting" THEN "answered" ELSE req[k].st
<1>1. /\ sending[c] # <<>> /\ sending' = [sending EXCEPT ![c] = Tail(sending[c])]
      /\ req' = [req EXCEPT ![k].st = s]
      /\ UNCHANGED <<down, executed, recv>>
  BY DEF Link!TakeAnswer, Link!nodeSide
<1>2. sending \in [LinkConns -> Seq(Commands)]
  BY DEF LinkTypes, Link!TypeOK, Link!Node!TypeOK
<1>3. /\ k \in Commands /\ k = sending[c][1] /\ 1 \in DOMAIN sending[c]
      /\ \A i \in DOMAIN Tail(sending[c]) :
            i + 1 \in DOMAIN sending[c] /\ Tail(sending[c])[i] = sending[c][i + 1]
  BY <1>1, <1>2, TailDomain
<1>4. executed[k] = 1
  BY <1>3 DEF CommandInv, Back
<1>5. req[k].st \notin NotSent /\ s \notin NotSent
  BY <1>3, <1>4 DEF CommandInv, Counted, NotSent
<1>6. req \in [Commands -> [st : {"new", "check", "drop", "writing", "waiting", "refused",
                                   "answered", "timeout"}, on : LinkConns \cup {NoConn}]]
  BY DEF LinkTypes, Link!TypeOK
<1> HIDE DEF k, s
<1>7. \A x \in Commands : req'[x].st = IF x = k THEN s ELSE req[x].st
  BY <1>1, <1>3, <1>6
<1>8. Back'
  BY <1>1, <1>2, <1>3 DEF CommandInv, Back
<1>9. Counted'
  BY <1>1, <1>4, <1>5, <1>7 DEF CommandInv, Counted
<1>10. Toward'
  <2>1. \A d \in LinkConns : \A i \in DOMAIN down[d] : down[d][i] \in Commands
    <3>1. down \in [LinkConns -> Seq(Commands)]
      BY DEF LinkTypes, Link!TypeOK, Link!Node!TypeOK
    <3> QED
      BY <3>1, ElementOfSeq, LenProperties
  <2> QED
    BY <1>1, <1>5, <1>7, <2>1 DEF CommandInv, Toward
<1> QED
  BY <1>8, <1>9, <1>10 DEF CommandInv

(* A request that changes its state, but is not delivered.                 *)
LEMMA CommandInvRequest ==
    ASSUME LinkTypes, CommandInv, NEW k \in Commands, UNCHANGED <<down, sending, executed, recv>>,
           LinkTypes', \A x \in Commands : x # k => req'[x] = req[x],
           req'[k].st # "answered", req'[k].st \in NotSent => req[k].st \in NotSent
    PROVE  CommandInv'
<1>1. \A d \in LinkConns : \A i \in DOMAIN down[d] : down[d][i] \in Commands
  <2>1. down \in [LinkConns -> Seq(Commands)]
    BY DEF LinkTypes, Link!TypeOK, Link!Node!TypeOK
  <2> QED
    BY <2>1, ElementOfSeq, LenProperties
<1>2. Toward'
  BY <1>1 DEF CommandInv, Toward
<1>3. Counted'
  BY DEF CommandInv, Counted
<1> QED
  BY <1>2, <1>3 DEF CommandInv, Back

LEMMA CommandInvSend ==
    ASSUME LinkTypes, LinkTypes', CommandInv, NEW k \in Commands,
           Link!SendGet(k) \/ Link!SendCheck(k) \/ Link!SendDrop(k) \/ Link!Timeout(k)
    PROVE  CommandInv'
<1>1. req \in [Commands -> [st : {"new", "check", "drop", "writing", "waiting", "refused",
                                   "answered", "timeout"}, on : LinkConns \cup {NoConn}]]
  BY DEF LinkTypes, Link!TypeOK
<1>2. UNCHANGED <<down, sending, executed, recv>>
  BY DEF Link!SendGet, Link!SendCheck, Link!SendDrop, Link!Timeout, Link!nodeVars, Link!nodeSide
<1>3. CASE Link!SendGet(k) \/ Link!SendCheck(k) \/ Link!SendDrop(k)
  <2>1. req[k].st \in {"new", "check", "drop"}
    BY <1>3 DEF Link!SendGet, Link!SendCheck, Link!SendDrop
  <2>2. PICK n : req' = [req EXCEPT ![k] = n] /\ n.st \in NotSent
    <3>1. \A t : [req[k] EXCEPT !.st = t].st = t
      BY <1>1
    <3>2. CASE Link!SendCheck(k)
      <4>1. PICK t \in {"writing", "drop"} : req' = [req EXCEPT ![k] = [req[k] EXCEPT !.st = t]]
        BY <3>2 DEF Link!SendCheck
      <4> QED
        BY <3>1, <4>1 DEF NotSent
    <3>3. CASE Link!SendGet(k)
      <4>1. PICK t \in {"refused", "check"} : req' = [req EXCEPT ![k] = [st |-> t, on |-> session]]
        BY <3>3 DEF Link!SendGet
      <4>2. PICK m : m = [st |-> t, on |-> session]
        OBVIOUS
      <4>3. m.st \in NotSent
        BY <4>2 DEF NotSent
      <4> QED
        BY <4>1, <4>2, <4>3
    <3>4. CASE Link!SendDrop(k)
      <4>1. PICK m : m = [st |-> "refused", on |-> NoConn]
        OBVIOUS
      <4>2. m.st \in NotSent
        BY <4>1 DEF NotSent
      <4> QED
        BY <3>4, <4>1, <4>2 DEF Link!SendDrop
    <3> QED
      BY <1>3, <3>2, <3>3, <3>4
  <2> QED
    BY <1>1, <1>2, <2>1, <2>2, CommandInvRequest DEF NotSent
<1>4. CASE Link!Timeout(k)
  <2>1. req' = [req EXCEPT ![k].st = "timeout"]
    BY <1>4 DEF Link!Timeout
  <2> QED
    BY <1>1, <1>2, <2>1, CommandInvRequest DEF NotSent
<1> QED
  BY <1>3, <1>4

LEMMA CommandInvWrite ==
    ASSUME LinkTypes, LinkTypes', CommandInv, NEW k \in Commands, Link!Write(k)
    PROVE  CommandInv'
<1> DEFINE c == req[k].on
<1>1. /\ req \in [Commands -> [st : {"new", "check", "drop", "writing", "waiting", "refused",
                                   "answered", "timeout"}, on : LinkConns \cup {NoConn}]]
      /\ down \in [LinkConns -> Seq(Commands)]
  BY DEF LinkTypes, Link!TypeOK, Link!Node!TypeOK
<1>2. /\ req[k].st = "writing" /\ req' = [req EXCEPT ![k] = [st |-> "waiting", on |-> NoConn]]
      /\ UNCHANGED <<sending, executed, recv>>
  BY DEF Link!Write, Link!nodeVars, Link!nodeSide, Link!Node!Deliver, Link!Node!nodeVars
<1>3. /\ \A x \in Commands : x # k => req'[x] = req[x]
      /\ req'[k].st = "waiting"
  BY <1>1, <1>2
<1>4. CASE down' = down
  BY <1>2, <1>3, <1>4, CommandInvRequest DEF NotSent
<1>5. CASE down' = [down EXCEPT ![c] = Append(down[c], k)] /\ c \in LinkConns
  <2>1. \A i \in DOMAIN Append(down[c], k) :
           \/ i \in DOMAIN down[c] /\ Append(down[c], k)[i] = down[c][i]
           \/ i = Len(down[c]) + 1 /\ Append(down[c], k)[i] = k
    BY <1>1, <1>5, AppendDomain
  <2>2. ASSUME NEW d \in LinkConns, NEW i \in DOMAIN down'[d]
        PROVE  \/ i \in DOMAIN down[d] /\ down'[d][i] = down[d][i]
               \/ d = c /\ i = Len(down[c]) + 1 /\ down'[d][i] = k
    BY <1>1, <1>5, <2>1, <2>2
  <2>3. executed[k] = 0 /\ \A d \in LinkConns : \A i \in DOMAIN down[d] : down[d][i] # k
    BY <1>2 DEF CommandInv, Counted, Toward, NotSent
  <2>4. \A d \in LinkConns : \A i \in DOMAIN down[d] : down[d][i] \in Commands
    BY <1>1, ElementOfSeq, LenProperties
  <2> HIDE DEF c
  <2>5. Toward'
    <3>1. ASSUME NEW d \in LinkConns, NEW i \in DOMAIN down'[d]
          PROVE  executed'[down'[d][i]] = 0 /\ req'[down'[d][i]].st \notin NotSent
      BY <1>2, <1>3, <2>2, <2>3, <2>4, <3>1 DEF CommandInv, Toward, NotSent
    <3>2. ASSUME NEW d \in LinkConns, NEW e \in LinkConns,
                 NEW i \in DOMAIN down'[d], NEW j \in DOMAIN down'[e], down'[d][i] = down'[e][j]
          PROVE  d = e /\ i = j
      BY <2>2, <2>3, <3>2 DEF CommandInv, Toward
    <3> QED
      BY <3>1, <3>2 DEF Toward
  <2>6. Counted'
    BY <1>2, <1>3 DEF CommandInv, Counted, NotSent
  <2> QED
    BY <1>2, <2>5, <2>6 DEF CommandInv, Back
<1> QED
  BY <1>4, <1>5 DEF Link!Write, Link!Node!Deliver, Link!nodeVars, LinkTypes, Link!TypeOK, Link!Node!TypeOK

LEMMA CommandInvNext ==
    LinkTypes /\ LinkTypes' /\ CommandInv /\ [Link!Next]_linkVars => CommandInv'
<1> SUFFICES ASSUME LinkTypes, LinkTypes', CommandInv, [Link!Next]_linkVars PROVE CommandInv'
  OBVIOUS
<1>1. CASE UNCHANGED linkVars
  BY <1>1, QueuesKept DEF linkVars
<1> QED
  BY <1>1, CommandInvNode, CommandInvHandlers, CommandInvTakeAnswer, CommandInvSend, CommandInvWrite
     DEF Link!Next

-----------------------------------------------------------------------------
LinkInv == LinkTypes /\ MasterInv /\ DropInv /\ CommandInv

LEMMA LinkInvInit == Link!Init => LinkInv
<1> QED BY LinkTypesInit, MasterInvInit, DropInvInit, CommandInvInit DEF LinkInv

LEMMA LinkInvNext == LinkInv /\ [Link!Next]_linkVars => LinkInv'
<1> QED BY LinkTypesNext, MasterInvNext, DropInvNext, CommandInvNext DEF LinkInv

LEMMA LinkInvIsRight == LinkInv => Link!TypeOK /\ Link!SettledIsReachable /\ Link!ExecutedOnce
<1> SUFFICES ASSUME LinkInv PROVE Link!SettledIsReachable /\ Link!ExecutedOnce
  BY DEF LinkInv, LinkTypes
<1>1. Link!SettledIsReachable
  <2> SUFFICES ASSUME Link!Settled, ~upset PROVE session = conn /\ online
    BY DEF Link!SettledIsReachable
  <2>1. conn \in LinkConns
    BY DEF Link!Settled, LinkInv, LinkTypes, Link!TypeOK, Link!Node!TypeOK
  <2> QED
    BY <2>1 DEF Link!Settled, LinkInv, MasterInv, Settling, Replaced
<1>2. Link!ExecutedOnce
  BY DEF LinkInv, CommandInv, Counted, NotSent, Link!ExecutedOnce
<1> QED
  BY <1>1, <1>2

(* In all behaviours of a node's reporter and the master's handlers, the   *)
(* settled session is the node's connection, and no command runs twice.    *)
THEOREM CommandsRunOnce == Link!Spec => [](Link!SettledIsReachable /\ Link!ExecutedOnce)
<1>1. [Link!Next]_(Link!vars) <=> [Link!Next]_linkVars
  BY DEF Link!vars, Link!nodeVars, Link!nodeSide, Link!masterVars, Link!handlerVars, linkVars
<1> QED
  BY <1>1, LinkInvInit, LinkInvNext, LinkInvIsRight, PTL DEF Link!Spec

-----------------------------------------------------------------------------
LEMMA BothInvInit == MCInit => VisitInv /\ LinkInv
<1> QED
  BY InitVisitInv, LinkInvInit DEF MCInit

LEMMA BothInvNext == VisitInv /\ LinkInv /\ [MCNext]_<<part, vars, linkVars>> => (VisitInv /\ LinkInv)'
<1>1. [MCNext]_<<part, vars, linkVars>> => [Next]_vars /\ [Link!Next]_linkVars
  BY DEF MCNext
<1> QED
  BY <1>1, NextVisitInv, LinkInvNext

(* The variables of the tunnels and those of the link keep their types.    *)
THEOREM BothPartsTypes == MCSpec => []TypesOK
<1>1. VisitInv /\ LinkInv => TypesOK
  BY LinkInvIsRight DEF VisitInv, TypesOK
<1> QED
  BY <1>1, BothInvInit, BothInvNext, PTL DEF MCSpec

(* The same beside the tunnels: the master's session of a settled node is  *)
(* the node's connection, its status says online, and no command that      *)
(* send_msg writes is executed twice.                                      *)
THEOREM LinkStaysRight == MCSpec => []LinkIsRight
<1>1. LinkInv => LinkIsRight
  BY LinkInvIsRight DEF LinkIsRight
<1> QED
  BY <1>1, BothInvInit, BothInvNext, PTL DEF MCSpec
=============================================================================
