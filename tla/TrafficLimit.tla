---------------------------- MODULE TrafficLimit ----------------------------
(***************************************************************************)
(* The traffic limiter of a node (limiter/traffic) in one direction: the   *)
(* limits are reloaded from their sources while connections read or write  *)
(* through limiters that they have looked up and keep for a while.         *)
(*                                                                         *)
(* A limiter is an object whose limit a reload may set.  The service has   *)
(* one, each connection one ("$$"), each host one, taken from the entry of *)
(* the host or of its network.                                             *)
(***************************************************************************)
EXTENDS Integers, Sequences, FiniteSets, FiniteSetsExt

CONSTANTS
    Conns,       \* connections of one host, all to the same service
    Limiters,    \* identities of limiter objects
    None,        \* no limiter
    Values,      \* limits; 0 is none
    Setups,      \* the limiters looked at, see setup
    Sources,     \* what the sources say at first
    Buf,         \* size of the buffer a reader passes
    Unlimited,   \* larger than everything
    MaxBytes,    \* bound: bytes (or packets) of a connection
    MaxChanges   \* bound: changes of the sources

Keys == {"service", "conn", "host", "net"}
Kinds == {"local", "grpc", "http"}
Uses == {"conn", "readwriter", "packet", "udp"}

TrafficAssumption ==
    /\ Values \subseteq Nat /\ 0 \in Values
    /\ None \notin Limiters
    /\ \E l, m \in Limiters : l # m
    /\ Setups \subseteq [kind : Kinds, scope : {"service", "conn"}, dir : {"in", "out"},
                          use : Uses, slow : BOOLEAN]
    /\ Sources \subseteq [Keys -> Values]
    /\ {Buf, MaxBytes, MaxChanges} \subseteq Nat /\ Buf > 0
    /\ Unlimited \in Nat /\ Unlimited > Buf + MaxBytes

VARIABLES
    setup,     \* [kind, scope, dir, use, slow] of this limiter
    source,    \* the limits in the sources
    changed,   \* history: the keys whose limit has changed
    toggled,   \* history: those that had no limit before or after a change
    changes,
    limit,     \* limiter object -> its limit
    service,   \* inLimits["$"]
    connLims,  \* connInLimits: connection -> limiter
    hostLim,   \* inLimits[host]
    generator, \* the limit of new connections
    ranger,    \* the limit of the network
    reload,    \* the reload under way
    looking,   \* connection -> its look-up
    cached,    \* connection -> the group of limiters it uses
    sent,      \* connection -> bytes taken from the socket (or given to it)
    rbuf,      \* connection -> bytes read and held back
    got        \* connection -> bytes handed on

limits == <<service, connLims, hostLim, generator, ranger>>
vars == <<setup, source, changed, toggled, changes, limit, service, connLims, hostLim, generator,
          ranger, reload, looking, cached, sent, rbuf, got>>

NoReload == [pc |-> "idle", values |-> [k \in Keys |-> 0], old |-> 0]
NoLook == [pc |-> "idle", lims |-> <<>>]

Init ==
    /\ setup \in Setups
    /\ source \in Sources
    /\ changed = {} /\ toggled = {} /\ changes = 0
    /\ \E l, m \in Limiters :
         LET n == source["host"] IN
         /\ l = (CHOOSE x \in Limiters : TRUE)
         /\ m = (CHOOSE x \in Limiters \ {l} : TRUE)
         /\ limit = [x \in Limiters |-> IF x = l THEN source["service"]
                                       ELSE IF x = m THEN n ELSE 0]
         /\ service = IF source["service"] # 0 THEN l ELSE None
         /\ hostLim = IF n # 0 THEN m ELSE None
    /\ connLims = [c \in Conns |-> None]
    /\ generator = IF setup.kind = "local" THEN source["conn"] ELSE 0
    /\ ranger = IF setup.kind = "local" THEN source["net"] ELSE 0
    /\ reload = NoReload
    /\ looking = [c \in Conns |-> NoLook]
    /\ cached = [c \in Conns |-> <<>>]
    /\ sent = [c \in Conns |-> 0]
    /\ rbuf = [c \in Conns |-> <<>>]
    /\ got = [c \in Conns |-> <<>>]

Elements(s) == {s[i] : i \in DOMAIN s}
Used == {service, hostLim} \cup {connLims[c] : c \in Conns}
          \cup UNION {Elements(cached[c]) \cup Elements(looking[c].lims) : c \in Conns}
Free == Limiters \ Used
NewLimiter(l, n) == l = (CHOOSE x \in Free : TRUE) /\ limit' = [limit EXCEPT ![l] = n]

-----------------------------------------------------------------------------
(* reload: the service, the generator for connections, the limiters of the *)
(* connections, the hosts, and at last the networks.                       *)
ReloadService ==
    LET n == source["service"] IN
    /\ setup.kind = "local"
    /\ reload.pc = "idle"
    /\ reload' = [NoReload EXCEPT !.pc = "generator", !.values = source]
    /\ IF n = 0 THEN service' = None /\ UNCHANGED limit
       ELSE IF service # None THEN limit' = [limit EXCEPT ![service] = n] /\ UNCHANGED service
       ELSE \E l \in Free : NewLimiter(l, n) /\ service' = l
    /\ UNCHANGED <<setup, source, changed, toggled, changes, connLims, hostLim, generator, ranger,
                   looking, cached, sent, rbuf, got>>

StoreGenerator ==
    /\ reload.pc = "generator"
    /\ generator' = reload.values["conn"]
    /\ reload' = [reload EXCEPT !.pc = "conns", !.old = generator]
    /\ UNCHANGED <<setup, source, changed, toggled, changes, limit, service, connLims, hostLim, ranger,
                   looking, cached, sent, rbuf, got>>

(* A changed limit sets the limiters of the connections to the old one.    *)
SetConns ==
    LET n == reload.values["conn"]
        live == {connLims[c] : c \in Conns} \ {None} IN
    /\ reload.pc = "conns"
    /\ connLims' = IF n = 0 THEN [c \in Conns |-> None] ELSE connLims
    /\ limit' = IF n # 0 /\ reload.old # n /\ ~setup.slow
                THEN [l \in Limiters |-> IF l \in live THEN reload.old ELSE limit[l]]
                ELSE limit
    /\ reload' = [reload EXCEPT !.pc = "hosts"]
    /\ UNCHANGED <<setup, source, changed, toggled, changes, service, hostLim, generator, ranger,
                   looking, cached, sent, rbuf, got>>

(* The limiter of a host that has no entry of its own follows its network. *)
ReloadHosts ==
    LET own == reload.values["host"]
        n == IF own # 0 THEN own ELSE reload.values["net"] IN
    /\ reload.pc = "hosts"
    /\ IF n = 0 THEN hostLim' = None /\ UNCHANGED limit
       ELSE IF hostLim # None THEN limit' = [limit EXCEPT ![hostLim] = n] /\ UNCHANGED hostLim
       ELSE IF own # 0 THEN \E l \in Free : NewLimiter(l, own) /\ hostLim' = l
       ELSE UNCHANGED <<hostLim, limit>>
    /\ reload' = [reload EXCEPT !.pc = "ranger"]
    /\ UNCHANGED <<setup, source, changed, toggled, changes, service, connLims, generator, ranger,
                   looking, cached, sent, rbuf, got>>

StoreRanger ==
    /\ reload.pc = "ranger"
    /\ ranger' = reload.values["net"]
    /\ reload' = NoReload
    /\ UNCHANGED <<setup, source, changed, toggled, changes, limit, service, connLims, hostLim,
                   generator, looking, cached, sent, rbuf, got>>

Change ==
    /\ changes < MaxChanges
    /\ \E k \in Keys, n \in Values :
         /\ n # source[k]
         /\ source' = [source EXCEPT ![k] = n]
         /\ changed' = changed \cup {k}
         /\ toggled' = IF 0 \in {n, source[k]} THEN toggled \cup {k} ELSE toggled
    /\ changes' = changes + 1
    /\ UNCHANGED <<setup, limit, service, connLims, hostLim, generator, ranger, reload,
                   looking, cached, sent, rbuf, got>>

-----------------------------------------------------------------------------
(* trafficLimiter.In and Out, called when what is cached has expired.      *)
Look(c, pc, lims) == looking' = [looking EXCEPT ![c] = [pc |-> pc, lims |-> lims]]

LookService(c) ==
    /\ setup.kind = "local" /\ setup.scope = "service"
    /\ looking[c].pc = "idle"
    /\ Look(c, "done", IF service = None THEN <<>> ELSE <<service>>)
    /\ UNCHANGED <<setup, source, changed, toggled, changes, limit, limits, reload, cached, sent, rbuf,
                   got>>

(* The entry of a connection lives fifteen seconds after its last use: what *)
(* was found is stored again, and a reload may have removed it meanwhile.   *)
LookConn(c) ==
    /\ setup.kind = "local" /\ setup.scope = "conn"
    /\ looking[c].pc = "idle"
    /\ IF connLims[c] # None /\ ~setup.slow
       THEN Look(c, "store", <<connLims[c]>>) /\ UNCHANGED limit
       ELSE IF generator = 0 THEN Look(c, "host", <<>>) /\ UNCHANGED limit
       ELSE \E l \in Free : NewLimiter(l, generator) /\ Look(c, "store", <<l>>)
    /\ UNCHANGED <<setup, source, changed, toggled, changes, limits, reload, cached, sent, rbuf, got>>

StoreConn(c) ==
    /\ looking[c].pc = "store"
    /\ connLims' = [connLims EXCEPT ![c] = looking[c].lims[1]]
    /\ Look(c, "host", looking[c].lims)
    /\ UNCHANGED <<setup, source, changed, toggled, changes, limit, service, hostLim, generator, ranger,
                   reload, cached, sent, rbuf, got>>

LookHost(c) ==
    LET so == looking[c].lims IN
    /\ looking[c].pc = "host"
    /\ IF hostLim # None THEN Look(c, "done", Append(so, hostLim)) /\ UNCHANGED limit
       ELSE IF ranger = 0 THEN Look(c, "done", so) /\ UNCHANGED limit
       ELSE \E l \in Free : NewLimiter(l, ranger) /\ Look(c, "storehost", Append(so, l))
    /\ UNCHANGED <<setup, source, changed, toggled, changes, limits, reload, cached, sent, rbuf, got>>

StoreHost(c) ==
    LET lims == looking[c].lims IN
    /\ looking[c].pc = "storehost"
    /\ hostLim' = lims[Len(lims)]
    /\ Look(c, "done", lims)
    /\ UNCHANGED <<setup, source, changed, toggled, changes, limit, service, connLims, generator, ranger,
                   reload, cached, sent, rbuf, got>>

(* A plugin answers with a limiter of its own each time, also for no limit;*)
(* a call that fails gives none.                                           *)
Expected ==
    LET ip == IF source["host"] # 0 THEN source["host"] ELSE source["net"]
        some == {source["conn"], ip} \ {0} IN
    IF setup.scope = "service" THEN source["service"]
    ELSE IF some = {} THEN 0 ELSE Min(some)

Answer(c) ==
    /\ looking[c].pc = "idle"
    /\ \/ \E l \in Free : NewLimiter(l, Expected) /\ Look(c, "done", <<l>>)
       \/ Look(c, "done", <<>>) /\ UNCHANGED limit
    /\ UNCHANGED <<setup, source, changed, toggled, changes, limits, reload, cached, sent, rbuf, got>>
LookGrpc(c) == setup.kind = "grpc" /\ Answer(c)
LookHttp(c) == setup.kind = "http" /\ Answer(c)

(* newLimiterGroup sorts; Limit is that of the first, Wait gives the least.*)
Sorted(lims) ==
    IF Len(lims) = 2 /\ limit[lims[2]] < limit[lims[1]] THEN <<lims[2], lims[1]>> ELSE lims
GroupLimit(g) == IF g = <<>> THEN 0 ELSE limit[g[1]]
Burst(g) ==
    IF GroupLimit(g) = 0 THEN Unlimited ELSE Min({limit[l] : l \in Elements(g)})

(* cachedTrafficLimiter keeps what it has when the answer is nil or equal. *)
Cache(c) ==
    LET new == Sorted(looking[c].lims) IN
    /\ looking[c].pc = "done"
    /\ cached' = [cached EXCEPT ![c] =
                    IF new = <<>> THEN @
                    ELSE IF @ # <<>> /\ GroupLimit(@) = GroupLimit(new) THEN @ ELSE new]
    /\ looking' = [looking EXCEPT ![c] = NoLook]
    /\ UNCHANGED <<setup, source, changed, toggled, changes, limit, limits, reload, sent, rbuf, got>>

-----------------------------------------------------------------------------
(* limitConn.Read and readWriter.Read: what exceeds the burst is held back *)
(* for the next read, which looks for it only when there is still a limit. *)
Bytes(from, n) == [i \in 1..n |-> from + i]
Least(a, b) == IF a < b THEN a ELSE b

ReadBuffered(c) ==
    LET g == cached[c] IN
    /\ setup.dir = "in"
    /\ looking[c].pc = "idle"
    /\ \/ /\ GroupLimit(g) # 0
          /\ rbuf[c] # <<>>
          /\ LET n == Least(Least(Buf, Len(rbuf[c])), Burst(g)) IN
             /\ got' = [got EXCEPT ![c] = @ \o SubSeq(rbuf[c], 1, n)]
             /\ rbuf' = [rbuf EXCEPT ![c] = SubSeq(@, n + 1, Len(@))]
          /\ UNCHANGED sent
       \/ /\ GroupLimit(g) = 0 \/ rbuf[c] = <<>>
          /\ \E nn \in 1..Buf :
               LET n == Least(nn, Burst(g)) IN
               /\ sent[c] + nn <= MaxBytes
               /\ sent' = [sent EXCEPT ![c] = @ + nn]
               /\ got' = [got EXCEPT ![c] = @ \o Bytes(sent[c], n)]
               /\ rbuf' = [rbuf EXCEPT ![c] = @ \o Bytes(sent[c] + n, nn - n)]
    /\ UNCHANGED <<setup, source, changed, toggled, changes, limit, limits, reload, looking, cached>>

Read(c) == setup.use = "conn" /\ ReadBuffered(c)
ReadWriterRead(c) == setup.use = "readwriter" /\ ReadBuffered(c)

(* limitConn.Write and readWriter.Write: burst by burst until all is out.  *)
WriteBursts(c) ==
    /\ setup.dir = "out"
    /\ looking[c].pc = "idle"
    /\ sent[c] < MaxBytes
    /\ LET n == Least(Least(Buf, MaxBytes - sent[c]), Burst(cached[c])) IN
       /\ sent' = [sent EXCEPT ![c] = @ + n]
       /\ got' = [got EXCEPT ![c] = @ \o Bytes(sent[c], n)]
    /\ UNCHANGED <<setup, source, changed, toggled, changes, limit, limits, reload, looking, cached, rbuf>>

Write(c) == setup.use = "conn" /\ WriteBursts(c)
ReadWriterWrite(c) == setup.use = "readwriter" /\ WriteBursts(c)

(* packetConn and udpConn drop a packet that is larger than the burst.     *)
Packet(c) ==
    /\ looking[c].pc = "idle"
    /\ sent[c] < MaxBytes
    /\ sent' = [sent EXCEPT ![c] = @ + 1]
    /\ \E n \in 1..Buf :
         got' = [got EXCEPT ![c] = IF n <= Burst(cached[c]) THEN Append(@, sent[c] + 1) ELSE @]
    /\ UNCHANGED <<setup, source, changed, toggled, changes, limit, limits, reload, looking, cached, rbuf>>
ReadFrom(c) == setup.use = "packet" /\ setup.dir = "in" /\ Packet(c)
WriteTo(c) == setup.use = "packet" /\ setup.dir = "out" /\ Packet(c)
UdpRead(c) == setup.use = "udp" /\ setup.dir = "in" /\ Packet(c)
UdpWrite(c) == setup.use = "udp" /\ setup.dir = "out" /\ Packet(c)
ReadOrWrite(c) ==
    Read(c) \/ ReadWriterRead(c) \/ Write(c) \/ ReadWriterWrite(c)
        \/ ReadFrom(c) \/ WriteTo(c) \/ UdpRead(c) \/ UdpWrite(c)

Reload == ReloadService \/ StoreGenerator \/ SetConns \/ ReloadHosts \/ StoreRanger
LookLocal(c) ==
    LookService(c) \/ LookConn(c) \/ StoreConn(c) \/ LookHost(c) \/ StoreHost(c)
In(c) == setup.dir = "in" /\ LookLocal(c)
Out(c) == setup.dir = "out" /\ LookLocal(c)
LookUp(c) == In(c) \/ Out(c) \/ LookGrpc(c) \/ LookHttp(c) \/ Cache(c)
Next ==
    \/ Reload
    \/ Change
    \/ \E c \in Conns : LookUp(c) \/ ReadOrWrite(c)

(* The ticker ticks, and connections go on using their limiters.           *)
Fairness == WF_vars(Reload) /\ \A c \in Conns : WF_vars(LookUp(c))
Spec == Init /\ [][Next]_vars /\ Fairness

-----------------------------------------------------------------------------
TypeOK ==
    /\ source \in [Keys -> Values]
    /\ limit \in [Limiters -> Values]
    /\ {service, hostLim} \subseteq Limiters \cup {None}
    /\ \A c \in Conns :
         /\ cached[c] \in Seq(Limiters)
         /\ looking[c].pc \in {"idle", "store", "host", "storehost", "done"}
         /\ rbuf[c] \in Seq(1..MaxBytes)

(* A limiter never changes the order of the bytes of a connection, however *)
(* reloads and look-ups interleave with its reads, as long as no limit of  *)
(* single connections appears or goes (nor any limit of a plugin).         *)
BytesInOrder ==
    \A c \in Conns :
        (/\ setup.use \in {"conn", "readwriter"}
         /\ "conn" \notin toggled
         /\ setup.kind # "local" => toggled = {})
            => got[c] = Bytes(0, Len(got[c]))

InForce ==
    \A c \in Conns :
        (setup.kind = "local" /\ Expected # 0 /\ (setup.slow \/ "conn" \notin changed))
            => Burst(cached[c]) = Expected

(* A new limit reaches the connections that are open: their limiters come  *)
(* to have the limit that the sources say, also that of a host that follows*)
(* its network or that has just stopped to; but for the limit of single    *)
(* connections, when look-ups keep the old limiter alive.                  *)
LimitArrives == <>[]InForce
=============================================================================
