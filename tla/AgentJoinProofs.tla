-------------------------- MODULE AgentJoinProofs --------------------------
(***************************************************************************)
(* JoinInv is inductive for every set of servers, machines and             *)
(* connections.  The argument turns on join_token_used_at: the first join  *)
(* sets it, no statement of the registry clears it, and the UPDATE of      *)
(* joinAgent requires that it is not set.                                  *)
(***************************************************************************)
EXTENDS AgentJoin, TLAPS

(* An idle connection satisfies what IssueInv asks of requests.             *)
LEMMA IdleFacts ==
    /\ Idle \in Requests
    /\ Idle.op = "none" /\ Idle.phase = "idle"
  BY DEF Idle, Requests, Null

LEMMA InitJoin == Init => JoinInv
<1> SUFFICES ASSUME Init PROVE JoinInv
  OBVIOUS
<1> USE IdleFacts, JoinAssumption DEF Init
<1>1. TypeOK
  BY DEF TypeOK, NoCredential, Null, Keys, Tokens
<1>2. IssueInv
  BY DEF IssueInv, RequestOK, Null, Tokens
<1>3. OwnerInv
  BY DEF OwnerInv, NoCredential, Null, Tokens
<1>4. SingleUse /\ OneOwner /\ JoinedIsLetIn
  BY DEF SingleUse, OneOwner, JoinedIsLetIn, NoCredential
<1> QED BY <1>1, <1>2, <1>3, <1>4 DEF JoinInv

LEMMA CreateServerJoin ==
    ASSUME JoinInv, NEW s \in Servers, CreateServer(s)
    PROVE  JoinInv'
<1> USE JoinAssumption DEF JoinInv, CreateServer, history, RequestOK
<1>1. TypeOK'
  BY DEF TypeOK, Keys, Null
<1>2. IssueInv' /\ OwnerInv'
  BY DEF TypeOK, IssueInv, RequestOK, OwnerInv, Null
<1>3. JoinedIsLetIn'
  BY DEF TypeOK, JoinedIsLetIn, OwnerInv
<1>4. SingleUse' /\ OneOwner'
  BY DEF SingleUse, OneOwner
<1> QED BY <1>1, <1>2, <1>3, <1>4

LEMMA DeleteServerJoin ==
    ASSUME JoinInv, NEW s \in Servers, DeleteServer(s)
    PROVE  JoinInv'
  BY DEF JoinInv, DeleteServer, history, clock, TypeOK, IssueInv, RequestOK, OwnerInv, SingleUse,
         OneOwner, JoinedIsLetIn

LEMMA InstallCommandJoin ==
    ASSUME JoinInv, NEW s \in Servers, InstallCommand(s)
    PROVE  JoinInv'
<1> USE JoinAssumption DEF JoinInv, InstallCommand
<1>1. lastCommand + 1 \in Tokens /\ lastCommand + 1 # Null
  BY DEF TypeOK, Tokens, Null
<1>2. TypeOK'
  BY <1>1 DEF TypeOK
<1>3. \A t \in Tokens : issuedFor[t] # NoServer => issuedFor'[t] = issuedFor[t]
  BY <1>1 DEF TypeOK, IssueInv, Tokens
<1>4. IssueInv'
  <2>1. \A t \in Tokens : t > lastCommand' => issuedFor'[t] = NoServer /\ joins'[t] = 0
    BY <1>1 DEF TypeOK, IssueInv, Tokens
  <2>2. \A q \in Servers : joinToken'[q] # Null => issuedFor'[joinToken'[q]] = q
    BY <1>1, <1>3 DEF TypeOK, IssueInv
  <2>3. \A c \in Conns :
          /\ req[c].token \in Tokens \cup {Null}
          /\ req[c].server \in Servers => req[c].server # NoServer
    BY DEF TypeOK, Requests
  <2> QED BY <1>3, <2>1, <2>2, <2>3 DEF IssueInv, RequestOK
<1>5. OwnerInv'
  BY <1>1, <1>3 DEF TypeOK, OwnerInv, IssueInv
<1>6. SingleUse' /\ OneOwner' /\ JoinedIsLetIn'
  BY DEF SingleUse, OneOwner, JoinedIsLetIn
<1> QED BY <1>2, <1>4, <1>5, <1>6

LEMMA ExpireJoin ==
    ASSUME JoinInv, Expire
    PROVE  JoinInv'
  BY DEF JoinInv, Expire, history, row, TypeOK, IssueInv, RequestOK, OwnerInv, SingleUse, OneOwner,
         JoinedIsLetIn

(* A step that changes one request only preserves JoinInv if the new        *)
(* request is what RequestOK says of it.                                     *)
LEMMA RequestStep ==
    ASSUME JoinInv, NEW c \in Conns, NEW r \in Requests,
           req' = [req EXCEPT ![c] = r],
           UNCHANGED <<row, clock, credential, history>>,
           r.op = "join" => r.caller \in Machines,
           r.op = "join" /\ r.phase = "read" =>
              /\ r.server \in Servers
              /\ r.token # Null /\ r.key # Null
              /\ issuedFor[r.token] = r.server,
           r.op = "rotate" =>
              /\ r.server \in Servers
              /\ r.token # Null => issuedFor[r.token] = r.server
    PROVE  JoinInv'
<1> USE DEF JoinInv, row, clock, history
<1>1. TypeOK'
  BY DEF TypeOK
<1>2. req'[c] = r /\ \A d \in Conns : d # c => req'[d] = req[d]
  BY DEF TypeOK
<1>3. \A d \in Conns : RequestOK(d)'
  BY <1>2 DEF IssueInv, RequestOK
<1>4. IssueInv'
  BY <1>3 DEF IssueInv
<1>5. OwnerInv' /\ SingleUse' /\ OneOwner' /\ JoinedIsLetIn'
  BY DEF OwnerInv, SingleUse, OneOwner, JoinedIsLetIn
<1> QED BY <1>1, <1>4, <1>5

LEMMA StartInstallJoin ==
    ASSUME JoinInv, NEW m \in Machines, NEW c \in Conns, NEW t \in Tokens \cup {Null},
           StartInstall(m, c, t)
    PROVE  JoinInv'
<1> DEFINE r == [Idle EXCEPT !.op = "join", !.phase = "sent", !.caller = m, !.token = t]
<1>1. r \in Requests /\ r.op = "join" /\ r.phase = "sent" /\ r.caller = m
  BY DEF Idle, Requests, Null
<1>2. req' = [req EXCEPT ![c] = r]
  BY DEF StartInstall
<1>3. UNCHANGED <<row, clock, credential, history>>
  BY DEF StartInstall
<1> HIDE DEF r
<1> QED BY <1>1, <1>2, <1>3, RequestStep

LEMMA BackToIdle ==
    ASSUME JoinInv, NEW c \in Conns, req' = [req EXCEPT ![c] = Idle],
           UNCHANGED <<row, clock, credential, history>>
    PROVE  JoinInv'
  BY IdleFacts, RequestStep

LEMMA JoinFindJoin ==
    ASSUME JoinInv, NEW c \in Conns, JoinFind(c)
    PROVE  JoinInv'
<1>1. PICK s \in Servers :
        /\ Matches(s, req[c].token)
        /\ req' = [req EXCEPT ![c] = [@ EXCEPT !.phase = "read", !.server = s,
                                               !.key = apiToken[s]]]
  BY DEF JoinFind
<1> DEFINE r == [req[c] EXCEPT !.phase = "read", !.server = s, !.key = apiToken[s]]
<1>2. req[c] \in Requests /\ req[c].op = "join"
  BY DEF JoinInv, TypeOK, JoinFind
<1>3. /\ r \in Requests /\ r.op = "join" /\ r.phase = "read" /\ r.server = s
      /\ r.key = apiToken[s] /\ r.token = req[c].token /\ r.caller = req[c].caller
  BY <1>2 DEF JoinInv, TypeOK, Requests
<1>4. req' = [req EXCEPT ![c] = r]
  BY <1>1
<1> HIDE DEF r
<1>5. r.caller \in Machines
  BY <1>2, <1>3 DEF JoinInv, IssueInv, RequestOK
<1>6. r.token # Null /\ r.key # Null /\ issuedFor[r.token] = s
  BY <1>1, <1>3 DEF Matches, JoinInv, TypeOK, IssueInv
<1>7. UNCHANGED <<row, clock, credential, history>>
  BY DEF JoinFind
<1> QED BY <1>3, <1>4, <1>5, <1>6, <1>7, RequestStep

LEMMA JoinConsumeJoin ==
    ASSUME JoinInv, NEW c \in Conns, JoinConsume(c)
    PROVE  JoinInv'
<1> USE DEF JoinInv
<1> DEFINE s == req[c].server
           t == req[c].token
           k == req[c].key
           m == req[c].caller
<1>1. /\ s \in Servers /\ t \in Tokens /\ k \in Keys /\ m \in Machines
      /\ issuedFor[t] = s /\ k # Null
  BY DEF JoinConsume, IssueInv, RequestOK, TypeOK, Requests
<1>2. s \in rows /\ ~usedAt[s] /\ joins[t] = 0
  BY <1>1 DEF JoinConsume, StillJoinable, OwnerInv, TypeOK
<1>3. \A n \in Machines : credential[n].server # s
  BY <1>1, <1>2, JoinAssumption DEF OwnerInv
<1>4. /\ apiToken'  = [apiToken EXCEPT ![s] = k]
      /\ joinToken' = [joinToken EXCEPT ![s] = Null]
      /\ usedAt'    = [usedAt EXCEPT ![s] = TRUE]
      /\ joins'     = [joins EXCEPT ![t] = joins[t] + 1]
      /\ req'       = [req EXCEPT ![c] = Idle]
      /\ UNCHANGED <<rows, lastKey, lastCommand, horizon, issuedFor, retired>>
  BY DEF JoinConsume, ConsumedKey, clock
<1>5. \/ /\ credential' = [credential EXCEPT ![m] = [server |-> s, key |-> k]]
         /\ lockedOut' = lockedOut \ {m}
      \/ UNCHANGED <<credential, lockedOut>>
  BY DEF JoinConsume
<1> HIDE DEF s, t, k, m
<1>6. TypeOK'
  BY <1>1, <1>4, <1>5, IdleFacts DEF TypeOK, Null
<1>7. IssueInv'
  <2>1. t <= lastCommand
    BY <1>1, JoinAssumption DEF IssueInv, TypeOK, Tokens
  <2>2. \A d \in Conns : RequestOK(d)'
    BY <1>4, IdleFacts DEF IssueInv, RequestOK, TypeOK
  <2>3. \A u \in Tokens : u > lastCommand' => issuedFor'[u] = NoServer /\ joins'[u] = 0
    BY <1>4, <2>1 DEF IssueInv, TypeOK, Tokens
  <2>4. \A q \in Servers : joinToken'[q] # Null => issuedFor'[joinToken'[q]] = q
    BY <1>4 DEF IssueInv, TypeOK
  <2>5. \A q \in rows' : apiToken'[q] # Null
    BY <1>1, <1>4 DEF IssueInv, TypeOK
  <2> QED BY <2>2, <2>3, <2>4, <2>5 DEF IssueInv
<1>8. OwnerInv'
  <2>1. \A q \in Servers : usedAt[q] => usedAt'[q]
    BY <1>4 DEF TypeOK
  <2>2. usedAt'[s]
    BY <1>1, <1>4 DEF TypeOK
  <2>3. \A u \in Tokens : joins'[u] > 0 => issuedFor'[u] \in Servers /\ usedAt'[issuedFor'[u]]
    BY <1>1, <1>4, <2>1, <2>2 DEF OwnerInv, TypeOK
  <2>4. \A n \in Machines : credential'[n].server # NoServer => usedAt'[credential'[n].server]
    BY <1>1, <1>5, <2>1, <2>2 DEF OwnerInv, TypeOK
  <2>5. \A q \in Servers : usedAt'[q] => apiToken'[q] # Null
    BY <1>1, <1>4 DEF OwnerInv, TypeOK
  <2> QED BY <2>3, <2>4, <2>5 DEF OwnerInv
<1>9. SingleUse'
  BY <1>1, <1>2, <1>4 DEF SingleUse, TypeOK
<1>10. OneOwner'
  BY <1>1, <1>3, <1>5 DEF OneOwner, TypeOK
<1>11. JoinedIsLetIn'
  BY <1>1, <1>3, <1>4, <1>5 DEF JoinedIsLetIn, TypeOK
<1> QED BY <1>6, <1>7, <1>8, <1>9, <1>10, <1>11

LEMMA RotateReadJoin ==
    ASSUME JoinInv, NEW c \in Conns, NEW s \in Servers, RotateRead(c, s)
    PROVE  JoinInv'
<1> DEFINE r == [Idle EXCEPT !.op = "rotate", !.phase = "read", !.server = s,
                             !.token = joinToken[s], !.used = usedAt[s]]
<1>1. r \in Requests /\ r.op = "rotate" /\ r.server = s /\ r.token = joinToken[s]
  BY DEF Idle, Requests, Null, JoinInv, TypeOK
<1>2. req' = [req EXCEPT ![c] = r]
  BY DEF RotateRead
<1>3. UNCHANGED <<row, clock, credential, history>>
  BY DEF RotateRead
<1> HIDE DEF r
<1>4. r.token # Null => issuedFor[r.token] = s
  BY <1>1 DEF JoinInv, IssueInv
<1> QED BY <1>1, <1>2, <1>3, <1>4, RequestStep

LEMMA RotateWriteJoin ==
    ASSUME JoinInv, NEW c \in Conns, RotateWrite(c)
    PROVE  JoinInv'
<1> USE DEF JoinInv
<1> DEFINE s == req[c].server
           t == req[c].token
<1>1. CASE s \in rows /\ lastKey < MaxKeys
  <2>1. /\ s \in Servers /\ t \in Tokens \cup {Null} /\ req[c].used \in BOOLEAN
        /\ t # Null => issuedFor[t] = s
    BY DEF RotateWrite, IssueInv, RequestOK, TypeOK, Requests
  <2>2. /\ lastKey' = lastKey + 1
        /\ apiToken' = [apiToken EXCEPT ![s] = lastKey + 1]
        /\ joinToken' = [joinToken EXCEPT ![s] = IF t = Null THEN joinToken[s] ELSE t]
        /\ usedAt' = [usedAt EXCEPT ![s] = usedAt[s] \/ req[c].used]
        /\ lockedOut' = lockedOut \cup {n \in Machines : credential[n].server = s}
        /\ retired' = [retired EXCEPT ![s] = retired[s] \cup {apiToken[s]}]
        /\ req' = [req EXCEPT ![c] = Idle]
        /\ UNCHANGED <<rows, lastCommand, horizon, credential, issuedFor, joins>>
    BY <1>1 DEF RotateWrite
  <2>3. lastKey + 1 \in Keys /\ lastKey + 1 # Null /\ apiToken[s] \in Keys
    BY <1>1, <2>1, JoinAssumption DEF TypeOK, Keys, Null, IssueInv
  <2> HIDE DEF s, t
  <2>4. TypeOK'
    <3>1. usedAt' \in [Servers -> BOOLEAN]
      BY <2>1, <2>2 DEF TypeOK
    <3>2. retired' \in [Servers -> SUBSET Keys]
      BY <2>1, <2>2, <2>3 DEF TypeOK
    <3>3. joinToken' \in [Servers -> Tokens \cup {Null}]
      BY <2>1, <2>2 DEF TypeOK
    <3>4. lastKey' \in 0..MaxKeys
      BY <1>1, <2>2, JoinAssumption DEF TypeOK
    <3>5. req' \in [Conns -> Requests]
      BY <2>2, IdleFacts DEF TypeOK
    <3>6. apiToken' \in [Servers -> Keys \cup {Null}]
      BY <2>1, <2>2, <2>3 DEF TypeOK
    <3>7. \A q \in rows' : apiToken'[q] # Null
      BY <2>1, <2>2, <2>3 DEF TypeOK
    <3> QED BY <2>2, <3>1, <3>2, <3>3, <3>4, <3>5, <3>6, <3>7 DEF TypeOK
  <2>5. IssueInv'
    <3>1. \A d \in Conns : RequestOK(d)'
      BY <2>2, IdleFacts DEF IssueInv, RequestOK, TypeOK
    <3>2. \A q \in Servers : joinToken'[q] # Null => issuedFor'[joinToken'[q]] = q
      BY <2>1, <2>2 DEF IssueInv, TypeOK
    <3> QED BY <2>2, <3>1, <3>2 DEF IssueInv, TypeOK
  <2>6. OwnerInv'
    <3>1. \A q \in Servers : usedAt[q] => usedAt'[q]
      BY <2>1, <2>2 DEF TypeOK
    <3>2. \A q \in Servers : apiToken[q] # Null => apiToken'[q] # Null
      BY <2>1, <2>2, <2>3 DEF TypeOK
    <3>3. apiToken'[s] # Null
      BY <2>1, <2>2, <2>3 DEF TypeOK
    <3>4. \A q \in Servers : usedAt'[q] => apiToken'[q] # Null
      <4> SUFFICES ASSUME NEW q \in Servers, usedAt'[q], q # s PROVE apiToken'[q] # Null
        BY <3>3
      <4>1. usedAt'[q] = usedAt[q]
        BY <2>2 DEF TypeOK
      <4> QED BY <3>2, <4>1 DEF OwnerInv
    <3>5. \A m \in Machines : credential[m].server \in Servers \cup {NoServer}
      BY DEF TypeOK
    <3> QED BY <2>2, <3>1, <3>4, <3>5 DEF OwnerInv
  <2>7. SingleUse' /\ OneOwner'
    BY <2>2 DEF SingleUse, OneOwner
  <2>8. JoinedIsLetIn'
    BY <2>1, <2>2 DEF JoinedIsLetIn, TypeOK
  <2> QED BY <2>4, <2>5, <2>6, <2>7, <2>8
<1>2. CASE ~(s \in rows /\ lastKey < MaxKeys)
  BY <1>2, BackToIdle DEF RotateWrite, row, clock, history
<1> QED BY <1>1, <1>2

LEMMA UninstallJoin ==
    ASSUME JoinInv, NEW m \in Machines, Uninstall(m)
    PROVE  JoinInv'
<1> USE JoinAssumption DEF JoinInv, Uninstall, row, clock
<1>1. NoCredential \in [server : Servers \cup {NoServer}, key : Keys \cup {Null}]
      /\ NoCredential.server = NoServer
  BY DEF NoCredential
<1>2. TypeOK'
  BY <1>1 DEF TypeOK
<1>3. IssueInv'
  BY DEF IssueInv, RequestOK
<1>4. OwnerInv' /\ SingleUse' /\ OneOwner' /\ JoinedIsLetIn'
  BY <1>1 DEF TypeOK, OwnerInv, SingleUse, OneOwner, JoinedIsLetIn
<1> QED BY <1>2, <1>3, <1>4

LEMMA MasterRestartJoin ==
    ASSUME JoinInv, MasterRestart
    PROVE  JoinInv'
<1> USE IdleFacts DEF JoinInv, MasterRestart, row, clock, history
<1>1. TypeOK' /\ IssueInv'
  BY DEF TypeOK, IssueInv, RequestOK
<1>2. OwnerInv' /\ SingleUse' /\ OneOwner' /\ JoinedIsLetIn'
  BY DEF OwnerInv, SingleUse, OneOwner, JoinedIsLetIn
<1> QED BY <1>1, <1>2

LEMMA NextJoin == JoinInv /\ [Next]_vars => JoinInv'
<1> SUFFICES ASSUME JoinInv, [Next]_vars PROVE JoinInv'
  OBVIOUS
<1>1. ASSUME NEW s \in Servers, CreateServer(s) \/ DeleteServer(s) \/ InstallCommand(s)
      PROVE  JoinInv'
  BY <1>1, CreateServerJoin, DeleteServerJoin, InstallCommandJoin
<1>2. ASSUME NEW c \in Conns, JoinFind(c) \/ JoinConsume(c) \/ RotateWrite(c)
      PROVE  JoinInv'
  BY <1>2, JoinFindJoin, JoinConsumeJoin, RotateWriteJoin
<1>3. ASSUME NEW c \in Conns, JoinRefused(c) \/ JoinTooLate(c)
      PROVE  JoinInv'
  BY <1>3, BackToIdle DEF JoinRefused, JoinTooLate
<1>4. CASE UNCHANGED vars
  <2> USE <1>4 DEF vars, row, clock, history, JoinInv
  <2>1. TypeOK' /\ IssueInv' /\ OwnerInv'
    BY DEF TypeOK, IssueInv, RequestOK, OwnerInv
  <2> QED BY <2>1 DEF SingleUse, OneOwner, JoinedIsLetIn
<1> QED BY <1>1, <1>2, <1>3, <1>4, ExpireJoin, StartInstallJoin, RotateReadJoin,
           UninstallJoin, MasterRestartJoin DEF Next

THEOREM JoinInvariant == Spec => []JoinInv
<1>1. Init => JoinInv
  BY InitJoin
<1>2. JoinInv /\ [Next]_vars => JoinInv'
  BY NextJoin
<1> QED BY <1>1, <1>2, PTL DEF Spec

(* Columns, requests and environment files keep their types.               *)
THEOREM JoinTypeCorrect == Spec => []TypeOK
<1>1. JoinInv => TypeOK
  BY DEF JoinInv
<1> QED BY <1>1, JoinInvariant, PTL

(* A join token is traded once, whatever rotations write back.             *)
THEOREM TokenSingleUse == Spec => []SingleUse
<1>1. JoinInv => SingleUse
  BY DEF JoinInv
<1> QED BY <1>1, JoinInvariant, PTL

(* Two machines never own the same server.                                 *)
THEOREM ServerOneOwner == Spec => []OneOwner
<1>1. JoinInv => OneOwner
  BY DEF JoinInv
<1> QED BY <1>1, JoinInvariant, PTL

(* A join hands out a credential that works until a later rotation.        *)
THEOREM JoinLetsIn == Spec => []JoinedIsLetIn
<1>1. JoinInv => JoinedIsLetIn
  BY DEF JoinInv
<1> QED BY <1>1, JoinInvariant, PTL
=============================================================================
