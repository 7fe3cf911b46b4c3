----------------------------- MODULE AgentJoin -----------------------------
(***************************************************************************)
(* The server registry and the join protocol (ControlServerServiceImpl and *)
(* register_with_join_token of install-agent.sh): how a machine gets the   *)
(* credential that the task engine and the heartbeat authenticate.         *)
(*                                                                         *)
(* The console issues a join command for a server; an installer trades its *)
(* token for the agent token of the server, once.  joinAgent and           *)
(* rotateServerToken read the whole row, and write it in a later           *)
(* statement: no handler runs in a transaction.                            *)
(***************************************************************************)
EXTENDS Naturals, FiniteSets

CONSTANTS
    Servers,     \* ids of control_server
    Machines,    \* machines the installer is run on
    Conns,       \* bound: requests the master handles at one time
    NoServer,    \* the server of a command that was not issued yet
    NoMachine,   \* the caller of a request that no installer makes
    MaxCommands, \* bound: join commands ever issued
    MaxKeys      \* bound: agent tokens ever generated

ASSUME JoinAssumption ==
    /\ NoServer \notin Servers
    /\ NoMachine \notin Machines
    /\ MaxCommands \in Nat
    /\ MaxKeys \in Nat

Tokens == 1..MaxCommands
Keys   == 1..MaxKeys
Null   == 0              \* SQL NULL, and the token of a mistyped command

Requests == [op     : {"none", "join", "rotate"},
             phase  : {"idle", "sent", "read"},
             caller : Machines \cup {NoMachine},
             server : Servers \cup {NoServer},
             token  : Tokens \cup {Null},   \* presented, or read from the row
             key    : Keys \cup {Null},     \* api_token read from the row
             used   : BOOLEAN]              \* join_token_used_at read from the row

Idle == [op |-> "none", phase |-> "idle", caller |-> NoMachine,
         server |-> NoServer, token |-> Null, key |-> Null, used |-> FALSE]

VARIABLES
    rows,        \* servers that have a row
    apiToken,    \* apiToken[s]: column api_token
    joinToken,   \* joinToken[s]: columns join_token and join_token_expires_at
    usedAt,      \* usedAt[s]: column join_token_used_at is not NULL
    lastKey,     \* agent tokens generated so far
    lastCommand, \* join commands issued so far
    horizon,     \* commands 1..horizon are older than JOIN_TOKEN_TTL_MS
    req,         \* req[c]: the request handled on connection c
    credential,  \* credential[m]: server id and agent token in machine m's environment file
    (* History, read by the properties only. *)
    issuedFor,   \* issuedFor[t]: the server command t was issued for
    joins,       \* joins[t]: how often token t was traded for a credential
    lockedOut,   \* machines whose credential a rotation has revoked
    retired      \* retired[s]: agent tokens of s that a rotation has replaced

row     == <<rows, apiToken, joinToken, usedAt>>
clock   == <<lastKey, lastCommand, horizon>>
history == <<issuedFor, joins, lockedOut, retired>>
vars    == <<row, clock, req, credential, history>>

NoCredential == [server |-> NoServer, key |-> Null]

Init ==
    /\ rows       = {}
    /\ apiToken   = [s \in Servers |-> Null]
    /\ joinToken  = [s \in Servers |-> Null]
    /\ usedAt     = [s \in Servers |-> FALSE]
    /\ lastKey = 0 /\ lastCommand = 0 /\ horizon = 0
    /\ req        = [c \in Conns |-> Idle]
    /\ credential = [m \in Machines |-> NoCredential]
    /\ issuedFor  = [t \in Tokens |-> NoServer]
    /\ joins      = [t \in Tokens |-> 0]
    /\ lockedOut  = {}
    /\ retired    = [s \in Servers |-> {}]

-----------------------------------------------------------------------------
(* The registry.                                                             *)

\* createServer: a fresh id, a fresh agent token.
CreateServer(s) ==
    /\ apiToken[s] = Null
    /\ lastKey < MaxKeys
    /\ lastKey' = lastKey + 1
    /\ rows' = rows \cup {s}
    /\ apiToken' = [apiToken EXCEPT ![s] = lastKey + 1]
    /\ UNCHANGED <<joinToken, usedAt, lastCommand, horizon, req, credential, history>>

DeleteServer(s) ==
    /\ s \in rows
    /\ rows' = rows \ {s}
    /\ UNCHANGED <<apiToken, joinToken, usedAt, clock, req, credential, history>>

\* Mutant: the command also clears join_token_used_at, as its code spells out.
InstallCommand_Clears(s) ==
    /\ s \in rows
    /\ lastCommand < MaxCommands
    /\ lastCommand' = lastCommand + 1
    /\ joinToken' = [joinToken EXCEPT ![s] = lastCommand + 1]
    /\ usedAt' = [usedAt EXCEPT ![s] = FALSE]
    /\ issuedFor' = [issuedFor EXCEPT ![lastCommand + 1] = s]
    /\ UNCHANGED <<rows, apiToken, lastKey, horizon, req, credential, joins, lockedOut, retired>>

\* getServerInstallCommand.  updateById skips a field that is null, so
\* setJoinTokenUsedAt(null) leaves the column as it is.
InstallCommand(s) ==
    /\ s \in rows
    /\ lastCommand < MaxCommands
    /\ lastCommand' = lastCommand + 1
    /\ joinToken' = [joinToken EXCEPT ![s] = lastCommand + 1]
    /\ issuedFor' = [issuedFor EXCEPT ![lastCommand + 1] = s]
    /\ UNCHANGED <<rows, apiToken, usedAt, lastKey, horizon, req, credential, joins,
                   lockedOut, retired>>

\* 24 hours after it was issued a command is too old to start a join.
Expire ==
    /\ horizon < lastCommand
    /\ horizon' = horizon + 1
    /\ UNCHANGED <<row, lastKey, lastCommand, req, credential, history>>

-----------------------------------------------------------------------------
(* joinAgent.                                                                *)

\* The installer posts the token once and does not retry.
StartInstall(m, c, t) ==
    /\ req[c] = Idle
    /\ t \in 0..lastCommand
    /\ req' = [req EXCEPT ![c] = [Idle EXCEPT !.op = "join", !.phase = "sent",
                                              !.caller = m, !.token = t]]
    /\ UNCHANGED <<row, clock, credential, history>>

\* findByJoinToken.
Matches(s, t) ==
    s \in rows /\ t # Null /\ joinToken[s] = t /\ ~usedAt[s] /\ t > horizon

JoinFind(c) ==
    /\ req[c].op = "join" /\ req[c].phase = "sent"
    /\ \E s \in Servers :
         /\ Matches(s, req[c].token)
         /\ req' = [req EXCEPT ![c] = [@ EXCEPT !.phase = "read", !.server = s,
                                                !.key = apiToken[s]]]
    /\ UNCHANGED <<row, clock, credential, history>>

JoinRefused(c) ==
    /\ req[c].op = "join" /\ req[c].phase = "sent"
    /\ \A s \in Servers : ~Matches(s, req[c].token)
    /\ req' = [req EXCEPT ![c] = Idle]
    /\ UNCHANGED <<row, clock, credential, history>>

\* Mutant: the UPDATE trusts the row that was read.
StillJoinable_Unchecked(s, t) == s \in rows

\* The WHERE clause of the UPDATE; the time it compares with is the time of
\* the request, so a token that expired meanwhile still passes.
StillJoinable(s, t) == s \in rows /\ joinToken[s] = t /\ ~usedAt[s]

\* Mutant: the UPDATE leaves api_token alone.
ConsumedKey_Kept(c) == apiToken[req[c].server]

\* The agent token that the UPDATE writes: the one that was read.
ConsumedKey(c) == req[c].key

\* The answer reaches the installer, or its one attempt failed meanwhile.
JoinConsume(c) ==
    LET s == req[c].server  t == req[c].token  m == req[c].caller IN
    /\ req[c].op = "join" /\ req[c].phase = "read"
    /\ StillJoinable(s, t)
    /\ apiToken'  = [apiToken EXCEPT ![s] = ConsumedKey(c)]
    /\ joinToken' = [joinToken EXCEPT ![s] = Null]
    /\ usedAt'    = [usedAt EXCEPT ![s] = TRUE]
    /\ joins'     = [joins EXCEPT ![t] = @ + 1]
    /\ \/ /\ credential' = [credential EXCEPT ![m] = [server |-> s, key |-> req[c].key]]
          /\ lockedOut' = lockedOut \ {m}
       \/ UNCHANGED <<credential, lockedOut>>
    /\ req' = [req EXCEPT ![c] = Idle]
    /\ UNCHANGED <<rows, clock, issuedFor, retired>>

JoinTooLate(c) ==
    /\ req[c].op = "join" /\ req[c].phase = "read"
    /\ ~StillJoinable(req[c].server, req[c].token)
    /\ req' = [req EXCEPT ![c] = Idle]
    /\ UNCHANGED <<row, clock, credential, history>>

-----------------------------------------------------------------------------
(* rotateServerToken: read the row, then write every field of it that is not *)
(* null, with a new agent token.                                             *)

RotateRead(c, s) ==
    /\ req[c] = Idle
    /\ s \in rows
    /\ lastKey < MaxKeys
    /\ req' = [req EXCEPT ![c] = [Idle EXCEPT !.op = "rotate", !.phase = "read",
                                              !.server = s, !.token = joinToken[s],
                                              !.used = usedAt[s]]]
    /\ UNCHANGED <<row, clock, credential, history>>

RotateWrite(c) ==
    LET s == req[c].server IN
    /\ req[c].op = "rotate" /\ req[c].phase = "read"
    /\ IF s \in rows /\ lastKey < MaxKeys
       THEN /\ lastKey' = lastKey + 1
            /\ apiToken' = [apiToken EXCEPT ![s] = lastKey + 1]
            /\ joinToken' = [joinToken EXCEPT ![s] = IF req[c].token = Null THEN @
                                                     ELSE req[c].token]
            /\ usedAt' = [usedAt EXCEPT ![s] = @ \/ req[c].used]
            /\ lockedOut' = lockedOut \cup {m \in Machines : credential[m].server = s}
            /\ retired' = [retired EXCEPT ![s] = @ \cup {apiToken[s]}]
       ELSE UNCHANGED <<apiToken, joinToken, usedAt, lastKey, lockedOut, retired>>
    /\ req' = [req EXCEPT ![c] = Idle]
    /\ UNCHANGED <<rows, lastCommand, horizon, credential, issuedFor, joins>>

-----------------------------------------------------------------------------
(* The machine.                                                              *)

\* install-agent.sh uninstall removes the environment file.
Uninstall(m) ==
    /\ credential[m].server # NoServer
    /\ credential' = [credential EXCEPT ![m] = NoCredential]
    /\ lockedOut' = lockedOut \ {m}
    /\ UNCHANGED <<row, clock, req, issuedFor, joins, retired>>

\* The master stops: what its handlers had not written is gone.
MasterRestart ==
    /\ req # [c \in Conns |-> Idle]
    /\ req' = [c \in Conns |-> Idle]
    /\ UNCHANGED <<row, clock, credential, history>>

Next ==
    \/ \E s \in Servers : CreateServer(s) \/ DeleteServer(s) \/ InstallCommand(s)
    \/ Expire
    \/ \E m \in Machines, c \in Conns, t \in Tokens \cup {Null} : StartInstall(m, c, t)
    \/ \E c \in Conns : \/ JoinFind(c) \/ JoinRefused(c) \/ JoinConsume(c) \/ JoinTooLate(c)
                        \/ RotateWrite(c)
    \/ \E c \in Conns, s \in Servers : RotateRead(c, s)
    \/ \E m \in Machines : Uninstall(m)
    \/ MasterRestart

Spec == Init /\ [][Next]_vars

-----------------------------------------------------------------------------
(* Properties.                                                               *)

TypeOK ==
    /\ rows        \subseteq Servers
    /\ apiToken    \in [Servers -> Keys \cup {Null}]
    /\ \A s \in rows : apiToken[s] # Null
    /\ joinToken   \in [Servers -> Tokens \cup {Null}]
    /\ usedAt      \in [Servers -> BOOLEAN]
    /\ lastKey     \in 0..MaxKeys
    /\ lastCommand \in 0..MaxCommands
    /\ horizon     \in 0..lastCommand
    /\ req         \in [Conns -> Requests]
    /\ credential  \in [Machines -> [server : Servers \cup {NoServer}, key : Keys \cup {Null}]]
    /\ issuedFor   \in [Tokens -> Servers \cup {NoServer}]
    /\ joins       \in [Tokens -> Nat]
    /\ lockedOut   \subseteq Machines
    /\ retired     \in [Servers -> SUBSET Keys]

\* A join token admits one join, although a rotation may write a token that
\* was consumed meanwhile back into its row.
SingleUse == \A t \in Tokens : joins[t] <= 1

\* Two machines never hold credentials of the same server: the task engine's
\* agents of one server are copies of one installation.
OneOwner ==
    \A m, n \in Machines :
        credential[m].server # NoServer /\ credential[m].server = credential[n].server => m = n

\* Whoever joined is let in until a rotation that ends after the join, or the
\* deletion of the server, however joins and rotations overlap.
JoinedIsLetIn ==
    \A m \in Machines :
        credential[m].server \in rows /\ m \notin lockedOut
            => credential[m].key = apiToken[credential[m].server]

(* The parts that make the invariants above inductive.                       *)

\* What the handler of request c knows: a token is issued for one server and
\* stays with it.
RequestOK(c) ==
    /\ req[c].op = "join" => req[c].caller \in Machines
    /\ req[c].op = "join" /\ req[c].phase = "read" =>
         /\ req[c].server \in Servers
         /\ req[c].token # Null /\ req[c].key # Null
         /\ issuedFor[req[c].token] = req[c].server
    /\ req[c].op = "rotate" =>
         /\ req[c].server \in Servers
         /\ req[c].token # Null => issuedFor[req[c].token] = req[c].server

IssueInv ==
    /\ \A t \in Tokens : t > lastCommand => issuedFor[t] = NoServer /\ joins[t] = 0
    /\ \A s \in Servers : joinToken[s] # Null => issuedFor[joinToken[s]] = s
    /\ \A c \in Conns : RequestOK(c)

\* The first join marks the row for good; no credential without a join.
OwnerInv ==
    /\ \A t \in Tokens : joins[t] > 0 => issuedFor[t] \in Servers /\ usedAt[issuedFor[t]]
    /\ \A m \in Machines : credential[m].server # NoServer => usedAt[credential[m].server]
    /\ \A s \in Servers : usedAt[s] => apiToken[s] # Null

JoinInv == TypeOK /\ IssueInv /\ OwnerInv /\ SingleUse /\ OneOwner /\ JoinedIsLetIn

-----------------------------------------------------------------------------
(* What the console says, and what the code does not keep.                   *)

\* The newest command of a server, not yet used and not yet a day old.
Fresh(t) ==
    /\ t \in Tokens /\ issuedFor[t] \in rows
    /\ t > horizon /\ joins[t] = 0
    /\ \A u \in Tokens : issuedFor[u] = issuedFor[t] => u <= t

\* A fresh join command is not refused.
FreshCommandWorks == [][\A c \in Conns : JoinRefused(c) => ~Fresh(req[c].token)]_vars

\* An agent token that was rotated away does not come back.
RotationSticks == \A s \in rows : apiToken[s] \notin retired[s]
=============================================================================
