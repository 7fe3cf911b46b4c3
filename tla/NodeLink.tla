------------------------------ MODULE NodeLink ------------------------------
(***************************************************************************)
(* One node and the master's WebSocketServer: the node's reporter, the     *)
(* handlers that keep nodeSessions and the node's status column, and       *)
(* send_msg, which waits for the answer to a command.  The handlers of     *)
(* different sessions run in different threads; each is a sequence of      *)
(* statements.                                                             *)
(***************************************************************************)
EXTENDS Naturals, Sequences, FiniteSets

CONSTANTS Conns, Receivers, Requests, None, MaxLosses

VARIABLES
    conn, connected, main, recv, open, works, down, up, executed, losses,
    alive,      \* the sessions the master has not closed
    session,    \* nodeSessions[node], None when there is none
    online,     \* the node's status column
    est,        \* connection -> step of afterConnectionEstablished
    found,      \* connection -> the session that handler has found
    clo,        \* connection -> step of afterConnectionClosed
    req,        \* request -> [st, on: the session it was given]
    upset       \* history: a handler removed or replaced a session it had not
                \* looked at, or could not write the status of its own

Node == INSTANCE NodeReporter WITH Commands <- Requests

handlerVars == <<alive, session, online, est, found, clo, upset>>
masterVars == <<handlerVars, req>>
nodeSide == <<conn, connected, main, recv, open, executed, losses>>
nodeVars == <<nodeSide, works, down, up>>
vars == <<nodeVars, masterVars>>

Init ==
    /\ Node!Init
    /\ alive = {}
    /\ session = None
    /\ online = FALSE
    /\ est = [c \in Conns |-> "none"]
    /\ found = [c \in Conns |-> None]
    /\ clo = [c \in Conns |-> "none"]
    /\ req = [k \in Requests |-> [st |-> "new", on |-> None]]
    /\ upset = FALSE

-----------------------------------------------------------------------------
(* A dial opens a session; a connection that nothing on the master refers  *)
(* to lends its identity.                                                  *)
Forgotten(c) ==
    /\ c # session /\ est[c] = "none" /\ clo[c] = "none"
    /\ \A d \in Conns : found[d] # c
    /\ \A k \in Requests : req[k].on # c

Dial(c) ==
    /\ Forgotten(c)
    /\ Node!Connect(c)
    /\ alive' = alive \cup {c}
    /\ est' = [est EXCEPT ![c] = "get"]
    /\ UNCHANGED <<session, online, found, clo, req, upset>>

NodeStep ==
    /\ \/ Node!TryAgain \/ Node!StopReporting
       \/ \E r \in Receivers : Node!StartReceiver(r) \/ Node!Receiver(r)
       \/ \E c \in Conns : Node!Lose(c)
    /\ UNCHANGED masterVars

-----------------------------------------------------------------------------
(* afterConnectionEstablished reads the old session, puts the new one in   *)
(* its place, closes the old one and writes the status.                    *)

EstablishedGet(c) ==
    /\ est[c] = "get"
    /\ found' = [found EXCEPT ![c] = session]
    /\ est' = [est EXCEPT ![c] = "put"]
    /\ UNCHANGED <<nodeVars, alive, session, online, clo, req, upset>>

Close(c) ==
    /\ alive' = alive \ {c}
    /\ clo' = [clo EXCEPT ![c] = "check"]
    /\ works' = works \ {c}
    /\ down' = [down EXCEPT ![c] = <<>>]

EstablishedPut(c) ==
    /\ est[c] = "put"
    /\ session' = c
    /\ est' = [est EXCEPT ![c] = "close"]
    /\ upset' = (upset \/ session \notin {None, found[c]})
    /\ UNCHANGED <<nodeVars, alive, online, found, clo, req>>

EstablishedCloseOld(c) ==
    /\ est[c] = "close"
    /\ est' = [est EXCEPT ![c] = "online"]
    /\ found' = [found EXCEPT ![c] = None]
    /\ IF found[c] \in alive THEN Close(found[c])
       ELSE UNCHANGED <<alive, clo, works, down>>
    /\ UNCHANGED <<nodeSide, up, session, online, req, upset>>

(* When the node's row is not found, or the database fails, the node's     *)
(* session is removed, whichever it is by then; its connection stays open. *)
EstablishedOnline(c) ==
    /\ est[c] = "online"
    /\ est' = [est EXCEPT ![c] = "none"]
    /\ \/ online' = TRUE /\ UNCHANGED <<session, upset>>
       \/ session' = None /\ upset' = TRUE /\ online' \in {online, TRUE}
    /\ UNCHANGED <<nodeVars, alive, found, clo, req>>

(* The master notices that the other end is gone, or the network.          *)
Notice(c) ==
    /\ c \in alive \ works
    /\ Close(c)
    /\ UNCHANGED <<nodeSide, up, session, online, est, found, req, upset>>

(* afterConnectionClosed compares the session with the node's, and removes *)
(* the node's session, whichever it is by then, and writes the status; a   *)
(* database that fails is only logged.                                     *)

ClosedCheck(c) ==
    /\ clo[c] = "check"
    /\ clo' = [clo EXCEPT ![c] = IF session = c THEN "remove" ELSE "none"]
    /\ UNCHANGED <<nodeVars, alive, session, online, est, found, req, upset>>

ClosedRemove(c) ==
    /\ clo[c] = "remove"
    /\ session' = None
    /\ upset' = (upset \/ session \notin {None, c})
    /\ clo' = [clo EXCEPT ![c] = "offline"]
    /\ UNCHANGED <<nodeVars, alive, online, est, found, req>>

ClosedOffline(c) ==
    /\ clo[c] = "offline"
    /\ online' \in {online, FALSE}
    /\ upset' = (upset \/ session # None)
    /\ clo' = [clo EXCEPT ![c] = "none"]
    /\ UNCHANGED <<nodeVars, alive, session, est, found, req>>

-----------------------------------------------------------------------------
(* send_msg takes the session and asks it whether it is open.  When it is  *)
(* not, send_msg removes the node's session, whichever it is by then;      *)
(* otherwise it writes the command and waits ten seconds for the answer.   *)

SendGet(k) ==
    /\ req[k].st = "new"
    /\ req' = [req EXCEPT ![k] = [st |-> IF session = None THEN "refused" ELSE "check",
                                  on |-> session]]
    /\ UNCHANGED <<nodeVars, handlerVars>>

SendCheck(k) ==
    /\ req[k].st = "check"
    /\ req' = [req EXCEPT ![k].st = IF req[k].on \in alive THEN "writing" ELSE "drop"]
    /\ UNCHANGED <<nodeVars, handlerVars>>

SendDrop(k) ==
    /\ req[k].st = "drop"
    /\ req' = [req EXCEPT ![k] = [st |-> "refused", on |-> None]]
    /\ session' = None
    /\ upset' = (upset \/ session \notin {None, req[k].on})
    /\ UNCHANGED <<nodeVars, alive, online, est, found, clo>>

(* Mutant: a write that fails removes the node's session, whichever it is. *)
Write_DropsAny(k) ==
    LET c == req[k].on IN
    /\ req[k].st = "writing"
    /\ req' = [req EXCEPT ![k] = [st |-> "waiting", on |-> None]]
    /\ \/ Node!Deliver(c, k) /\ UNCHANGED session
       \/ c \notin works /\ session' \in {session, None} /\ UNCHANGED nodeVars
    /\ UNCHANGED <<alive, online, est, found, clo, upset>>

(* sendToUser: on a connection that does not work the write is lost or     *)
(* fails; a failure, or a session closed meanwhile, removes that session   *)
(* and no other.                                                           *)
Write(k) ==
    LET c == req[k].on IN
    /\ req[k].st = "writing"
    /\ req' = [req EXCEPT ![k] = [st |-> "waiting", on |-> None]]
    /\ \/ Node!Deliver(c, k) /\ UNCHANGED session
       \/ /\ c \notin works
          /\ session' \in {session, IF session = c THEN None ELSE session}
          /\ UNCHANGED nodeVars
    /\ UNCHANGED <<alive, online, est, found, clo, upset>>

(* handleTextMessage: an answer completes its request if it still waits.   *)
TakeAnswer(c) ==
    /\ c \in alive
    /\ up[c] # <<>>
    /\ up' = [up EXCEPT ![c] = Tail(@)]
    /\ req' = [req EXCEPT ![Head(up[c])].st = IF @ = "waiting" THEN "answered" ELSE @]
    /\ UNCHANGED <<nodeSide, works, down, handlerVars>>

Timeout(k) ==
    /\ req[k].st = "waiting"
    /\ req' = [req EXCEPT ![k].st = "timeout"]
    /\ UNCHANGED <<nodeVars, handlerVars>>

-----------------------------------------------------------------------------
Next ==
    \/ NodeStep
    \/ \E c \in Conns :
          \/ Dial(c) \/ EstablishedGet(c) \/ EstablishedPut(c)
          \/ EstablishedCloseOld(c) \/ EstablishedOnline(c)
          \/ Notice(c) \/ ClosedCheck(c) \/ ClosedRemove(c) \/ ClosedOffline(c)
          \/ TakeAnswer(c)
    \/ \E k \in Requests : SendGet(k) \/ SendCheck(k) \/ SendDrop(k) \/ Write(k) \/ Timeout(k)

Spec == Init /\ [][Next]_vars

-----------------------------------------------------------------------------
TypeOK ==
    /\ Node!TypeOK
    /\ alive \subseteq Conns
    /\ session \in Conns \cup {None}
    /\ {online, upset} \subseteq BOOLEAN
    /\ est \in [Conns -> {"none", "get", "put", "close", "online"}]
    /\ found \in [Conns -> Conns \cup {None}]
    /\ clo \in [Conns -> {"none", "check", "remove", "offline"}]
    /\ req \in [Requests -> [st : {"new", "check", "drop", "writing", "waiting", "refused",
                                   "answered", "timeout"}, on : Conns \cup {None}]]

(* When no handler is at work and no session is left to find out that its  *)
(* connection is gone, the master's session of the node is the connection  *)
(* the node reports on, and its status says online; unless a thread has    *)
(* removed or replaced a session that came after it looked, or could not   *)
(* write the status of the session it registered.                          *)
Settled ==
    /\ main = "reporting" /\ connected /\ conn \in works
    /\ \A c \in Conns : est[c] = "none" /\ clo[c] = "none"
    /\ alive \subseteq works

SettledIsReachable == Settled /\ ~upset => session = conn /\ online

(* A request is executed at most once, whatever connections its command    *)
(* and its answer took; one that was answered has been executed, and one   *)
(* that was refused has not and never will be.                             *)
ExecutedOnce ==
    \A k \in Requests :
       /\ executed[k] <= 1
       /\ req[k].st = "answered" => executed[k] = 1
       /\ req[k].st \in {"new", "check", "drop", "writing", "refused"} => executed[k] = 0
=============================================================================
