---------------------------- MODULE NodeReporter ----------------------------
(***************************************************************************)
(* The node's end of the WebSocket to the master (x/socket).               *)
(*                                                                         *)
(* The run loop dials, sends a report every two seconds and dials again    *)
(* when that fails.  Every connection gets a goroutine that receives       *)
(* commands, executes and answers them.  Loop and receivers share w.conn   *)
(* and w.connected.  A connection that stops working tells nobody: its end *)
(* finds out when it reads or writes.                                      *)
(***************************************************************************)
EXTENDS Naturals, Sequences, FiniteSets

CONSTANTS
    Conns,      \* identities of connections, used again when nothing refers to one
    Receivers,  \* identities of receiving goroutines, used again too
    Commands,   \* the commands the master sends
    None,       \* no connection, no command
    MaxLosses   \* bound: connections lost

ReporterAssumption ==
    /\ None \notin Conns \cup Commands
    /\ MaxLosses \in Nat

VARIABLES
    conn,       \* w.conn, None for nil
    connected,  \* w.connected
    main,       \* where the run loop is
    recv,       \* receiver -> [pc, on: the connection it reads, cmd: its command]
    open,       \* the connections the node has not closed
    works,      \* the connections that carry messages
    down, up,   \* connection -> the commands, the answers under way
    executed,   \* history: command -> how often it has been executed
    losses

nodeVars == <<conn, connected, main, recv>>
wireVars == <<works, down, up>>
vars == <<nodeVars, open, wireVars, executed, losses>>

Gone == [pc |-> "gone", on |-> None, cmd |-> None]

Init ==
    /\ conn = None
    /\ connected = FALSE
    /\ main = "top"
    /\ recv = [r \in Receivers |-> Gone]
    /\ open = {}
    /\ works = {}
    /\ down = [c \in Conns |-> <<>>]
    /\ up = [c \in Conns |-> <<>>]
    /\ executed = [k \in Commands |-> 0]
    /\ losses = 0

-----------------------------------------------------------------------------
(* The run loop.                                                           *)

Unreferenced(c) == c # conn /\ \A r \in Receivers : recv[r].on # c

(* connect dials while it holds the mutex.  A connection that w.conn still *)
(* refers to is replaced, not closed.                                      *)
Connect(c) ==
    /\ main = "top"
    /\ ~connected
    /\ Unreferenced(c)
    /\ conn' = c
    /\ connected' = TRUE
    /\ main' = "dialled"
    /\ open' = open \cup {c}
    /\ works' = works \cup {c}
    /\ down' = [down EXCEPT ![c] = <<>>]
    /\ up' = [up EXCEPT ![c] = <<>>]
    /\ UNCHANGED <<recv, executed, losses>>

(* The loop looks at w.connected again: handleConnection starts a receiver *)
(* and reports; otherwise the loop waits and tries to connect again.       *)
StartReceiver(r) ==
    /\ main = "dialled"
    /\ connected
    /\ recv[r] = Gone
    /\ recv' = [recv EXCEPT ![r].pc = "top"]
    /\ main' = "reporting"
    /\ UNCHANGED <<conn, connected, open, wireVars, executed, losses>>

TryAgain ==
    /\ main = "dialled"
    /\ ~connected
    /\ main' = "top"
    /\ UNCHANGED <<conn, connected, recv, open, wireVars, executed, losses>>

(* A tick that finds the flag down, or a report that cannot be written,    *)
(* ends handleConnection, which closes the connection and forgets it.      *)
StopReporting ==
    /\ main = "reporting"
    /\ ~connected \/ conn \notin works
    /\ open' = open \ {conn}
    /\ works' = works \ {conn}
    /\ conn' = None
    /\ connected' = FALSE
    /\ main' = "top"
    /\ UNCHANGED <<recv, down, up, executed, losses>>

-----------------------------------------------------------------------------
(* The receivers.  Each round reads w.conn again, so a receiver whose      *)
(* command outlives its connection goes on with the next one.              *)

Receive(r) ==
    /\ recv[r].pc = "top"
    /\ recv' = [recv EXCEPT ![r] = IF conn = None \/ ~connected THEN Gone
                                   ELSE [@ EXCEPT !.pc = "read", !.on = conn]]
    /\ UNCHANGED <<conn, connected, main, open, wireVars, executed, losses>>

Execute(r) ==
    LET c == recv[r].on IN
    /\ recv[r].pc = "read"
    /\ c \in open
    /\ down[c] # <<>>
    /\ recv' = [recv EXCEPT ![r] = [pc |-> "answer", on |-> None, cmd |-> Head(down[c])]]
    /\ down' = [down EXCEPT ![c] = Tail(@)]
    /\ executed' = [executed EXCEPT ![Head(down[c])] = @ + 1]
    /\ UNCHANGED <<conn, connected, main, open, works, up, losses>>

(* The answer goes to whatever connection there is by now, or nowhere.  On *)
(* one that does not work the write is lost or fails.                      *)
Answer(r) ==
    /\ recv[r].pc = "answer"
    /\ recv' = [recv EXCEPT ![r] = [Gone EXCEPT !.pc = "top"]]
    /\ \/ /\ connected /\ conn \in works
          /\ up' = [up EXCEPT ![conn] = Append(@, recv[r].cmd)]
          /\ UNCHANGED connected
       \/ /\ connected /\ conn \notin works
          /\ connected' \in BOOLEAN
          /\ UNCHANGED up
       \/ ~connected /\ UNCHANGED <<connected, up>>
    /\ UNCHANGED <<conn, main, open, works, down, executed, losses>>

(* A failed read marks the reporter as disconnected, whatever its current  *)
(* connection is.  Two goroutines that read one connection disturb each    *)
(* other.                                                                  *)
ReadError(r) ==
    /\ recv[r].pc = "read"
    /\ \/ recv[r].on \notin works
       \/ \E q \in Receivers \ {r} : recv[q].on = recv[r].on
    /\ recv' = [recv EXCEPT ![r] = Gone]
    /\ connected' = FALSE
    /\ UNCHANGED <<conn, main, open, wireVars, executed, losses>>

-----------------------------------------------------------------------------
(* What the master and the network do to a connection.                     *)

Deliver(c, k) ==
    /\ c \in works
    /\ down' = [down EXCEPT ![c] = Append(@, k)]
    /\ UNCHANGED <<nodeVars, open, works, up, executed, losses>>

Lose(c) ==
    /\ c \in works
    /\ losses < MaxLosses
    /\ losses' = losses + 1
    /\ works' = works \ {c}
    /\ down' = [down EXCEPT ![c] = <<>>]
    /\ up' = [up EXCEPT ![c] = <<>>]
    /\ UNCHANGED <<nodeVars, open, executed>>

-----------------------------------------------------------------------------
Receiver(r) == Receive(r) \/ Execute(r) \/ Answer(r) \/ ReadError(r)
Loop ==
    \/ TryAgain \/ StopReporting
    \/ \E c \in Conns : Connect(c)
    \/ \E r \in Receivers : StartReceiver(r)

Sent(k) == executed[k] > 0 \/ \E c \in Conns : \E i \in DOMAIN down[c] : down[c][i] = k

Next ==
    \/ Loop
    \/ \E r \in Receivers : Receiver(r)
    \/ \E c \in Conns : Lose(c)
    \/ \E c \in Conns, k \in Commands : ~Sent(k) /\ Deliver(c, k)

(* The goroutines are scheduled; a dial succeeds, a receiver is started    *)
(* and a failed read returns (after 30 seconds at the latest).             *)
Fairness == WF_vars(Loop) /\ \A r \in Receivers : WF_vars(Receiver(r))

Spec == Init /\ [][Next]_vars /\ Fairness

-----------------------------------------------------------------------------
TypeOK ==
    /\ conn \in Conns \cup {None}
    /\ connected \in BOOLEAN
    /\ main \in {"top", "dialled", "reporting"}
    /\ recv \in [Receivers -> [pc : {"gone", "top", "read", "answer"},
                               on : Conns \cup {None}, cmd : Commands \cup {None}]]
    /\ open \subseteq Conns /\ works \subseteq open
    /\ down \in [Conns -> Seq(Commands)] /\ up \in [Conns -> Seq(Commands)]
    /\ executed \in [Commands -> Nat]

(* The loop reports only on a connection it has not closed, and leaves it  *)
(* only by closing it: a connection that w.conn refers to is open, and the *)
(* flag is never up without one.                                           *)
FlagHasConnection ==
    /\ conn # None => conn \in open
    /\ connected => conn # None
    /\ main = "reporting" => conn # None

Reporting == main = "reporting" /\ connected /\ conn \in works

(* The node's connection is lost, or marked as lost by the receiver of an  *)
(* older one, and it reports again on one that works.                      *)
ComesBack == []<>Reporting
=============================================================================
