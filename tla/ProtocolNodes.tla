---------------------------- MODULE ProtocolNodes ----------------------------
(***************************************************************************)
(* Snell nodes (ProtocolNodeServiceImpl): rows of protocol_node, the       *)
(* console's requests, and what the reports of their tasks do to the rows. *)
(***************************************************************************)
EXTENDS Deployment

CreateNode(h, n, p) == CreateRow(h, n, p)
UpdateNode(h, n, p) == UpdateRow(h, n, p)
DeleteNode(h, n)    == DeleteRow(h, n)
RestartNode(h, n)   == RestartRow(h, n)

-----------------------------------------------------------------------------
(* What a report does to the row of its task.                                *)

\* Mutant: only results are merged, failures are not.
Merged_NoFailure(r, t, state) ==
    IF state = "succeeded"
    THEN IF task[t].action = "absent"
         THEN [state |-> "deleted", live |-> FALSE, port |-> task[t].port]
         ELSE [state |-> "active", live |-> TRUE, port |-> task[t].port]
    ELSE r

\* upsertNodeMeta copies what the script printed; applyAgentTaskFailure is
\* called for every state but "succeeded", "running" included.
Merged(r, t, state) ==
    IF state = "succeeded"
    THEN IF task[t].action = "absent"
         THEN [state |-> "deleted", live |-> FALSE, port |-> task[t].port]
         ELSE [state |-> "active", live |-> TRUE, port |-> task[t].port]
    ELSE [r EXCEPT !.state = IF task[t].action = "absent" THEN "delete_failed" ELSE "failed"]

ApplyReport(c) ==
    /\ rep[c].phase = "read"
    /\ LET t == rep[c].task IN
       row' = [row EXCEPT ![task[t].id] = Merged(rep[c].row, t, rep[c].state)]
    /\ rep' = [rep EXCEPT ![c] = Answered(c)]
    /\ UNCHANGED <<req, tasks, agent, site, budget>>

-----------------------------------------------------------------------------
Console ==
    \E h \in Requests, n \in RowIds :
        \/ \E p \in Ports : CreateNode(h, n, p) \/ UpdateNode(h, n, p)
        \/ DeleteNode(h, n) \/ RestartNode(h, n)

HandleReport(c) == ReportWrite(c) \/ ReadRow(c) \/ ApplyReport(c)

Next ==
    \/ Console
    \/ \E h \in Requests : HandleRequest(h)
    \/ \E c \in Conns : HandleReport(c)
    \/ AgentStep
    \/ Fault

Safe == Init /\ [][Next]_vars

\* Handlers return and the agent's loop goes on, as in TaskEngine.
Fairness ==
    /\ \A h \in Requests : WF_vars(HandleRequest(h))
    /\ \A c \in Conns : WF_vars(HandleReport(c))
    /\ WF_vars(AgentStep)
    /\ WF_vars(AttemptFails /\ UNCHANGED faults)

Spec == Safe /\ Fairness

-----------------------------------------------------------------------------
(* Properties (TypeOK, RowIsFounded and SuccessIsShown are in Deployment).   *)

\* What the end of its last task makes of a node.
StateAfter(t) ==
    CASE task[t].action = "absent" /\ outcome[t] = "succeeded" -> "deleted"
      [] task[t].action = "absent" /\ outcome[t] # "succeeded" -> "delete_failed"
      [] task[t].action # "absent" /\ outcome[t] = "succeeded" -> "active"
      [] OTHER                                                 -> "failed"

\* As long as nothing was lost and nothing restarted: when nothing is under way
\* for a node its row tells how its last task ended, and of a success also what
\* port it deployed and whether the node is listed, although requests overlap
\* each other and the reports of earlier tasks.
RowIsSettled ==
    Undisturbed =>
        \A n \in RowIds : row[n] # NoRow /\ ~Busy(n) =>
            \E t \in TaskIds :
                /\ Newest(n, t)
                /\ row[n].state = StateAfter(t)
                /\ outcome[t] = "succeeded" =>
                       /\ row[n].port = task[t].port
                       /\ row[n].live <=> task[t].action # "absent"

\* What makes it inductive: a node at rest has been told of its last task.
ToldInv ==
    Undisturbed =>
        \A n \in RowIds, t \in TaskIds : AtRest(n, t) =>
            /\ row[n].state = StateAfter(t)
            /\ outcome[t] = "succeeded" =>
                   /\ row[n].port = task[t].port
                   /\ row[n].live <=> task[t].action # "absent"

\* Then, too, an active node listens where its row says, and of a deleted one
\* nothing is left on the server.
RowMatchesServer ==
    Undisturbed =>
        \A n \in RowIds : ~Busy(n) =>
            /\ row[n].state = "active"  => config[n] = row[n].port
            /\ row[n].state = "deleted" => config[n] = NoPort

\* Both together: the row, its last task and the server agree.
NodeIsSettled == RowIsSettled /\ RowMatchesServer

\* A node does not stay "pending" or "deleting": everything under way for it
\* ends, and its row then says how.
PendingSettles ==
    \A n \in RowIds : (row[n].state \in {"pending", "deleting"})
                       ~> (~Busy(n) /\ row[n].state \notin {"pending", "deleting"})

\* The tasks and the agent behave as TaskDispatch allows.
Dispatch == INSTANCE TaskDispatch WITH
    Servers    <- {"server"},
    NoServer   <- "none",
    Agents     <- {"agent"},
    Home       <- [a \in {"agent"} |-> "server"],
    top        <- lastTask,
    home       <- [t \in TaskIds |-> IF t <= lastTask THEN "server" ELSE "none"],
    pending    <- {t \in TaskIds : task[t].state = "generated"},
    dispatched <- {t \in TaskIds : task[t].state \notin {"absent", "generated"}},
    runs       <- [t \in TaskIds |-> IF outcome[t] = "none" THEN 0 ELSE 1],
    last       <- [a \in {"agent"} |->
                      CHOOSE t \in 0..MaxTasks :
                          /\ t > 0 => outcome[t] # "none"
                          /\ \A u \in TaskIds : outcome[u] # "none" => u <= t]

DispatchSafe == Dispatch!Safe
=============================================================================
