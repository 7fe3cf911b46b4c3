----------------------------- MODULE Deployment -----------------------------
(***************************************************************************)
(* One controlled server as the services see it that deploy through tasks: *)
(* protocol nodes (Snell) and remote forward rules.  Such a service keeps  *)
(* a table of rows, inserts tasks that carry a generated script, and       *)
(* merges what the reports of its tasks say into its rows.  This module    *)
(* has what these services share: how the console's requests write rows    *)
(* and tasks, the agent that executes the tasks one at a time, the files   *)
(* it leaves on the server and its reports.                                *)
(*                                                                         *)
(* Every method works on an entity read with getById and written back      *)
(* whole (updateById); there is no transaction and no version column, so   *)
(* each access to the database is a step of its own.                       *)
(*                                                                         *)
(* TaskEngine shows in detail how tasks get to agents; here a claim is one *)
(* step, and ProtocolNodes!DispatchSafe says that this is what the engine  *)
(* promises (TaskDispatch).                                                *)
(***************************************************************************)
EXTENDS Naturals, FiniteSets

CONSTANTS
    RowIds,      \* ids of the rows
    NoId,        \* the row of a task that was never created
    Ports,       \* ports a row may name
    NoPort,      \* no port: nothing is installed
    Requests,    \* bound: console requests handled at one time
    Conns,       \* bound: reports the master handles at one time
    NoConn,      \* the agent waits for no answer
    Ops,         \* operations the console uses
    MayFail,     \* may a script fail that could succeed?
    MaxTasks,    \* bound: deploy_task ids are 1..MaxTasks
    MaxFaults,   \* bound: calls that fail in the network
    MaxCrashes   \* bound: crashes, of the agent or the master

AllOps == {"create", "update", "delete", "restart"}

ASSUME DeploymentAssumption ==
    /\ NoId \notin RowIds /\ NoPort \notin Ports /\ NoConn \notin Conns
    /\ IsFiniteSet(Requests)
    /\ Ops \subseteq AllOps
    /\ MayFail \in BOOLEAN
    /\ MaxTasks \in Nat /\ MaxFaults \in Nat /\ MaxCrashes \in Nat

TaskIds == 1..MaxTasks
NoTask  == 0

Final == {"succeeded", "failed"}

RowStates == {"absent", "pending", "deleting", "active", "inactive",
              "failed", "delete_failed", "deleted"}

RowRecords     == [state : RowStates, live : BOOLEAN, port : Ports \cup {NoPort}]
RequestRecords == [op : Ops \cup {"none"}, id : RowIds \cup {NoId},
                   step : {"none", "write", "task"}, row : RowRecords]
Entries        == [state : {"absent", "generated", "claimed", "running"} \cup Final,
                   id : RowIds \cup {NoId}, port : Ports \cup {NoPort},
                   action : {"present", "absent", "restarted", "none"}]
ReportRecords  == [phase : {"idle", "sent", "written", "read", "answered", "broken"},
                   task : TaskIds \cup {NoTask},
                   state : {"none", "running"} \cup Final, row : RowRecords]

VARIABLES
    row,       \* row[n]: row n of the service's table, the columns that matter
    req,       \* req[h]: the console request h is handling
    lastTask,  \* auto-increment counter of deploy_task
    task,      \* task[t]: row t of deploy_task
    pc,        \* where the agent's loop is
    held,      \* the task it works on
    wait,      \* the connection it waits for an answer on
    rep,       \* rep[c]: the report that connection c carries
    config,    \* config[n]: port in the files of service n on the server
    outcome,   \* outcome[t]: how the script of t ended
    faults,    \* network faults so far
    crashes    \* crashes so far

rows   == <<row, req>>
tasks  == <<lastTask, task>>
agent  == <<pc, held, wait>>
site   == <<config, outcome>>
budget == <<faults, crashes>>
vars   == <<rows, tasks, agent, rep, site, budget>>

NoRow   == [state |-> "absent", live |-> FALSE, port |-> NoPort]
NoEntry == [state |-> "absent", id |-> NoId, action |-> "none", port |-> NoPort]
Free    == [op |-> "none", id |-> NoId, step |-> "none", row |-> NoRow]
Quiet   == [phase |-> "idle", task |-> NoTask, state |-> "none", row |-> NoRow]

Init ==
    /\ row = [n \in RowIds |-> NoRow]
    /\ req = [h \in Requests |-> Free]
    /\ lastTask = 0
    /\ task = [t \in TaskIds |-> NoEntry]
    /\ pc = "poll" /\ held = NoTask /\ wait = NoConn
    /\ rep = [c \in Conns |-> Quiet]
    /\ config = [n \in RowIds |-> NoPort]
    /\ outcome = [t \in TaskIds |-> "none"]
    /\ faults = 0 /\ crashes = 0

-----------------------------------------------------------------------------
(* The console.  A request holds the entity it read (req[h].row) and what it *)
(* does next: write it ("write") or insert the task ("task").                *)

\* Every request that is being handled may still insert a task.
Room == lastTask + Cardinality({h \in Requests : req[h] # Free}) < MaxTasks

Begin(h, op, n, step, r) ==
    /\ op \in Ops
    /\ req[h] = Free
    /\ Room
    /\ req' = [req EXCEPT ![h] = [op |-> op, id |-> n, step |-> step, row |-> r]]

Return(h) == req' = [req EXCEPT ![h] = Free]

\* The row is saved to learn its id, and written again with the name of the
\* service, which contains the id.
CreateRow(h, n, p) ==
    LET r == [state |-> "pending", live |-> TRUE, port |-> p] IN
    /\ row[n] = NoRow
    /\ Begin(h, "create", n, "write", r)
    /\ row' = [row EXCEPT ![n] = r]
    /\ UNCHANGED <<tasks, agent, rep, site, budget>>

\* The other methods read the row, whatever its state and status.
UpdateRow(h, n, p) ==
    /\ row[n] # NoRow
    /\ Begin(h, "update", n, "write", [row[n] EXCEPT !.state = "pending", !.port = p])
    /\ UNCHANGED <<row, tasks, agent, rep, site, budget>>

\* Mutant: the row is hidden at once.
Deleting_Hidden(r) == [r EXCEPT !.state = "deleted", !.live = FALSE]

Deleting(r) == [r EXCEPT !.state = "deleting"]

DeleteRow(h, n) ==
    /\ row[n] # NoRow
    /\ Begin(h, "delete", n, "write", Deleting(row[n]))
    /\ UNCHANGED <<row, tasks, agent, rep, site, budget>>

\* A restart inserts the task before it writes the row.
RestartRow(h, n) ==
    /\ row[n] # NoRow
    /\ Begin(h, "restart", n, "task", row[n])
    /\ UNCHANGED <<row, tasks, agent, rep, site, budget>>

\* Mutant: the request ends before its task is inserted.
WriteRow_ReturnsEarly(h) ==
    /\ req[h].step = "write"
    /\ row' = [row EXCEPT ![req[h].id] = req[h].row]
    /\ Return(h)
    /\ UNCHANGED <<tasks, agent, rep, site, budget>>

\* updateById
WriteRow(h) ==
    /\ req[h].step = "write"
    /\ row' = [row EXCEPT ![req[h].id] = req[h].row]
    /\ IF req[h].op = "restart" THEN Return(h)
                                ELSE req' = [req EXCEPT ![h].step = "task"]
    /\ UNCHANGED <<tasks, agent, rep, site, budget>>

Action(op) == CASE op = "delete"  -> "absent"
                [] op = "restart" -> "restarted"
                [] OTHER          -> "present"

CreateTask(h) ==
    /\ req[h].step = "task"
    /\ lastTask < MaxTasks
    /\ lastTask' = lastTask + 1
    /\ task' = [task EXCEPT ![lastTask + 1] =
                   [state |-> "generated", id |-> req[h].id,
                    action |-> Action(req[h].op), port |-> req[h].row.port]]
    /\ IF req[h].op = "restart"
       THEN req' = [req EXCEPT ![h].step = "write", ![h].row.state = "pending"]
       ELSE Return(h)
    /\ UNCHANGED <<row, agent, rep, site, budget>>

HandleRequest(h) == WriteRow(h) \/ CreateTask(h)

-----------------------------------------------------------------------------
(* The agent.                                                                *)

\* Mutant: the newest task first.
Next_Newest(t) ==
    /\ task[t].state = "generated"
    /\ \A u \in TaskIds : task[u].state = "generated" => u <= t

NextTask(t) ==
    /\ task[t].state = "generated"
    /\ \A u \in TaskIds : task[u].state = "generated" => t <= u

\* The claim marks the task; the answer may be lost.
Claim ==
    /\ pc = "poll"
    /\ \E t \in TaskIds :
         /\ NextTask(t)
         /\ task' = [task EXCEPT ![t].state = "claimed"]
         /\ \/ pc' = "announcing" /\ held' = t /\ UNCHANGED faults
            \/ faults < MaxFaults /\ faults' = faults + 1 /\ UNCHANGED <<pc, held>>
    /\ UNCHANGED <<rows, lastTask, wait, rep, site, crashes>>

Post(c) ==
    /\ pc \in {"announcing", "reporting"}
    /\ wait = NoConn
    /\ rep[c] = Quiet
    /\ wait' = c
    /\ rep' = [rep EXCEPT ![c] =
                  [phase |-> "sent", task |-> held, row |-> NoRow,
                   state |-> IF pc = "announcing" THEN "running" ELSE outcome[held]]]
    /\ UNCHANGED <<rows, tasks, pc, held, site, budget>>

\* A report is over, delivered or given up.
Advance ==
    /\ wait' = NoConn
    /\ IF pc = "announcing" THEN pc' = "executing" /\ UNCHANGED held
                            ELSE pc' = "poll" /\ held' = NoTask

Receive ==
    /\ wait # NoConn
    /\ rep[wait].phase = "answered"
    /\ rep' = [rep EXCEPT ![wait] = Quiet]
    /\ Advance
    /\ UNCHANGED <<rows, tasks, site, budget>>

\* The attempt fails: a report the master has not begun to handle may be lost
\* or still arrive, one being handled goes on.  The agent tries again or, out
\* of attempts, goes on.
AttemptFails ==
    /\ wait # NoConn
    /\ \/ rep[wait].phase = "broken" /\ UNCHANGED faults
       \/ rep[wait].phase # "broken" /\ faults < MaxFaults /\ faults' = faults + 1
    /\ \/ rep[wait].phase \in {"sent", "answered", "broken"} /\ rep' = [rep EXCEPT ![wait] = Quiet]
       \/ rep[wait].phase \notin {"answered", "broken"} /\ UNCHANGED rep
    /\ \/ wait' = NoConn /\ UNCHANGED <<pc, held>>
       \/ Advance
    /\ UNCHANGED <<rows, tasks, site, crashes>>

\* The files of the service after a script that went through.
Installed(t) ==
    CASE task[t].action = "present" -> task[t].port
      [] task[t].action = "absent"  -> NoPort
      [] OTHER                      -> config[task[t].id]

\* What is not installed cannot be restarted.
CanSucceed(t) == task[t].action = "restarted" => config[task[t].id] # NoPort

\* A script that fails, or is killed, stops before or after it wrote the files.
PartlyInstalled(t) == {config[task[t].id], Installed(t)}

RunScript ==
    /\ pc = "executing"
    /\ pc' = "reporting"
    /\ \/ /\ CanSucceed(held)
          /\ outcome' = [outcome EXCEPT ![held] = "succeeded"]
          /\ config' = [config EXCEPT ![task[held].id] = Installed(held)]
       \/ /\ MayFail \/ ~CanSucceed(held)
          /\ outcome' = [outcome EXCEPT ![held] = "failed"]
          /\ \E p \in PartlyInstalled(held) : config' = [config EXCEPT ![task[held].id] = p]
    /\ UNCHANGED <<rows, tasks, held, wait, rep, budget>>

\* The agent dies, and its script with it; systemd starts the agent again.
AgentCrash ==
    /\ crashes < MaxCrashes
    /\ crashes' = crashes + 1
    /\ pc' = "poll" /\ held' = NoTask /\ wait' = NoConn
    /\ IF pc = "executing"
       THEN /\ outcome' = [outcome EXCEPT ![held] = "killed"]
            /\ \E p \in PartlyInstalled(held) : config' = [config EXCEPT ![task[held].id] = p]
       ELSE UNCHANGED site
    /\ \/ wait # NoConn /\ rep[wait].phase \in {"sent", "answered", "broken"}
          /\ rep' = [rep EXCEPT ![wait] = Quiet]
       \/ (wait # NoConn => rep[wait].phase \notin {"answered", "broken"}) /\ UNCHANGED rep
    /\ UNCHANGED <<rows, tasks, faults>>

AgentStep == Claim \/ (\E c \in Conns : Post(c)) \/ Receive \/ RunScript

-----------------------------------------------------------------------------
(* The master handles a report: the row of the task first; then the service  *)
(* merges the result into its own row (the extending modules).               *)

ReportWrite(c) ==
    /\ rep[c].phase = "sent"
    /\ task' = [task EXCEPT ![rep[c].task].state = rep[c].state]
    /\ rep' = [rep EXCEPT ![c].phase = "written"]
    /\ UNCHANGED <<rows, lastTask, agent, site, budget>>

\* A service reads its own row before it merges the report into it.
ReadRow(c) ==
    /\ rep[c].phase = "written"
    /\ rep' = [rep EXCEPT ![c].phase = "read", ![c].row = row[task[rep[c].task].id]]
    /\ UNCHANGED <<rows, tasks, agent, site, budget>>

\* The handler returns, to the agent or to nobody.
Answered(c) ==
    IF wait = c THEN [phase |-> "answered", task |-> rep[c].task, state |-> "none", row |-> NoRow]
                ELSE Quiet

\* The master stops between any two statements and starts again.
MasterRestart ==
    /\ crashes < MaxCrashes
    /\ crashes' = crashes + 1
    /\ req' = [h \in Requests |-> Free]
    /\ rep' = [c \in Conns |-> IF wait = c THEN [rep[c] EXCEPT !.phase = "broken"] ELSE Quiet]
    /\ UNCHANGED <<row, tasks, agent, site, faults>>

Fault == AttemptFails \/ AgentCrash \/ MasterRestart

-----------------------------------------------------------------------------
(* Vocabulary of the properties.                                             *)

TasksOf(n) == {t \in TaskIds : task[t].id = n}

\* The last task of a row.
Newest(n, t) == t \in TasksOf(n) /\ \A u \in TasksOf(n) : u <= t

\* Something is under way that will write row n.
Busy(n) ==
    \/ \E h \in Requests : req[h].id = n
    \/ \E t \in TasksOf(n) : task[t].state \notin Final
    \/ \E c \in Conns : rep[c] # Quiet /\ task[rep[c].task].id = n

\* Nothing was lost and nothing restarted so far, machines and services.
Undisturbed ==
    /\ faults = 0 /\ crashes = 0
    /\ \A t \in TaskIds : task[t].action # "restarted"

\* A script of row n with one of these actions ended this way.
Ended(n, actions, how) ==
    \E t \in TasksOf(n) : task[t].action \in actions /\ outcome[t] = how

\* A task of row n with one of these actions left the queue.
HandedOut(n, actions) ==
    \E t \in TasksOf(n) : task[t].action \in actions /\ task[t].state # "generated"

TypeOK ==
    /\ row \in [RowIds -> RowRecords]
    /\ req \in [Requests -> RequestRecords]
    /\ lastTask \in 0..MaxTasks
    /\ task \in [TaskIds -> Entries]
    /\ pc \in {"poll", "announcing", "executing", "reporting"}
    /\ held \in TaskIds \cup {NoTask}
    /\ wait \in Conns \cup {NoConn}
    /\ rep \in [Conns -> ReportRecords]
    /\ config \in [RowIds -> Ports \cup {NoPort}]
    /\ outcome \in [TaskIds -> {"none", "killed"} \cup Final]
    /\ faults \in 0..MaxFaults
    /\ crashes \in 0..MaxCrashes
    /\ \A n \in RowIds : row[n] # NoRow => row[n].port \in Ports

(* What else the steps keep, whichever service the rows belong to.           *)

\* Rows of deploy_task beyond the counter do not exist; those below it belong
\* to a row of the service.  What is in the queue never ran.
TableInv ==
    \A t \in TaskIds :
        IF t <= lastTask
        THEN /\ task[t].id \in RowIds /\ task[t].port \in Ports
             /\ task[t].state # "absent" /\ task[t].action # "none"
             /\ row[task[t].id] # NoRow
             /\ task[t].state = "generated" => outcome[t] = "none"
        ELSE task[t] = NoEntry /\ outcome[t] = "none"

Claimed(t) == t \in TaskIds /\ task[t].state \notin {"absent", "generated"}

\* The agent works on a task it claimed; it runs its script once, and waits
\* for an answer only where it reports.
LoopInv ==
    /\ pc # "poll" <=> held # NoTask
    /\ held # NoTask => Claimed(held)
    /\ pc \in {"announcing", "executing"} => outcome[held] = "none"
    /\ pc = "reporting" => outcome[held] \in Final
    /\ wait # NoConn => pc \in {"announcing", "reporting"}

\* A request works on a row that exists.
RequestInv ==
    \A h \in Requests : req[h].step # "none" =>
        /\ req[h].op # "none"
        /\ req[h].id \in RowIds
        /\ row[req[h].id] # NoRow
        /\ req[h].row.port \in Ports

\* A report tells of a task that was claimed, a final one how its script ended.
ReportInv ==
    \A c \in Conns : rep[c].phase \in {"sent", "written", "read"} =>
        /\ Claimed(rep[c].task)
        /\ rep[c].state # "none"
        /\ rep[c].state \in Final => outcome[rep[c].task] = rep[c].state
        /\ rep[c].phase = "read" => rep[c].row.port \in Ports

DeploymentInv == TypeOK /\ TableInv /\ LoopInv /\ RequestInv /\ ReportInv

-----------------------------------------------------------------------------
(* What rows tell of the server.                                             *)

\* What a row says happened to its service: it runs, or ran once, only after a
\* script deployed or restarted it; it is hidden only after a script removed
\* it; it failed only once a script was handed out.
Founded(n, r) ==
    /\ r.state \in {"active", "inactive"} => Ended(n, {"present", "restarted"}, "succeeded")
    /\ r # NoRow /\ ~r.live => Ended(n, {"absent"}, "succeeded")
    /\ r.state = "failed" => HandedOut(n, {"present", "restarted"})
    /\ r.state = "delete_failed" => HandedOut(n, {"absent"})

\* No row of protocol_node or server_forward_rule claims what no script did,
\* whatever is lost, late, repeated or overwritten by another handler's copy.
RowIsFounded == \A n \in RowIds : Founded(n, row[n])

\* Nor do the copies of rows that requests and reports are about to write.
CopiesAreFounded ==
    /\ \A h \in Requests : req[h].step # "none" => Founded(req[h].id, req[h].row)
    /\ \A c \in Conns : rep[c].phase = "read" => Founded(task[rep[c].task].id, rep[c].row)

FoundedInv == DeploymentInv /\ RowIsFounded /\ CopiesAreFounded

-----------------------------------------------------------------------------
(* What makes a row end as its last task ended.                              *)

\* Tasks are handed out oldest first, and the agent holds the last of them.
QueueInv ==
    /\ \A t, u \in TaskIds : task[t].state = "generated" /\ Claimed(u) => u < t
    /\ held # NoTask => \A u \in TaskIds : Claimed(u) => u <= held

\* A result in the table is how the script ended.
ResultInv == \A t \in TaskIds : task[t].state \in Final => outcome[t] = task[t].state

\* Without a disturbance the agent waits for its report, and nothing else
\* writes the row of its task meanwhile.
PatienceInv ==
    faults = 0 /\ crashes = 0 =>
        \A c \in Conns : rep[c] # Quiet =>
            /\ wait = c /\ rep[c].task = held /\ rep[c].phase # "broken"
            /\ rep[c].phase \in {"written", "read"} => task[held].state = rep[c].state

\* The files are those of the last script that ended, if it went through.
FilesInv ==
    \A n \in RowIds : \A t \in TasksOf(n) :
        outcome[t] = "succeeded" /\ (\A u \in TasksOf(n) : outcome[u] # "none" => u <= t) =>
            /\ task[t].action = "present" => config[n] = task[t].port
            /\ task[t].action = "absent"  => config[n] = NoPort

\* As long as nothing was lost and nothing restarted: when nothing is under way
\* for a row and its last task went through, the row says so, although
\* requests overlap each other and the reports of earlier tasks.  (Had the
\* task failed, a rule would read "pending", or still "active"; of nodes
\* ProtocolNodes says more.)
SuccessIsShown ==
    Undisturbed =>
        \A n \in RowIds, t \in TaskIds :
            /\ row[n] # NoRow /\ ~Busy(n)
            /\ Newest(n, t)
            /\ outcome[t] = "succeeded"
            => /\ task[t].action = "absent"  => row[n].state = "deleted"
               /\ task[t].action # "absent"  => row[n].state \in {"active", "inactive"}
               /\ row[n].live <=> task[t].action # "absent"

Requested(n) == \E h \in Requests : req[h].id = n
Handling(t) == \E c \in Conns : rep[c].phase \in {"sent", "written", "read"} /\ rep[c].task = t

\* Nothing will write row n any more: t was its last task, and is done with.
AtRest(n, t) ==
    /\ row[n] # NoRow /\ ~Requested(n)
    /\ Newest(n, t) /\ task[t].state \in Final /\ ~Handling(t)

\* A request that wrote a row has a task to show for it.
TaskedInv ==
    /\ \A h \in Requests : req[h].op = "restart" /\ req[h].step = "write" =>
          \E t \in TaskIds : task[t].action = "restarted"
    /\ Undisturbed => \A n \in RowIds : row[n] # NoRow /\ ~Requested(n) =>
          \E t \in TaskIds : Newest(n, t)

SharedInv == QueueInv /\ ResultInv /\ PatienceInv /\ FilesInv /\ TaskedInv
=============================================================================
