----------------------------- MODULE TaskEngine -----------------------------
(***************************************************************************)
(* The deploy-task engine: the master's task table and its HTTP handlers   *)
(* (DeployTaskServiceImpl), the agent's loop (overlord-agent.sh) and the   *)
(* calls between them.                                                     *)
(*                                                                         *)
(* An agent posts one call at a time and repeats it when curl fails; the   *)
(* failed attempt may never have arrived, may have been answered already,  *)
(* or may still be travelling or being handled, and then runs concurrently *)
(* with the repetition.  A handler is as many actions as it makes database *)
(* accesses whose order other handlers can observe.                        *)
(***************************************************************************)
EXTENDS Naturals

CONSTANTS
    Servers,     \* rows of control_server
    NoServer,    \* the server of a task id that was never used
    Agents,      \* agent processes
    Home,        \* Home[a]: the server agent a was installed for
    NoAgent,     \* the agent of a call that the console makes
    Conns,       \* bound: HTTP calls the master has open at one time
    NoConn,      \* an agent that waits for no answer
    MaxTasks,    \* bound: deploy_task ids are 1..MaxTasks
    MaxAttempts, \* OB_HTTP_RETRIES: attempts of one agent call
    ClaimTries,  \* SELECT/UPDATE rounds of one claim
    MaxFaults,   \* bound: attempts that fail in the network
    MaxCrashes,  \* bound: crashes, of an agent or of the master
    ConsoleOps   \* operations of DeployTaskService the console may call

\* The operations of the service and of the server registry that touch the
\* engine.  Only "rotate" has an HTTP route in this version of the master.
AllConsoleOps == {"update", "retry", "delete", "rotate"}

ASSUME EngineAssumption ==
    /\ Home \in [Agents -> Servers]
    /\ NoServer \notin Servers
    /\ NoAgent \notin Agents
    /\ NoConn \notin Conns
    /\ MaxTasks \in Nat
    /\ MaxAttempts \in Nat \ {0}
    /\ ClaimTries \in Nat \ {0}
    /\ MaxFaults \in Nat
    /\ MaxCrashes \in Nat
    /\ ConsoleOps \subseteq AllConsoleOps

TaskIds == 1..MaxTasks
NoTask  == 0

\* The states a report or the console may write (normalizeTaskState).
Reportable == {"running", "succeeded", "failed", "timeout"}
Finished   == {"succeeded", "failed", "timeout"}
\* "absent": the id was not used yet, or its row was deleted.
TaskStates == {"absent", "generated", "claimed"} \cup Reportable

Calls == [op    : {"none", "claim", "report", "retry"},
          phase : {"idle", "sent", "again", "chosen", "admitted", "answered", "broken"},
          agent : Agents \cup {NoAgent},
          task  : TaskIds \cup {NoTask},
          state : Reportable \cup {"none"},
          tries : 0..ClaimTries]

Idle == [op |-> "none", phase |-> "idle", agent |-> NoAgent,
         task |-> NoTask, state |-> "none", tries |-> 0]

AgentSteps == {"down", "poll", "claiming", "announcing", "ready", "executing", "reporting"}

VARIABLES
    lastId,   \* auto-increment counter of deploy_task
    state,    \* state[t]: column "state" of row t
    server,   \* server[t]: column "server_id" of row t
    trusted,  \* agents whose token equals the api_token of their server
    conn,     \* conn[c]: the call open on connection c
    pc,       \* pc[a]: where the agent's loop is
    held,     \* held[a]: the task whose script agent a was given
    wait,     \* wait[a]: the connection agent a expects an answer on
    attempt,  \* attempt[a]: attempts left of the call agent a is making
    verdict,  \* verdict[a]: exit status of the script agent a ran last
    faults,   \* network faults so far
    crashes,  \* crashes so far
    (* History, read by the properties only. *)
    claims,   \* claims[t]: how often t was handed out
    runs,     \* runs[t]: how often the script of t was started
    outcome,  \* outcome[t]: how the script of t ended
    lastRun   \* lastRun[a]: the task agent a started last

table   == <<lastId, state, server>>
agent   == <<pc, held, wait, attempt, verdict>>
budget  == <<faults, crashes>>
history == <<claims, runs, outcome, lastRun>>
vars    == <<table, trusted, conn, agent, budget, history>>

Init ==
    /\ lastId  = 0
    /\ state   = [t \in TaskIds |-> "absent"]
    /\ server  = [t \in TaskIds |-> NoServer]
    /\ trusted = Agents
    /\ conn    = [c \in Conns |-> Idle]
    /\ pc      = [a \in Agents |-> "poll"]
    /\ held    = [a \in Agents |-> NoTask]
    /\ wait    = [a \in Agents |-> NoConn]
    /\ attempt = [a \in Agents |-> MaxAttempts]
    /\ verdict = [a \in Agents |-> "none"]
    /\ faults  = 0
    /\ crashes = 0
    /\ claims  = [t \in TaskIds |-> 0]
    /\ runs    = [t \in TaskIds |-> 0]
    /\ outcome = [t \in TaskIds |-> "none"]
    /\ lastRun = [a \in Agents |-> NoTask]

Awaited(c) == \E a \in Agents : wait[a] = c

\* A handler returns: its answer waits for the agent, or nobody reads it.
Answer(c, t) ==
    conn' = [conn EXCEPT ![c] =
                IF Awaited(c) THEN [@ EXCEPT !.phase = "answered", !.task = t]
                ELSE Idle]

-----------------------------------------------------------------------------
(* Creating tasks.  Validation rejects a request before anything is written, *)
(* so only accepted requests are steps.                                      *)

InsertRow(s) ==
    /\ lastId < MaxTasks
    /\ lastId' = lastId + 1
    /\ state'  = [state EXCEPT ![lastId + 1] = "generated"]
    /\ server' = [server EXCEPT ![lastId + 1] = s]

CreateTask(s) ==
    /\ InsertRow(s)
    /\ UNCHANGED <<trusted, conn, agent, budget, history>>

-----------------------------------------------------------------------------
(* claimAgentTask: authenticate once, then up to ClaimTries rounds of SELECT *)
(* the oldest generated row and UPDATE it on condition that it still is.     *)

Queue(s) == {t \in TaskIds : state[t] = "generated" /\ server[t] = s}

\* Mutant: ORDER BY id DESC.
Oldest_Desc(t, S) == \A u \in S : t >= u

Oldest(t, S) == \A u \in S : t <= u

Authentic(c) == conn[c].agent \in trusted

ClaimRejected(c) ==
    /\ conn[c].op = "claim" /\ conn[c].phase = "sent"
    /\ ~Authentic(c)
    /\ Answer(c, NoTask)
    /\ UNCHANGED <<table, trusted, agent, budget, history>>

ClaimSelect(c) ==
    /\ conn[c].op = "claim"
    /\ \/ conn[c].phase = "sent" /\ Authentic(c)
       \/ conn[c].phase = "again"
    /\ LET waiting == Queue(Home[conn[c].agent]) IN
       \/ /\ waiting = {}
          /\ Answer(c, NoTask)
       \/ \E t \in waiting :
            /\ Oldest(t, waiting)
            /\ conn' = [conn EXCEPT ![c].phase = "chosen", ![c].task = t]
    /\ UNCHANGED <<table, trusted, agent, budget, history>>

\* Mutant: the UPDATE forgets the condition on the state.
StillClaimable_ByIdOnly(t, s) == server[t] = s

\* The WHERE clause of markTaskClaimed.
StillClaimable(t, s) == state[t] = "generated" /\ server[t] = s

MarkTaskClaimed(c) ==
    /\ conn[c].op = "claim" /\ conn[c].phase = "chosen"
    /\ LET t == conn[c].task IN
       \/ /\ StillClaimable(t, Home[conn[c].agent])
          /\ state'  = [state EXCEPT ![t] = "claimed"]
          /\ claims' = [claims EXCEPT ![t] = @ + 1]
          /\ Answer(c, t)
       \/ /\ ~StillClaimable(t, Home[conn[c].agent])
          /\ IF conn[c].tries = 1
             THEN Answer(c, NoTask)
             ELSE conn' = [conn EXCEPT ![c].phase = "again", ![c].task = NoTask,
                                       ![c].tries = conn[c].tries - 1]
          /\ UNCHANGED <<state, claims>>
    /\ UNCHANGED <<lastId, server, trusted, agent, budget, runs, outcome, lastRun>>

-----------------------------------------------------------------------------
(* reportAgentTask: read the row, authenticate against the row's server,     *)
(* then write the reported state whatever the row has become meanwhile.      *)

ReportAccepted(c) ==
    /\ state[conn[c].task] # "absent"
    /\ Authentic(c)
    /\ server[conn[c].task] = Home[conn[c].agent]

ReportRead(c) ==
    /\ conn[c].op = "report" /\ conn[c].phase = "sent"
    /\ IF ReportAccepted(c)
       THEN conn' = [conn EXCEPT ![c].phase = "admitted"]
       ELSE Answer(c, NoTask)
    /\ UNCHANGED <<table, trusted, agent, budget, history>>

\* UPDATE deploy_task SET state = v WHERE id = t: no row, no change.
WriteState(t, v) == state' = [state EXCEPT ![t] = IF @ = "absent" THEN @ ELSE v]

ReportWrite(c) ==
    /\ conn[c].op = "report" /\ conn[c].phase = "admitted"
    /\ WriteState(conn[c].task, conn[c].state)
    /\ Answer(c, NoTask)
    /\ UNCHANGED <<lastId, server, trusted, agent, budget, history>>

-----------------------------------------------------------------------------
(* The console.                                                              *)

\* The states the console may set, none when it may not set any.
ManualStates == {v \in Reportable : "update" \in ConsoleOps}

UpdateTaskState(t, v) ==
    /\ state[t] # "absent"
    /\ WriteState(t, v)
    /\ UNCHANGED <<lastId, server, trusted, conn, agent, budget, history>>

DeleteTask(t) ==
    /\ "delete" \in ConsoleOps
    /\ state[t] # "absent"
    /\ state' = [state EXCEPT ![t] = "absent"]
    /\ UNCHANGED <<lastId, server, trusted, conn, agent, budget, history>>

Retryable(t) == state[t] \in {"failed", "timeout"}

\* retryTask reads the row and checks its state ...
RetryRead(c, t) ==
    /\ "retry" \in ConsoleOps
    /\ lastId < MaxTasks
    /\ conn[c] = Idle
    /\ Retryable(t)
    /\ conn' = [conn EXCEPT ![c] = [Idle EXCEPT !.op = "retry", !.phase = "chosen", !.task = t]]
    /\ UNCHANGED <<table, trusted, agent, budget, history>>

RetryServer(t) == server[t]

\* Mutant: a retry resets the row it read instead of inserting a copy.
RetrySave_Requeue(c) ==
    /\ conn[c].op = "retry" /\ conn[c].phase = "chosen"
    /\ state' = [state EXCEPT ![conn[c].task] = "generated"]
    /\ conn' = [conn EXCEPT ![c] = Idle]
    /\ UNCHANGED <<lastId, server, trusted, agent, budget, history>>

\* ... and inserts a copy of what it read.
RetrySave(c) ==
    /\ conn[c].op = "retry" /\ conn[c].phase = "chosen"
    /\ \/ InsertRow(RetryServer(conn[c].task))
       \/ lastId = MaxTasks /\ UNCHANGED table
    /\ conn' = [conn EXCEPT ![c] = Idle]
    /\ UNCHANGED <<trusted, agent, budget, history>>

\* rotateServerToken or deleteServer: the token the agents hold is void.
RotateServerToken(s) ==
    /\ "rotate" \in ConsoleOps
    /\ trusted' = {a \in trusted : Home[a] # s}
    /\ trusted' # trusted
    /\ UNCHANGED <<table, conn, agent, budget, history>>

\* The master process stops with whatever its handlers had done so far and
\* starts again; callers find their connection reset.
MasterRestart ==
    /\ crashes < MaxCrashes
    /\ crashes' = crashes + 1
    /\ conn' = [c \in Conns |->
                   IF Awaited(c) THEN [conn[c] EXCEPT !.phase = "broken"] ELSE Idle]
    /\ UNCHANGED <<table, trusted, agent, faults, history>>

-----------------------------------------------------------------------------
(* The agent.                                                                *)

Poll(a) ==
    /\ pc[a] = "poll"
    /\ pc' = [pc EXCEPT ![a] = "claiming"]
    /\ attempt' = [attempt EXCEPT ![a] = MaxAttempts]
    /\ UNCHANGED <<table, trusted, conn, held, wait, verdict, budget, history>>

\* Mutant: success is reported when the script starts.
Request_Optimistic(a) ==
    CASE pc[a] = "claiming"   -> [Idle EXCEPT !.op = "claim", !.phase = "sent",
                                              !.agent = a, !.tries = ClaimTries]
      [] OTHER                -> [Idle EXCEPT !.op = "report", !.phase = "sent",
                                              !.agent = a, !.task = held[a], !.state = "succeeded"]

\* The call the agent is making: a claim, the "running" report, the final one.
Request(a) ==
    CASE pc[a] = "claiming"   -> [Idle EXCEPT !.op = "claim", !.phase = "sent",
                                              !.agent = a, !.tries = ClaimTries]
      [] pc[a] = "announcing" -> [Idle EXCEPT !.op = "report", !.phase = "sent",
                                              !.agent = a, !.task = held[a], !.state = "running"]
      [] pc[a] = "reporting"  -> [Idle EXCEPT !.op = "report", !.phase = "sent",
                                              !.agent = a, !.task = held[a], !.state = verdict[a]]

\* Mutant: the "running" report is sent in the background.
Post_Background(a, c) ==
    /\ pc[a] \in {"claiming", "announcing", "reporting"}
    /\ wait[a] = NoConn
    /\ conn[c] = Idle
    /\ conn' = [conn EXCEPT ![c] = Request(a)]
    /\ IF pc[a] = "announcing"
       THEN pc' = [pc EXCEPT ![a] = "ready"] /\ UNCHANGED wait
       ELSE wait' = [wait EXCEPT ![a] = c] /\ UNCHANGED pc
    /\ UNCHANGED <<table, trusted, held, attempt, verdict, budget, history>>

Post(a, c) ==
    /\ pc[a] \in {"claiming", "announcing", "reporting"}
    /\ wait[a] = NoConn
    /\ conn[c] = Idle
    /\ conn' = [conn EXCEPT ![c] = Request(a)]
    /\ wait' = [wait EXCEPT ![a] = c]
    /\ UNCHANGED <<table, trusted, pc, held, attempt, verdict, budget, history>>

\* Mutant: the script waits until its "running" report was accepted.
AfterCall_Insist(a) == IF pc[a] = "announcing" THEN "announcing" ELSE "poll"

\* run_task goes on once a call is over; a report counts as delivered
\* whatever the master answered, and the "running" report may fail.
AfterCall(a) == CASE pc[a] = "claiming"   -> "poll"
                  [] pc[a] = "announcing" -> "ready"
                  [] pc[a] = "reporting"  -> "poll"

\* The task the agent holds once its call is over.
HeldAfter(a) == IF pc[a] = "reporting" THEN NoTask ELSE held[a]

Receive(a) ==
    LET c == wait[a] IN
    /\ c # NoConn
    /\ conn[c].phase = "answered"
    /\ conn' = [conn EXCEPT ![c] = Idle]
    /\ wait' = [wait EXCEPT ![a] = NoConn]
    /\ attempt' = [attempt EXCEPT ![a] = MaxAttempts]
    /\ IF pc[a] = "claiming" /\ conn[c].task # NoTask
       THEN /\ held' = [held EXCEPT ![a] = conn[c].task]
            /\ pc' = [pc EXCEPT ![a] = "announcing"]
       ELSE /\ held' = [held EXCEPT ![a] = HeldAfter(a)]
            /\ pc' = [pc EXCEPT ![a] = AfterCall(a)]
    /\ UNCHANGED <<table, trusted, verdict, budget, history>>

\* curl fails.  A call the master has not begun to handle may be lost or may
\* still arrive; one being handled goes on without its caller.
AttemptFails(a) ==
    LET c == wait[a] IN
    /\ c # NoConn
    /\ \/ conn[c].phase = "broken" /\ UNCHANGED faults
       \/ conn[c].phase # "broken" /\ faults < MaxFaults /\ faults' = faults + 1
    /\ \/ conn[c].phase \in {"sent", "answered", "broken"} /\ conn' = [conn EXCEPT ![c] = Idle]
       \/ conn[c].phase \notin {"answered", "broken"} /\ UNCHANGED conn
    /\ wait' = [wait EXCEPT ![a] = NoConn]
    /\ IF attempt[a] > 1
       THEN /\ attempt' = [attempt EXCEPT ![a] = @ - 1]
            /\ UNCHANGED <<pc, held>>
       ELSE /\ attempt' = [attempt EXCEPT ![a] = MaxAttempts]
            /\ pc' = [pc EXCEPT ![a] = AfterCall(a)]
            /\ held' = [held EXCEPT ![a] = HeldAfter(a)]
    /\ UNCHANGED <<table, trusted, verdict, crashes, history>>

StartScript(a) ==
    /\ pc[a] = "ready"
    /\ pc' = [pc EXCEPT ![a] = "executing"]
    /\ runs' = [runs EXCEPT ![held[a]] = @ + 1]
    /\ lastRun' = [lastRun EXCEPT ![a] = held[a]]
    /\ UNCHANGED <<table, trusted, conn, held, wait, attempt, verdict, budget, claims, outcome>>

\* Mutant: only a script that succeeded is reported.
FinishScript_Silent(a, v) ==
    /\ pc[a] = "executing"
    /\ pc' = [pc EXCEPT ![a] = IF v = "failed" THEN "poll" ELSE "reporting"]
    /\ held' = [held EXCEPT ![a] = IF v = "failed" THEN NoTask ELSE @]
    /\ verdict' = [verdict EXCEPT ![a] = v]
    /\ outcome' = [outcome EXCEPT ![held[a]] = v]
    /\ UNCHANGED <<table, trusted, conn, wait, attempt, budget, claims, runs, lastRun>>

\* Exit status 0, or anything else: 124 when the time limit killed the script.
FinishScript(a, v) ==
    /\ pc[a] = "executing"
    /\ pc' = [pc EXCEPT ![a] = "reporting"]
    /\ verdict' = [verdict EXCEPT ![a] = v]
    /\ outcome' = [outcome EXCEPT ![held[a]] = v]
    /\ UNCHANGED <<table, trusted, conn, held, wait, attempt, budget, claims, runs, lastRun>>

\* The agent dies and its script with it; its open call goes on in the master
\* or is lost with it.
AgentCrash(a) ==
    /\ pc[a] # "down"
    /\ crashes < MaxCrashes
    /\ crashes' = crashes + 1
    /\ pc' = [pc EXCEPT ![a] = "down"]
    /\ held' = [held EXCEPT ![a] = NoTask]
    /\ LET c == wait[a] IN
       \/ c # NoConn /\ conn[c].phase \in {"sent", "answered", "broken"}
          /\ conn' = [conn EXCEPT ![c] = Idle]
       \/ (c # NoConn => conn[c].phase \notin {"answered", "broken"}) /\ UNCHANGED conn
    /\ wait' = [wait EXCEPT ![a] = NoConn]
    /\ UNCHANGED <<table, trusted, attempt, verdict, faults, history>>

\* Mutant: nobody restarts a dead agent.
AgentRestart_Never(a) == pc[a] = "down" /\ FALSE /\ UNCHANGED vars

\* Restart=always.
AgentRestart(a) ==
    /\ pc[a] = "down"
    /\ pc' = [pc EXCEPT ![a] = "poll"]
    /\ UNCHANGED <<table, trusted, conn, held, wait, attempt, verdict, budget, history>>

-----------------------------------------------------------------------------
Console ==
    \/ \E s \in Servers : CreateTask(s) \/ RotateServerToken(s)
    \/ \E t \in TaskIds : DeleteTask(t)
    \/ \E t \in TaskIds, v \in ManualStates : UpdateTaskState(t, v)
    \/ \E c \in Conns, t \in TaskIds : RetryRead(c, t)

Handle(c) ==
    \/ ClaimRejected(c) \/ ClaimSelect(c) \/ MarkTaskClaimed(c)
    \/ ReportRead(c) \/ ReportWrite(c)
    \/ RetrySave(c)

AgentStep(a) ==
    \/ Poll(a)
    \/ \E c \in Conns : Post(a, c)
    \/ Receive(a)
    \/ StartScript(a)
    \/ \E v \in {"succeeded", "failed"} : FinishScript(a, v)
    \/ AgentRestart(a)

Fault ==
    \/ MasterRestart
    \/ \E a \in Agents : AttemptFails(a) \/ AgentCrash(a)

Next ==
    \/ Console
    \/ \E c \in Conns : Handle(c)
    \/ \E a \in Agents : AgentStep(a)
    \/ Fault

Safe == Init /\ [][Next]_vars

\* A handler returns, the agent's loop goes on (curl and the script both have
\* a time limit, systemd restarts a dead agent), and a reset connection is
\* noticed.  Nothing is assumed of the console or of faults.
Fairness ==
    /\ \A c \in Conns : WF_vars(Handle(c))
    /\ \A a \in Agents : WF_vars(AgentStep(a))
    /\ \A a \in Agents : WF_vars(AttemptFails(a) /\ UNCHANGED faults)

Spec == Safe /\ Fairness

-----------------------------------------------------------------------------
(* Properties.                                                               *)

TypeOK ==
    /\ lastId  \in 0..MaxTasks
    /\ state   \in [TaskIds -> TaskStates]
    /\ server  \in [TaskIds -> Servers \cup {NoServer}]
    /\ \A t \in TaskIds : state[t] # "absent" => server[t] \in Servers
    /\ trusted \subseteq Agents
    /\ conn    \in [Conns -> Calls]
    /\ pc      \in [Agents -> AgentSteps]
    /\ held    \in [Agents -> TaskIds \cup {NoTask}]
    /\ wait    \in [Agents -> Conns \cup {NoConn}]
    /\ attempt \in [Agents -> 1..MaxAttempts]
    /\ verdict \in [Agents -> {"none", "succeeded", "failed"}]
    /\ faults  \in 0..MaxFaults
    /\ crashes \in 0..MaxCrashes
    /\ claims  \in [TaskIds -> Nat]
    /\ runs    \in [TaskIds -> Nat]
    /\ outcome \in [TaskIds -> {"none", "succeeded", "failed"}]
    /\ lastRun \in [Agents -> TaskIds \cup {NoTask}]

\* A task is handed out at most once, and its script is started at most once
\* and never without having been handed out: however often the claim was
\* repeated, whichever agents of the server compete for it, whoever crashes.
RunsAtMostOnce ==
    \A t \in TaskIds : claims[t] <= 1 /\ runs[t] <= claims[t]

\* A task that is still in the queue has left no trace outside it: no agent
\* holds it, no report about it is under way, its script never ran.
QueuedIsUntouched ==
    \A t \in TaskIds : state[t] = "generated" =>
        /\ claims[t] = 0 /\ runs[t] = 0
        /\ \A a \in Agents : held[a] # t
        /\ \A c \in Conns : conn[c].op = "report" => conn[c].task # t

(* The invariants above are not inductive; these parts make them so.         *)

\* Rows beyond the counter were never used, rows below it have a server.
TableInv ==
    \A t \in TaskIds :
        IF t <= lastId THEN server[t] \in Servers
        ELSE state[t] = "absent" /\ claims[t] = 0

\* What a call can look like, by operation.
CallOK(c) ==
    \/ conn[c] = Idle
    \/ /\ conn[c].op = "claim"
       /\ conn[c].phase \in {"sent", "again", "chosen", "answered", "broken"}
       /\ conn[c].agent \in Agents
       /\ conn[c].tries > 0
       /\ conn[c].phase = "chosen" => conn[c].task \in 1..lastId
    \/ /\ conn[c].op = "report"
       /\ conn[c].phase \in {"sent", "admitted", "answered", "broken"}
       /\ conn[c].agent \in Agents
       /\ conn[c].state # "none"
       /\ conn[c].task # NoTask => claims[conn[c].task] > 0
       /\ conn[c].phase \in {"sent", "admitted"} => conn[c].task # NoTask
    \/ /\ conn[c].op = "retry"
       /\ conn[c].phase = "chosen"
       /\ conn[c].task \in 1..lastId

CallInv == \A c \in Conns : CallOK(c)

\* How the agent's step, the task it holds and the call it waits for agree.
AgentOK(a) ==
    /\ held[a] # NoTask <=> pc[a] \in {"announcing", "ready", "executing", "reporting"}
    /\ held[a] # NoTask => claims[held[a]] > 0
    /\ pc[a] = "reporting" => verdict[a] # "none"
    /\ wait[a] # NoConn =>
         /\ conn[wait[a]].agent = a
         /\ \/ pc[a] = "claiming" /\ conn[wait[a]].op = "claim"
            \/ pc[a] \in {"announcing", "reporting"} /\ conn[wait[a]].op = "report"

AgentInv == \A a \in Agents : AgentOK(a)

\* The answer of a claim carries a task the agent has not read yet.
Handed(c) == conn[c].op = "claim" /\ conn[c].phase = "answered" /\ conn[c].task # NoTask

\* A task handed out is in one place, and has not run before it gets there.
CustodyInv ==
    /\ \A t \in TaskIds : state[t] = "generated" => claims[t] = 0
    /\ \A c \in Conns : Handed(c) =>
         /\ claims[conn[c].task] > 0
         /\ runs[conn[c].task] = 0
         /\ \A a \in Agents : held[a] # conn[c].task
         /\ \A d \in Conns : Handed(d) /\ conn[d].task = conn[c].task => d = c
    /\ \A a, b \in Agents : held[a] # NoTask /\ held[a] = held[b] => a = b
    /\ \A a \in Agents : pc[a] \in {"announcing", "ready"} => runs[held[a]] = 0

EngineInv == TypeOK /\ TableInv /\ CallInv /\ AgentInv /\ CustodyInv /\ RunsAtMostOnce

\* When only agents report, the state "succeeded" or "failed" is the exit
\* status of the one run the task had, nothing reads "timeout", and what the
\* console retries is a task whose script ran and failed: never one that
\* succeeded or may still be running.
TruthfulVerdict ==
    "update" \notin ConsoleOps =>
        /\ \A t \in TaskIds : state[t] \in Finished => outcome[t] = state[t]
        /\ \A c \in Conns : conn[c].op = "retry" => outcome[conn[c].task] = "failed"

\* The call on c is a report that may still be written.
Reporting(c) == conn[c].op = "report" /\ conn[c].phase \in {"sent", "admitted"}

\* What makes it inductive: a report under way and the agent that makes it
\* tell how the script ended, and no script has ended that has not run.
TruthInv ==
    /\ TruthfulVerdict
    /\ \A c \in Conns : Reporting(c) =>
         conn[c].state = "running" \/ conn[c].state = outcome[conn[c].task]
    /\ \A a \in Agents :
         /\ pc[a] = "reporting" => verdict[a] = outcome[held[a]]
         /\ pc[a] = "executing" => outcome[held[a]] = "none" /\ runs[held[a]] # 0
    /\ \A t \in TaskIds : runs[t] = 0 => outcome[t] = "none"

\* When only agents report, and as long as nothing is lost and nothing
\* crashes, a final state stays, although neither reportAgentTask nor the
\* agent guards against a later report.
VerdictIsFinal ==
    []["update" \notin ConsoleOps /\ faults' = 0 /\ crashes' = 0 =>
          \A t \in TaskIds : state[t] \in Finished => state'[t] \in {state[t], "absent"}]_vars

\* What it rests on: without a disturbance the agent waits for the report it
\* has sent, so that "running" is written before the script has run.
PatienceInv ==
    /\ crashes = 0 => \A c \in Conns : conn[c].phase # "broken"
    /\ faults = 0 /\ crashes = 0 => \A c \in Conns : Reporting(c) =>
         /\ wait[conn[c].agent] = c
         /\ conn[c].task = held[conn[c].agent]
         /\ conn[c].state = "running" => pc[conn[c].agent] = "announcing"

\* What is handed out of a server is older than what still waits there, a row
\* chosen is the oldest, and an agent gets tasks of its server, in order.
OrderInv ==
    /\ \A t, u \in TaskIds :
         state[t] = "generated" /\ claims[u] > 0 /\ server[u] = server[t] => u < t
    /\ \A c \in Conns : conn[c].op = "claim" /\ conn[c].phase = "chosen" =>
         \A u \in TaskIds :
            state[u] = "generated" /\ server[u] = Home[conn[c].agent] => conn[c].task <= u
    /\ \A c \in Conns : Handed(c) =>
         /\ wait[conn[c].agent] = c
         /\ server[conn[c].task] = Home[conn[c].agent]
         /\ lastRun[conn[c].agent] < conn[c].task
    /\ \A a \in Agents :
         /\ held[a] # NoTask => server[held[a]] = Home[a]
         /\ pc[a] \in {"announcing", "ready"} => lastRun[a] < held[a]
         /\ lastRun[a] # NoTask => claims[lastRun[a]] > 0 /\ server[lastRun[a]] = Home[a]

\* The engine does what TaskDispatch promises.  DispatchSafe: tasks leave the
\* queue of their server oldest first and once, and every agent starts its
\* scripts in the order the tasks were created.  DispatchSpec adds that no
\* queue is left waiting, although calls fail and agents and master crash.
Dispatch == INSTANCE TaskDispatch WITH
    top        <- lastId,
    home       <- server,
    pending    <- {t \in TaskIds : state[t] = "generated"},
    dispatched <- {t \in TaskIds : claims[t] > 0},
    last       <- lastRun

DispatchSafe == Dispatch!Safe
DispatchSpec == Dispatch!Spec

\* Whatever fails, the agent's loop comes round to its next poll.
AgentComesRound == \A a \in Agents : (pc[a] # "poll") ~> (pc[a] = "poll")

\* A claimed task is executed and its result recorded.
Reported(t) == state[t] \in Finished \cup {"absent"}
ClaimedIsReported == \A t \in TaskIds : (state[t] = "claimed") ~> Reported(t)

\* What is left of that on a network that may lose a call: as long as nothing
\* was lost and nothing crashed.
UndisturbedIsReported ==
    \A t \in TaskIds : (state[t] = "claimed") ~> (Reported(t) \/ faults > 0 \/ crashes > 0)
=============================================================================
