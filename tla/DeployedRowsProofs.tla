------------------------- MODULE DeployedRowsProofs -------------------------
(***************************************************************************)
(* What the rows of protocol_node and server_forward_rule tell of the      *)
(* server, for any number of rows, requests, connections, tasks, faults    *)
(* and crashes.  The first part is about the steps that the two services   *)
(* share (Deployment); then comes what a report does to a row of each.     *)
(***************************************************************************)
EXTENDS ProtocolNodes, TLAPS

Rules == INSTANCE ForwardRules

-----------------------------------------------------------------------------
(* The steps that the two services share.                                  *)

(* No step forgets what a task was for, that it was handed out, or how its *)
(* script ended.                                                           *)
Keeps ==
    \A t \in TaskIds :
        /\ task[t].id \in RowIds =>
              /\ task'[t].id = task[t].id
              /\ task'[t].action = task[t].action
              /\ task[t].state # "generated" => task'[t].state # "generated"
        /\ outcome[t] \in Final => outcome'[t] = outcome[t]

LEMMA NoRecords ==
    /\ NoRow \in RowRecords /\ NoEntry \in Entries
    /\ Free \in RequestRecords /\ Quiet \in ReportRecords
  BY DEF NoRow, NoEntry, Free, Quiet, RowRecords, Entries, RequestRecords, ReportRecords,
         RowStates, NoTask

(* What is known of a row stays known.                                     *)
LEMMA EndedKept ==
    ASSUME Keeps, NEW n \in RowIds, NEW actions, NEW how \in Final, Ended(n, actions, how)
    PROVE  Ended(n, actions, how)'
  BY DEF Keeps, Ended, TasksOf

LEMMA HandedOutKept ==
    ASSUME Keeps, NEW n \in RowIds, NEW actions, HandedOut(n, actions)
    PROVE  HandedOut(n, actions)'
  BY DEF Keeps, HandedOut, TasksOf

LEMMA InitDeployment == Init => DeploymentInv
<1> SUFFICES ASSUME Init PROVE DeploymentInv
  OBVIOUS
<1>1. TypeOK
  BY NoRecords, DeploymentAssumption DEF Init, TypeOK, TaskIds, NoTask
<1>2. TableInv /\ LoopInv /\ RequestInv /\ ReportInv
  BY DeploymentAssumption DEF Init, TableInv, LoopInv, RequestInv, ReportInv, TaskIds, NoTask, Free, Quiet
<1> QED BY <1>1, <1>2 DEF DeploymentInv

(* The console's requests and their handlers.                              *)

(* A request begins with an entity that has a port, for a row that exists. *)
LEMMA BeginInv ==
    ASSUME DeploymentInv, NEW h \in Requests, NEW op \in AllOps, NEW n \in RowIds,
           NEW step \in {"write", "task"}, NEW r \in RowRecords, r.port \in Ports,
           Begin(h, op, n, step, r),
           row' = row \/ row' = [row EXCEPT ![n] = r],
           row'[n] # NoRow,
           UNCHANGED <<tasks, agent, rep, site, budget>>
    PROVE  DeploymentInv' /\ Keeps
<1> USE DEF DeploymentInv, tasks, agent, site, budget
<1> DEFINE q == [op |-> op, id |-> n, step |-> step, row |-> r]
<1>1. op \in Ops /\ req' = [req EXCEPT ![h] = q] /\ q \in RequestRecords
  BY DEF Begin, RequestRecords
<1>2. r # NoRow /\ row' \in [RowIds -> RowRecords] /\ \A m \in RowIds : row[m] # NoRow => row'[m] # NoRow
  BY DeploymentAssumption DEF TypeOK, NoRow
<1>3. TypeOK'
  BY <1>1, <1>2 DEF TypeOK
<1>4. TableInv' /\ LoopInv' /\ ReportInv'
  BY <1>2 DEF TableInv, LoopInv, ReportInv, Claimed
<1>5. RequestInv'
  BY <1>1, <1>2, DeploymentAssumption DEF RequestInv, TypeOK, RequestRecords, AllOps
<1>6. Keeps
  BY DEF Keeps
<1> QED BY <1>3, <1>4, <1>5, <1>6

LEMMA CreateRowInv ==
    ASSUME DeploymentInv, NEW h \in Requests, NEW n \in RowIds, NEW p \in Ports, CreateRow(h, n, p)
    PROVE  DeploymentInv' /\ Keeps
<1> DEFINE r == [state |-> "pending", live |-> TRUE, port |-> p]
<1>1. r \in RowRecords /\ r.port \in Ports
  BY DEF RowRecords, RowStates
<1>2. row' = [row EXCEPT ![n] = r] /\ row'[n] # NoRow
  BY DEF CreateRow, NoRow, DeploymentInv, TypeOK
<1> HIDE DEF r
<1>3. Begin(h, "create", n, "write", r) /\ UNCHANGED <<tasks, agent, rep, site, budget>>
  BY DEF CreateRow, r
<1> QED BY <1>1, <1>2, <1>3, BeginInv DEF AllOps

LEMMA UpdateRowInv ==
    ASSUME DeploymentInv, NEW h \in Requests, NEW n \in RowIds, NEW p \in Ports, UpdateRow(h, n, p)
    PROVE  DeploymentInv' /\ Keeps
<1> DEFINE r == [row[n] EXCEPT !.state = "pending", !.port = p]
<1>1. r \in RowRecords /\ r.port \in Ports
  BY DEF RowRecords, RowStates, DeploymentInv, TypeOK
<1>2. row' = row /\ row'[n] # NoRow
  BY DEF UpdateRow
<1>3. Begin(h, "update", n, "write", r) /\ UNCHANGED <<tasks, agent, rep, site, budget>>
  BY DEF UpdateRow
<1> HIDE DEF r
<1> QED BY <1>1, <1>2, <1>3, BeginInv DEF AllOps

LEMMA DeleteRowInv ==
    ASSUME DeploymentInv, NEW h \in Requests, NEW n \in RowIds, DeleteRow(h, n)
    PROVE  DeploymentInv' /\ Keeps
<1> DEFINE r == Deleting(row[n])
<1>1. row' = row /\ row[n] # NoRow /\ row[n] \in RowRecords /\ row[n].port \in Ports
  BY DEF DeleteRow, DeploymentInv, TypeOK
<1>2. r \in RowRecords /\ r.port \in Ports
  BY <1>1 DEF RowRecords, RowStates, Deleting
<1>3. Begin(h, "delete", n, "write", r) /\ UNCHANGED <<tasks, agent, rep, site, budget>>
  BY DEF DeleteRow
<1> HIDE DEF r
<1> QED BY <1>1, <1>2, <1>3, BeginInv DEF AllOps

LEMMA RestartRowInv ==
    ASSUME DeploymentInv, NEW h \in Requests, NEW n \in RowIds, RestartRow(h, n)
    PROVE  DeploymentInv' /\ Keeps
<1> DEFINE r == row[n]
<1>1. row' = row /\ row[n] # NoRow /\ r \in RowRecords /\ r.port \in Ports
  BY DEF RestartRow, DeploymentInv, TypeOK
<1>2. Begin(h, "restart", n, "task", r) /\ UNCHANGED <<tasks, agent, rep, site, budget>>
  BY DEF RestartRow
<1> HIDE DEF r
<1> QED BY <1>1, <1>2, BeginInv DEF AllOps

LEMMA WriteRowInv ==
    ASSUME DeploymentInv, NEW h \in Requests, WriteRow(h)
    PROVE  DeploymentInv' /\ Keeps
<1> USE DEF DeploymentInv, tasks, agent, site, budget
<1>1. /\ req[h] \in RequestRecords /\ req[h].id \in RowIds /\ req[h].op # "none"
      /\ req[h].row \in RowRecords /\ req[h].row.port \in Ports /\ req[h].row # NoRow
  BY DeploymentAssumption DEF WriteRow, RequestInv, TypeOK, RequestRecords, NoRow
<1>2. /\ row' = [row EXCEPT ![req[h].id] = req[h].row]
      /\ row' \in [RowIds -> RowRecords] /\ \A m \in RowIds : row[m] # NoRow => row'[m] # NoRow
  BY <1>1 DEF WriteRow, TypeOK
<1>3. /\ req' \in [Requests -> RequestRecords]
      /\ req' = [req EXCEPT ![h] = Free] \/ req' = [req EXCEPT ![h].step = "task"]
  <2>1. Free \in RequestRecords /\ [req[h] EXCEPT !.step = "task"] \in RequestRecords
    BY <1>1, NoRecords DEF RequestRecords
  <2> QED BY <2>1 DEF WriteRow, Return, TypeOK
<1>4. TypeOK'
  BY <1>1, <1>2, <1>3 DEF TypeOK, WriteRow
<1>5. TableInv' /\ LoopInv' /\ ReportInv'
  BY <1>2 DEF TableInv, LoopInv, ReportInv, Claimed, WriteRow
<1>6. RequestInv'
  BY <1>1, <1>2, <1>3 DEF RequestInv, TypeOK, RequestRecords, Free
<1>7. Keeps
  BY DEF Keeps, WriteRow
<1> QED BY <1>4, <1>5, <1>6, <1>7

LEMMA CreateTaskInv ==
    ASSUME DeploymentInv, NEW h \in Requests, CreateTask(h)
    PROVE  DeploymentInv' /\ Keeps
<1> USE DEF DeploymentInv, agent, site, budget
<1> DEFINE new == lastTask + 1
           e == [state |-> "generated", id |-> req[h].id,
                 action |-> Action(req[h].op), port |-> req[h].row.port]
<1>1. /\ new \in TaskIds /\ lastTask \in Nat /\ lastTask' = new /\ new \in 0..MaxTasks
      /\ \A t \in TaskIds : (t <= lastTask \/ t = new) <=> t <= new
      /\ \A t \in TaskIds : t # new => ~(t > lastTask /\ t <= new)
  BY DeploymentAssumption DEF CreateTask, TypeOK, TaskIds
<1>2. /\ req[h] \in RequestRecords /\ req[h].id \in RowIds /\ req[h].op # "none"
      /\ req[h].row \in RowRecords /\ req[h].row.port \in Ports /\ row[req[h].id] # NoRow
  BY DEF CreateTask, RequestInv, TypeOK, RequestRecords
<1>3. Action(req[h].op) \in {"present", "absent", "restarted"}
  BY DEF Action
<1>4. task' = [task EXCEPT ![new] = e] /\ e \in Entries /\ e.id \in RowIds /\ e.port \in Ports
  BY <1>2, <1>3 DEF CreateTask, Entries
<1>5. task[new] = NoEntry /\ outcome[new] = "none"
  BY <1>1 DEF TableInv
<1>6. /\ req' \in [Requests -> RequestRecords]
      /\ \/ req' = [req EXCEPT ![h] = Free]
         \/ req' = [req EXCEPT ![h].step = "write", ![h].row.state = "pending"]
  <2>1. [req[h].row EXCEPT !.state = "pending"] \in RowRecords
    BY <1>2 DEF RowRecords, RowStates
  <2>2. Free \in RequestRecords
        /\ [req[h] EXCEPT !.step = "write", !.row.state = "pending"] \in RequestRecords
    BY <1>2, <2>1, NoRecords DEF RequestRecords
  <2> QED BY <2>2 DEF CreateTask, Return, TypeOK
<1>7. row' = row /\ UNCHANGED <<agent, rep, site, budget>>
  BY DEF CreateTask
<1>8. TypeOK'
  BY <1>1, <1>4, <1>6, <1>7 DEF TypeOK
<1> HIDE DEF new
<1>9. TableInv'
  <2> SUFFICES ASSUME NEW t \in TaskIds
               PROVE  IF t <= new
                      THEN /\ task'[t].id \in RowIds /\ task'[t].port \in Ports
                           /\ task'[t].state # "absent" /\ task'[t].action # "none"
                           /\ row[task'[t].id] # NoRow
                           /\ task'[t].state = "generated" => outcome[t] = "none"
                      ELSE task'[t] = NoEntry /\ outcome[t] = "none"
    BY <1>1, <1>7 DEF TableInv
  <2>1. CASE t = new
    <3>1. task'[t] = e
      BY <2>1, <1>1, <1>4 DEF TypeOK
    <3> QED BY <2>1, <3>1, <1>1, <1>2, <1>3, <1>4, <1>5
  <2>2. CASE t # new
    <3>1. task'[t] = task[t] /\ (t <= new <=> t <= lastTask)
      BY <2>2, <1>1, <1>4 DEF TypeOK
    <3> QED BY <3>1 DEF TableInv
  <2> QED BY <2>1, <2>2
<1>10. \A t \in TaskIds : Claimed(t) => Claimed(t)' /\ t # new
  BY <1>1, <1>4, <1>5 DEF Claimed, NoEntry, TypeOK
<1>11. LoopInv' /\ ReportInv'
  BY <1>7, <1>10 DEF LoopInv, ReportInv, Claimed
<1>12. RequestInv'
  <2> SUFFICES ASSUME NEW g \in Requests, req'[g].step # "none"
               PROVE  /\ req'[g].op # "none" /\ req'[g].id \in RowIds
                      /\ row[req'[g].id] # NoRow /\ req'[g].row.port \in Ports
    BY <1>7 DEF RequestInv
  <2>1. req[g] \in RequestRecords /\ req[g].row \in RowRecords
    BY DEF TypeOK, RequestRecords
  <2>2. CASE g # h
    <3>1. req'[g] = req[g]
      BY <1>6, <2>2 DEF TypeOK
    <3> QED BY <3>1 DEF RequestInv
  <2>3. CASE g = h
    <3>1. req'[h] = Free \/ req'[h] = [req[h] EXCEPT !.step = "write", !.row.state = "pending"]
      BY <1>6 DEF TypeOK
    <3>2. req'[h] # Free
      BY <2>3 DEF Free
    <3>3. req'[h] = [req[h] EXCEPT !.step = "write",
                                   !.row = [req[h].row EXCEPT !.state = "pending"]]
      BY <3>1, <3>2, <2>1 DEF RequestRecords
    <3>4. PICK r : r = [req[h].row EXCEPT !.state = "pending"]
      OBVIOUS
    <3>5. r.port = req[h].row.port
      BY <1>2, <3>4 DEF RowRecords
    <3>6. req'[h].op = req[h].op /\ req'[h].id = req[h].id /\ req'[h].row = r
      BY <1>2, <3>3, <3>4 DEF RequestRecords
    <3> QED BY <1>2, <2>3, <3>5, <3>6
  <2> QED BY <2>2, <2>3
<1>13. Keeps
  BY <1>1, <1>4, <1>5, <1>7, DeploymentAssumption DEF Keeps, NoEntry, TypeOK
<1> QED BY <1>8, <1>9, <1>11, <1>12, <1>13

(* The agent.                                                              *)

(* A step that leaves rows and requests alone and forgets no claim.        *)
LEMMA ClaimedKept ==
    ASSUME DeploymentInv, TypeOK', UNCHANGED <<row, lastTask>>,
           \A t \in TaskIds : /\ task'[t].id = task[t].id /\ task'[t].action = task[t].action
                              /\ task'[t].port = task[t].port
                              /\ task[t].state = "absent" <=> task'[t].state = "absent"
                              /\ task'[t].state = "generated" => task[t].state = "generated",
           \A t \in TaskIds : ~Claimed(t)' => outcome'[t] = outcome[t]
    PROVE  TableInv'
<1> SUFFICES ASSUME NEW t \in TaskIds
             PROVE  IF t <= lastTask
                    THEN /\ task'[t].id \in RowIds /\ task'[t].port \in Ports
                         /\ task'[t].state # "absent" /\ task'[t].action # "none"
                         /\ row[task'[t].id] # NoRow
                         /\ task'[t].state = "generated" => outcome'[t] = "none"
                    ELSE task'[t] = NoEntry /\ outcome'[t] = "none"
  BY DEF TableInv
<1>1. CASE t <= lastTask
  BY <1>1 DEF DeploymentInv, TableInv, Claimed
<1>2. CASE ~(t <= lastTask)
  <2>1. task[t] = NoEntry /\ outcome[t] = "none"
    BY <1>2 DEF DeploymentInv, TableInv
  <2>2. task'[t] = NoEntry
    BY <2>1 DEF TypeOK, Entries, NoEntry
  <2> QED BY <1>2, <2>1, <2>2 DEF Claimed, NoEntry
<1> QED BY <1>1, <1>2

LEMMA ClaimInv ==
    ASSUME DeploymentInv, Claim
    PROVE  DeploymentInv' /\ Keeps
<1> USE DEF DeploymentInv, rows, site
<1>1. PICK t \in TaskIds :
        /\ NextTask(t)
        /\ task' = [task EXCEPT ![t].state = "claimed"]
        /\ \/ pc' = "announcing" /\ held' = t /\ UNCHANGED faults
           \/ faults < MaxFaults /\ faults' = faults + 1 /\ UNCHANGED <<pc, held>>
  BY DEF Claim
<1>2. /\ pc = "poll" /\ held = NoTask
      /\ UNCHANGED <<row, req, lastTask, wait, rep, config, outcome, crashes>>
  BY DEF Claim, LoopInv
<1>3. task[t].state = "generated" /\ task[t] \in Entries /\ t # NoTask
  BY <1>1 DEF NextTask, TypeOK, TaskIds, NoTask
<1>4. /\ task' \in [TaskIds -> Entries]
      /\ task'[t].state = "claimed" /\ task'[t].id = task[t].id /\ task'[t].action = task[t].action
      /\ task'[t].port = task[t].port
      /\ \A u \in TaskIds : u # t => task'[u] = task[u]
  BY <1>1, <1>3 DEF TypeOK, Entries
<1>5. faults' \in 0..MaxFaults
  BY <1>1, DeploymentAssumption DEF TypeOK
<1>6. TypeOK'
  BY <1>1, <1>2, <1>4, <1>5 DEF TypeOK
<1>7. outcome[t] = "none"
  BY <1>3 DEF TableInv, NoEntry
<1>8. TableInv'
  BY <1>2, <1>3, <1>4, <1>6, ClaimedKept
<1>9. Claimed(t)' /\ \A u \in TaskIds : Claimed(u) => Claimed(u)'
  BY <1>4 DEF Claimed
<1>10. LoopInv'
  BY <1>1, <1>2, <1>3, <1>7, <1>9 DEF LoopInv
<1>11. RequestInv'
  BY <1>2 DEF RequestInv
<1>12. ReportInv'
  BY <1>2, <1>9 DEF ReportInv, Claimed
<1>13. Keeps
  BY <1>2, <1>4 DEF Keeps
<1> QED BY <1>6, <1>8, <1>10, <1>11, <1>12, <1>13

(* Steps that change neither rows, requests, tasks nor outcomes.           *)
LEMMA TransportInv ==
    ASSUME DeploymentInv, UNCHANGED <<row, tasks, site>>, LoopInv', ReportInv', RequestInv',
           pc' \in {"poll", "announcing", "executing", "reporting"},
           held' \in TaskIds \cup {NoTask}, wait' \in Conns \cup {NoConn},
           req' \in [Requests -> RequestRecords], rep' \in [Conns -> ReportRecords],
           faults' \in 0..MaxFaults, crashes' \in 0..MaxCrashes
    PROVE  DeploymentInv' /\ Keeps
<1> USE DEF DeploymentInv, tasks, site
<1>1. TypeOK'
  BY DEF TypeOK
<1>2. TableInv' /\ Keeps
  BY DEF TableInv, Keeps
<1> QED BY <1>1, <1>2

LEMMA PostInv ==
    ASSUME DeploymentInv, NEW c \in Conns, Post(c)
    PROVE  DeploymentInv' /\ Keeps
<1> USE DEF DeploymentInv, rows, tasks, site, budget
<1> DEFINE s == IF pc = "announcing" THEN "running" ELSE outcome[held]
           r == [phase |-> "sent", task |-> held, row |-> NoRow, state |-> s]
<1>1. /\ Claimed(held) /\ held \in TaskIds
      /\ s \in {"running"} \cup Final
      /\ s \in Final => outcome[held] = s
  BY DEF Post, LoopInv, Claimed, NoTask, Final
<1>2. /\ rep' = [rep EXCEPT ![c] = r]
      /\ UNCHANGED <<row, req, lastTask, task, pc, held, config, outcome, faults, crashes>>
  BY DEF Post
<1> HIDE DEF s
<1>3. /\ r \in ReportRecords /\ r.phase = "sent" /\ r.task = held /\ r.state = s
  BY <1>1, NoRecords DEF ReportRecords
<1> HIDE DEF r
<1>4. rep' \in [Conns -> ReportRecords] /\ rep'[c] = r /\ \A d \in Conns : d # c => rep'[d] = rep[d]
  BY <1>2, <1>3 DEF TypeOK
<1>5. ReportInv'
  BY <1>1, <1>2, <1>3, <1>4 DEF ReportInv, Claimed, Final
<1>6. LoopInv' /\ RequestInv'
  BY <1>2 DEF LoopInv, RequestInv, Claimed, Post
<1>7. wait' \in Conns \cup {NoConn}
  BY DEF Post
<1> QED BY <1>2, <1>4, <1>5, <1>6, <1>7, TransportInv DEF TypeOK

(* A report that becomes quiet or is no longer handled claims nothing.     *)
LEMMA ReportsLost ==
    ASSUME DeploymentInv, UNCHANGED <<task, outcome>>, rep' \in [Conns -> ReportRecords],
           \A d \in Conns : rep'[d] = rep[d] \/ rep'[d].phase \notin {"sent", "written", "read"}
    PROVE  ReportInv'
  BY DEF DeploymentInv, ReportInv, Claimed

LEMMA AdvanceLoop ==
    ASSUME DeploymentInv, UNCHANGED <<task, outcome>>, Advance, pc \in {"announcing", "reporting"}
    PROVE  /\ LoopInv' /\ pc' \in {"poll", "announcing", "executing", "reporting"}
           /\ held' \in TaskIds \cup {NoTask} /\ wait' \in Conns \cup {NoConn}
  BY DEF DeploymentInv, LoopInv, Advance, TypeOK, Claimed

LEMMA ReceiveInv ==
    ASSUME DeploymentInv, Receive
    PROVE  DeploymentInv' /\ Keeps
<1> USE DEF DeploymentInv, rows, tasks, site, budget
<1>1. /\ wait \in Conns /\ rep' = [rep EXCEPT ![wait] = Quiet] /\ Advance
      /\ UNCHANGED <<row, req, lastTask, task, config, outcome, faults, crashes>>
  BY DEF Receive, TypeOK
<1>2. pc \in {"announcing", "reporting"}
  BY DEF Receive, LoopInv
<1>3. rep' \in [Conns -> ReportRecords] /\ \A d \in Conns : rep'[d] = rep[d] \/ rep'[d].phase = "idle"
  BY <1>1, NoRecords DEF TypeOK, Quiet
<1>4. ReportInv'
  BY <1>1, <1>3, ReportsLost
<1>5. RequestInv'
  BY <1>1 DEF RequestInv
<1> QED BY <1>1, <1>2, <1>3, <1>4, <1>5, AdvanceLoop, TransportInv DEF TypeOK

LEMMA AttemptFailsInv ==
    ASSUME DeploymentInv, AttemptFails
    PROVE  DeploymentInv' /\ Keeps
<1> USE DEF DeploymentInv, rows, tasks, site, budget
<1>1. /\ wait \in Conns
      /\ rep' = [rep EXCEPT ![wait] = Quiet] \/ UNCHANGED rep
      /\ UNCHANGED <<row, req, lastTask, task, config, outcome, crashes>>
  BY DEF AttemptFails, TypeOK
<1>2. pc \in {"announcing", "reporting"}
  BY DEF AttemptFails, LoopInv
<1>3. rep' \in [Conns -> ReportRecords] /\ \A d \in Conns : rep'[d] = rep[d] \/ rep'[d].phase = "idle"
  BY <1>1, NoRecords DEF TypeOK, Quiet
<1>4. ReportInv'
  BY <1>1, <1>3, ReportsLost
<1>5. RequestInv'
  BY <1>1 DEF RequestInv
<1>6. faults' \in 0..MaxFaults
  BY DeploymentAssumption DEF AttemptFails, TypeOK
<1>7. /\ LoopInv' /\ pc' \in {"poll", "announcing", "executing", "reporting"}
      /\ held' \in TaskIds \cup {NoTask} /\ wait' \in Conns \cup {NoConn}
  <2>1. CASE Advance
    BY <2>1, <1>1, <1>2, AdvanceLoop
  <2>2. CASE wait' = NoConn /\ UNCHANGED <<pc, held>>
    BY <2>2, <1>1 DEF LoopInv, Claimed, TypeOK
  <2> QED BY <2>1, <2>2 DEF AttemptFails
<1> QED BY <1>1, <1>3, <1>4, <1>5, <1>6, <1>7, TransportInv DEF TypeOK

(* A script ends, or is killed: the task it belongs to had no outcome yet,  *)
(* so no report can have told of one.                                      *)
LEMMA ScriptEnds ==
    ASSUME DeploymentInv, pc = "executing", UNCHANGED <<row, lastTask, task>>,
           NEW o \in {"killed"} \cup Final, outcome' = [outcome EXCEPT ![held] = o],
           NEW p \in PartlyInstalled(held), config' = [config EXCEPT ![task[held].id] = p],
           \A d \in Conns : rep'[d] = rep[d] \/ rep'[d].phase \notin {"sent", "written", "read"}
    PROVE  /\ outcome' \in [TaskIds -> {"none", "killed"} \cup Final] /\ outcome'[held] = o
           /\ \A t \in TaskIds : ~Claimed(t) => outcome'[t] = outcome[t]
           /\ config' \in [RowIds -> Ports \cup {NoPort}]
           /\ ReportInv' /\ Keeps
<1> USE DEF DeploymentInv
<1>1. held \in TaskIds /\ Claimed(held) /\ outcome[held] = "none"
  BY DEF LoopInv, Claimed, NoTask
<1>2. /\ outcome' \in [TaskIds -> {"none", "killed"} \cup Final] /\ outcome'[held] = o
      /\ \A t \in TaskIds : t # held => outcome'[t] = outcome[t]
  BY <1>1 DEF TypeOK
<1>3. config' \in [RowIds -> Ports \cup {NoPort}]
  <2>1. task[held] \in Entries /\ task[held].id \in RowIds
    BY <1>1 DEF TypeOK, TableInv, Claimed, NoEntry
  <2>2. config[task[held].id] \in Ports \cup {NoPort} /\ task[held].port \in Ports \cup {NoPort}
    BY <2>1 DEF TypeOK, Entries
  <2>3. p \in Ports \cup {NoPort}
    BY <2>2 DEF PartlyInstalled, Installed
  <2> QED BY <2>3 DEF TypeOK
<1>4. ReportInv'
  BY <1>1, <1>2 DEF ReportInv, Claimed, Final
<1>5. Keeps
  BY <1>1, <1>2 DEF Keeps, Final
<1> QED BY <1>1, <1>2, <1>3, <1>4, <1>5

LEMMA RunScriptInv ==
    ASSUME DeploymentInv, RunScript
    PROVE  DeploymentInv' /\ Keeps
<1> USE DEF DeploymentInv, rows, tasks, budget
<1>1. PICK o \in Final, p \in PartlyInstalled(held) :
        /\ outcome' = [outcome EXCEPT ![held] = o]
        /\ config' = [config EXCEPT ![task[held].id] = p]
  BY DEF RunScript, PartlyInstalled, Final
<1>2. /\ pc = "executing" /\ pc' = "reporting"
      /\ UNCHANGED <<row, req, lastTask, task, held, wait, rep, faults, crashes>>
  BY DEF RunScript
<1>3. /\ outcome' \in [TaskIds -> {"none", "killed"} \cup Final] /\ outcome'[held] = o
      /\ \A t \in TaskIds : ~Claimed(t) => outcome'[t] = outcome[t]
      /\ config' \in [RowIds -> Ports \cup {NoPort}]
      /\ ReportInv' /\ Keeps
  BY <1>1, <1>2, ScriptEnds
<1>4. TypeOK'
  BY <1>2, <1>3 DEF TypeOK
<1>5. TableInv'
  BY <1>2, <1>3, <1>4, ClaimedKept DEF Claimed
<1>6. LoopInv' /\ RequestInv'
  BY <1>2, <1>3 DEF LoopInv, RequestInv, Claimed
<1> QED BY <1>3, <1>4, <1>5, <1>6

LEMMA AgentCrashInv ==
    ASSUME DeploymentInv, AgentCrash
    PROVE  DeploymentInv' /\ Keeps
<1> USE DEF DeploymentInv, rows, tasks, site
<1>1. /\ pc' = "poll" /\ held' = NoTask /\ wait' = NoConn
      /\ UNCHANGED <<row, req, lastTask, task, faults>>
  BY DEF AgentCrash
<1>2. crashes' \in 0..MaxCrashes
  BY DeploymentAssumption DEF AgentCrash, TypeOK
<1>3. rep' \in [Conns -> ReportRecords] /\ \A d \in Conns : rep'[d] = rep[d] \/ rep'[d].phase = "idle"
  <2>1. \/ wait \in Conns /\ rep' = [rep EXCEPT ![wait] = Quiet]
        \/ UNCHANGED rep
    BY DEF AgentCrash, TypeOK
  <2> QED BY <2>1, NoRecords DEF TypeOK, Quiet
<1>4. /\ outcome' \in [TaskIds -> {"none", "killed"} \cup Final]
      /\ \A t \in TaskIds : ~Claimed(t) => outcome'[t] = outcome[t]
      /\ config' \in [RowIds -> Ports \cup {NoPort}]
      /\ ReportInv' /\ Keeps
  <2>1. CASE pc = "executing"
    <3>1. PICK p \in PartlyInstalled(held) :
            /\ outcome' = [outcome EXCEPT ![held] = "killed"]
            /\ config' = [config EXCEPT ![task[held].id] = p]
      BY <2>1 DEF AgentCrash
    <3> QED BY <2>1, <3>1, <1>1, <1>3, ScriptEnds
  <2>2. CASE pc # "executing"
    <3>1. UNCHANGED <<config, outcome>>
      BY <2>2 DEF AgentCrash
    <3>2. ReportInv'
      BY <3>1, <1>1, <1>3, ReportsLost
    <3> QED BY <3>1, <3>2, <1>1 DEF Keeps, TypeOK
  <2> QED BY <2>1, <2>2
<1>5. TypeOK'
  BY <1>1, <1>2, <1>3, <1>4 DEF TypeOK
<1>6. TableInv'
  BY <1>1, <1>4, <1>5, ClaimedKept DEF Claimed
<1>7. LoopInv' /\ RequestInv'
  BY <1>1 DEF LoopInv, RequestInv
<1> QED BY <1>4, <1>5, <1>6, <1>7

LEMMA AgentStepInv ==
    ASSUME DeploymentInv, AgentStep
    PROVE  DeploymentInv' /\ Keeps
  BY ClaimInv, PostInv, ReceiveInv, RunScriptInv DEF AgentStep

(* The master.                                                             *)

LEMMA ReportWriteInv ==
    ASSUME DeploymentInv, NEW c \in Conns, ReportWrite(c)
    PROVE  DeploymentInv' /\ Keeps
<1> USE DEF DeploymentInv, rows, agent, site, budget
<1> DEFINE u == rep[c].task
<1>1. /\ rep[c].phase = "sent" /\ rep[c] \in ReportRecords
      /\ Claimed(u) /\ rep[c].state \in {"running"} \cup Final
      /\ task' = [task EXCEPT ![u].state = rep[c].state]
      /\ rep' = [rep EXCEPT ![c].phase = "written"]
      /\ UNCHANGED <<row, req, lastTask, pc, held, wait, config, outcome, faults, crashes>>
  BY DEF ReportWrite, ReportInv, TypeOK, ReportRecords
<1>2. rep' \in [Conns -> ReportRecords]
  <2>1. [rep[c] EXCEPT !.phase = "written"] \in ReportRecords
    BY <1>1 DEF ReportRecords
  <2> QED BY <2>1, <1>1 DEF TypeOK
<1>3. /\ task' \in [TaskIds -> Entries]
      /\ task'[u].state = rep[c].state /\ task'[u].id = task[u].id
      /\ task'[u].action = task[u].action /\ task'[u].port = task[u].port
      /\ \A t \in TaskIds : t # u => task'[t] = task[t]
  <2>1. u \in TaskIds /\ task[u] \in Entries
    BY <1>1 DEF TypeOK, Claimed
  <2>2. [task[u] EXCEPT !.state = rep[c].state] \in Entries
    BY <2>1, <1>1 DEF Entries
  <2> QED BY <2>1, <2>2, <1>1 DEF TypeOK, Entries
<1>4. TypeOK'
  BY <1>1, <1>2, <1>3 DEF TypeOK
<1>5. TableInv'
  BY <1>1, <1>3, <1>4, ClaimedKept DEF Claimed, Final
<1>6. \A t \in TaskIds : Claimed(t) => Claimed(t)'
  BY <1>1, <1>3 DEF Claimed, Final
<1>7. LoopInv' /\ RequestInv'
  BY <1>1, <1>6 DEF LoopInv, RequestInv, Claimed
<1>8. ReportInv'
  BY <1>1, <1>6 DEF ReportInv, TypeOK, Claimed
<1>9. Keeps
  BY <1>1, <1>3 DEF Keeps, Claimed, Final
<1> QED BY <1>4, <1>5, <1>7, <1>8, <1>9

(* What a claimed task tells: its row exists.                              *)
LEMMA ClaimedRow ==
    ASSUME DeploymentInv, NEW t, Claimed(t)
    PROVE  /\ t \in TaskIds /\ task[t].id \in RowIds /\ task[t].port \in Ports
           /\ task[t].action # "none" /\ row[task[t].id] # NoRow
           /\ row[task[t].id] \in RowRecords /\ row[task[t].id].port \in Ports
  BY DEF DeploymentInv, Claimed, TableInv, TypeOK, NoEntry

LEMMA ReadRowInv ==
    ASSUME DeploymentInv, NEW c \in Conns, ReadRow(c)
    PROVE  DeploymentInv' /\ Keeps
<1> USE DEF DeploymentInv, rows, tasks, agent, site, budget
<1> DEFINE r == row[task[rep[c].task].id]
<1>1. /\ rep[c].phase = "written" /\ rep[c] \in ReportRecords /\ Claimed(rep[c].task)
      /\ rep' = [rep EXCEPT ![c].phase = "read", ![c].row = r]
      /\ UNCHANGED <<row, req, lastTask, task, pc, held, wait, config, outcome, faults, crashes>>
  BY DEF ReadRow, ReportInv, TypeOK
<1>2. r \in RowRecords /\ r.port \in Ports
  BY <1>1, ClaimedRow
<1> HIDE DEF r
<1>3. rep' \in [Conns -> ReportRecords]
  <2>1. [rep[c] EXCEPT !.phase = "read", !.row = r] \in ReportRecords
    BY <1>1, <1>2 DEF ReportRecords
  <2> QED BY <2>1, <1>1 DEF TypeOK
<1>4. ReportInv'
  BY <1>1, <1>2 DEF ReportInv, TypeOK, ReportRecords, Claimed
<1>5. LoopInv' /\ RequestInv'
  BY <1>1 DEF LoopInv, RequestInv, Claimed
<1> QED BY <1>1, <1>3, <1>4, <1>5, TransportInv DEF TypeOK

(* A handler that is done answers; it may have written the row of its task. *)
LEMMA AnsweredInv ==
    ASSUME DeploymentInv, NEW c \in Conns, Claimed(rep[c].task),
           NEW r \in RowRecords, r.port \in Ports,
           row' = row \/ row' = [row EXCEPT ![task[rep[c].task].id] = r],
           rep' = [rep EXCEPT ![c] = Answered(c)],
           UNCHANGED <<req, tasks, agent, site, budget>>
    PROVE  DeploymentInv' /\ Keeps
<1> USE DEF DeploymentInv, tasks, agent, site, budget
<1> DEFINE n == task[rep[c].task].id
<1>1. n \in RowIds
  BY ClaimedRow
<1>2. /\ row' \in [RowIds -> RowRecords] /\ \A m \in RowIds : row[m] # NoRow => row'[m] # NoRow
      /\ \A m \in RowIds : row'[m] # NoRow => row'[m].port \in Ports
  <2>1. r # NoRow
    BY DeploymentAssumption DEF NoRow
  <2>2. row' = row \/ row' = [row EXCEPT ![n] = r]
    OBVIOUS
  <2> HIDE DEF n
  <2> QED BY <2>1, <2>2, <1>1 DEF TypeOK
<1>3. Answered(c) \in ReportRecords /\ Answered(c).phase \in {"answered", "idle"}
  BY NoRecords DEF Answered, TypeOK, ReportRecords, Quiet
<1>4. /\ rep' \in [Conns -> ReportRecords]
      /\ \A d \in Conns : rep'[d] = rep[d] \/ rep'[d].phase \in {"answered", "idle"}
  BY <1>3 DEF TypeOK
<1>5. TypeOK'
  BY <1>2, <1>4 DEF TypeOK
<1>6. ReportInv'
  BY <1>4, ReportsLost
<1>7. TableInv' /\ LoopInv' /\ RequestInv' /\ Keeps
  BY <1>2 DEF TableInv, LoopInv, RequestInv, Claimed, Keeps
<1> QED BY <1>5, <1>6, <1>7

LEMMA MasterRestartInv ==
    ASSUME DeploymentInv, MasterRestart
    PROVE  DeploymentInv' /\ Keeps
<1> USE DEF DeploymentInv, tasks, agent, site
<1>1. /\ req' = [h \in Requests |-> Free]
      /\ rep' = [c \in Conns |-> IF wait = c THEN [rep[c] EXCEPT !.phase = "broken"] ELSE Quiet]
      /\ UNCHANGED <<row, lastTask, task, pc, held, wait, config, outcome, faults>>
  BY DEF MasterRestart
<1>2. /\ rep' \in [Conns -> ReportRecords]
      /\ \A d \in Conns : rep'[d].phase \notin {"sent", "written", "read"}
  <2> SUFFICES ASSUME NEW d \in Conns
               PROVE  rep'[d] \in ReportRecords /\ rep'[d].phase \in {"broken", "idle"}
    BY <1>1
  <2>1. rep[d] \in ReportRecords
    BY DEF TypeOK
  <2>2. /\ [rep[d] EXCEPT !.phase = "broken"] \in ReportRecords
        /\ [rep[d] EXCEPT !.phase = "broken"].phase = "broken"
    BY <2>1 DEF ReportRecords
  <2>3. Quiet \in ReportRecords /\ Quiet.phase = "idle"
    BY NoRecords DEF Quiet
  <2> QED BY <2>2, <2>3, <1>1
<1>3. req' \in [Requests -> RequestRecords] /\ RequestInv'
  BY <1>1, NoRecords DEF RequestInv, Free
<1>4. crashes' \in 0..MaxCrashes
  BY DeploymentAssumption DEF MasterRestart, TypeOK
<1>5. ReportInv'
  BY <1>1, <1>2, ReportsLost
<1>6. LoopInv'
  BY <1>1 DEF LoopInv, Claimed
<1> QED BY <1>1, <1>2, <1>3, <1>4, <1>5, <1>6, TransportInv DEF TypeOK

LEMMA FaultInv ==
    ASSUME DeploymentInv, Fault
    PROVE  DeploymentInv' /\ Keeps
  BY AttemptFailsInv, AgentCrashInv, MasterRestartInv DEF Fault

LEMMA StutterInv ==
    ASSUME DeploymentInv, UNCHANGED vars
    PROVE  DeploymentInv' /\ Keeps
<1>1. UNCHANGED <<row, req, lastTask, task, pc, held, wait, rep, config, outcome, faults, crashes>>
  BY DEF vars, rows, tasks, agent, site, budget
<1> QED BY <1>1 DEF DeploymentInv, TypeOK, TableInv, LoopInv, RequestInv, ReportInv, Claimed, Keeps

(* Rows and their copies.                                                  *)

LEMMA InitFounded == Init => FoundedInv
<1> SUFFICES ASSUME Init PROVE FoundedInv
  OBVIOUS
<1>1. DeploymentInv
  BY InitDeployment
<1>2. RowIsFounded
  BY DEF Init, RowIsFounded, Founded, NoRow
<1>3. CopiesAreFounded
  BY DEF Init, CopiesAreFounded, Free, Quiet
<1> QED BY <1>1, <1>2, <1>3 DEF FoundedInv

(* Evidence is never lost, so a step keeps rows and copies founded if what *)
(* it writes into them is founded when it writes it.                       *)
LEMMA StaysFounded ==
    ASSUME FoundedInv, Keeps,
           \A n \in RowIds : row'[n] = row[n] \/ Founded(n, row'[n]),
           \A h \in Requests : \/ req'[h] = req[h]
                               \/ req'[h].step = "none"
                               \/ req'[h].id \in RowIds /\ Founded(req'[h].id, req'[h].row),
           \A c \in Conns : \/ rep'[c] = rep[c]
                            \/ rep'[c].phase # "read"
                            \/ /\ Claimed(rep'[c].task)
                               /\ Founded(task[rep'[c].task].id, rep'[c].row)
    PROVE  RowIsFounded' /\ CopiesAreFounded'
<1> USE DEF FoundedInv
<1>1. \A n \in RowIds : \A r : Founded(n, r) =>
        /\ r.state \in {"active", "inactive"} => Ended(n, {"present", "restarted"}, "succeeded")'
        /\ r # NoRow /\ ~r.live => Ended(n, {"absent"}, "succeeded")'
        /\ r.state = "failed" => HandedOut(n, {"present", "restarted"})'
        /\ r.state = "delete_failed" => HandedOut(n, {"absent"})'
  BY EndedKept, HandedOutKept DEF Founded, Final
<1>2. RowIsFounded'
  BY <1>1 DEF RowIsFounded, Founded
<1>3. ASSUME NEW h \in Requests, req'[h].step # "none"
      PROVE  Founded(req[h].id, req[h].row)'
  <2>1. req'[h].id \in RowIds /\ Founded(req'[h].id, req'[h].row)
    BY <1>3 DEF CopiesAreFounded, DeploymentInv, RequestInv
  <2> QED BY <2>1, <1>1 DEF Founded
<1>4. ASSUME NEW c \in Conns, rep'[c].phase = "read"
      PROVE  Founded(task[rep[c].task].id, rep[c].row)'
  <2>1. Claimed(rep'[c].task) /\ Founded(task[rep'[c].task].id, rep'[c].row)
    BY <1>4 DEF CopiesAreFounded, DeploymentInv, ReportInv
  <2>2. task[rep'[c].task].id \in RowIds /\ task'[rep'[c].task].id = task[rep'[c].task].id
    BY <2>1, ClaimedRow DEF Keeps
  <2> QED BY <2>1, <2>2, <1>1 DEF Founded
<1> QED BY <1>2, <1>3, <1>4 DEF CopiesAreFounded

(* Steps that write no row and make no copy of one.                        *)
LEMMA NothingWritten ==
    ASSUME FoundedInv, DeploymentInv', Keeps, row' = row,
           \A h \in Requests : req'[h] = req[h] \/ req'[h].step = "none",
           \A c \in Conns : rep'[c] = rep[c] \/ rep'[c].phase # "read"
    PROVE  FoundedInv'
  BY StaysFounded DEF FoundedInv

(* The entity a request works with is as founded as the row it comes from. *)
LEMMA BeginFounded ==
    ASSUME FoundedInv, NEW h \in Requests, NEW n \in RowIds,
           NEW op, NEW step \in {"write", "task"}, NEW r,
           Begin(h, op, n, step, r), Founded(n, r),
           row' = row \/ row' = [row EXCEPT ![n] = r],
           DeploymentInv', Keeps, UNCHANGED rep
    PROVE  FoundedInv'
<1> USE DEF FoundedInv
<1>1. \A m \in RowIds : row'[m] = row[m] \/ Founded(m, row'[m])
  BY DEF DeploymentInv, TypeOK
<1>2. \A g \in Requests : \/ req'[g] = req[g]
                          \/ req'[g].id \in RowIds /\ Founded(req'[g].id, req'[g].row)
  BY DEF Begin, DeploymentInv, TypeOK
<1> QED BY <1>1, <1>2, StaysFounded

LEMMA CreateRowFounded ==
    ASSUME FoundedInv, NEW h \in Requests, NEW n \in RowIds, NEW p \in Ports, CreateRow(h, n, p)
    PROVE  FoundedInv'
<1> DEFINE r == [state |-> "pending", live |-> TRUE, port |-> p]
<1>1. Founded(n, r)
  BY DEF Founded
<1>2. /\ Begin(h, "create", n, "write", r) /\ row' = [row EXCEPT ![n] = r] /\ UNCHANGED rep
      /\ DeploymentInv' /\ Keeps
  BY CreateRowInv DEF CreateRow, FoundedInv
<1> HIDE DEF r
<1> QED BY <1>1, <1>2, BeginFounded

LEMMA UpdateRowFounded ==
    ASSUME FoundedInv, NEW h \in Requests, NEW n \in RowIds, NEW p \in Ports, UpdateRow(h, n, p)
    PROVE  FoundedInv'
<1> DEFINE r == [row[n] EXCEPT !.state = "pending", !.port = p]
<1>1. row[n] \in RowRecords /\ row[n] # NoRow /\ Founded(n, row[n])
  BY DEF UpdateRow, FoundedInv, RowIsFounded, DeploymentInv, TypeOK
<1>2. r.state = "pending" /\ r.live = row[n].live
  BY <1>1 DEF RowRecords
<1>3. Founded(n, r)
  BY <1>1, <1>2 DEF Founded
<1>4. /\ Begin(h, "update", n, "write", r) /\ row' = row /\ UNCHANGED rep
      /\ DeploymentInv' /\ Keeps
  BY UpdateRowInv DEF UpdateRow, FoundedInv
<1> HIDE DEF r
<1> QED BY <1>3, <1>4, BeginFounded

LEMMA DeleteRowFounded ==
    ASSUME FoundedInv, NEW h \in Requests, NEW n \in RowIds, DeleteRow(h, n)
    PROVE  FoundedInv'
<1> DEFINE r == Deleting(row[n])
<1>1. row[n] \in RowRecords /\ row[n] # NoRow /\ Founded(n, row[n])
  BY DEF DeleteRow, FoundedInv, RowIsFounded, DeploymentInv, TypeOK
<1>2. r.state = "deleting" /\ r.live = row[n].live
  BY <1>1 DEF RowRecords, Deleting
<1>3. Founded(n, r)
  BY <1>1, <1>2 DEF Founded
<1>4. /\ Begin(h, "delete", n, "write", r) /\ row' = row /\ UNCHANGED rep
      /\ DeploymentInv' /\ Keeps
  BY DeleteRowInv DEF DeleteRow, FoundedInv
<1> HIDE DEF r
<1> QED BY <1>3, <1>4, BeginFounded

LEMMA RestartRowFounded ==
    ASSUME FoundedInv, NEW h \in Requests, NEW n \in RowIds, RestartRow(h, n)
    PROVE  FoundedInv'
<1> DEFINE r == row[n]
<1>1. Founded(n, r) /\ Begin(h, "restart", n, "task", r) /\ row' = row /\ UNCHANGED rep
  BY DEF RestartRow, FoundedInv, RowIsFounded
<1>2. DeploymentInv' /\ Keeps
  BY RestartRowInv DEF FoundedInv
<1> HIDE DEF r
<1> QED BY <1>1, <1>2, BeginFounded

LEMMA HandlerFounded ==
    ASSUME FoundedInv, NEW h \in Requests, HandleRequest(h)
    PROVE  FoundedInv'
<1> USE DEF FoundedInv
<1>1. CASE WriteRow(h)
  <2>1. DeploymentInv' /\ Keeps /\ UNCHANGED rep /\ row' = [row EXCEPT ![req[h].id] = req[h].row]
    BY <1>1, WriteRowInv DEF WriteRow
  <2>2. req[h].id \in RowIds /\ Founded(req[h].id, req[h].row)
    BY <1>1 DEF WriteRow, DeploymentInv, RequestInv, CopiesAreFounded
  <2>3. \A n \in RowIds : row'[n] = row[n] \/ Founded(n, row'[n])
    BY <2>1, <2>2 DEF DeploymentInv, TypeOK
  <2>4. \/ req' = [req EXCEPT ![h] = Free]
        \/ req' = [req EXCEPT ![h].step = "task"]
    BY <1>1 DEF WriteRow, Return
  <2>5. req[h] \in RequestRecords
    BY DEF DeploymentInv, TypeOK
  <2>6. \A g \in Requests : \/ req'[g] = req[g] \/ req'[g].step = "none"
                            \/ req'[g].id \in RowIds /\ Founded(req'[g].id, req'[g].row)
    BY <2>2, <2>4, <2>5 DEF DeploymentInv, TypeOK, RequestRecords, Free
  <2> QED BY <2>1, <2>3, <2>6, StaysFounded
<1>2. CASE CreateTask(h)
  <2>1. DeploymentInv' /\ Keeps /\ UNCHANGED <<rep, row>>
    BY <1>2, CreateTaskInv DEF CreateTask
  <2>2. /\ req[h].id \in RowIds /\ Founded(req[h].id, req[h].row)
        /\ req[h] \in RequestRecords /\ req[h].row \in RowRecords /\ req[h].row # NoRow
    BY <1>2, DeploymentAssumption
       DEF CreateTask, DeploymentInv, RequestInv, CopiesAreFounded, TypeOK, RequestRecords, NoRow
  <2>3. Founded(req[h].id, [req[h].row EXCEPT !.state = "pending"])
    BY <2>2 DEF Founded, RowRecords
  <2>4. \/ req' = [req EXCEPT ![h] = Free]
        \/ req' = [req EXCEPT ![h].step = "write", ![h].row.state = "pending"]
    BY <1>2 DEF CreateTask, Return
  <2>5. \A g \in Requests : \/ req'[g] = req[g] \/ req'[g].step = "none"
                            \/ req'[g].id \in RowIds /\ Founded(req'[g].id, req'[g].row)
    BY <2>2, <2>3, <2>4 DEF DeploymentInv, TypeOK, RequestRecords, Free
  <2> QED BY <2>1, <2>5, StaysFounded
<1> QED BY <1>1, <1>2 DEF HandleRequest

LEMMA ReportWriteFounded ==
    ASSUME FoundedInv, NEW c \in Conns, ReportWrite(c)
    PROVE  FoundedInv'
<1> USE DEF FoundedInv
<1>1. DeploymentInv' /\ Keeps /\ UNCHANGED <<row, req>>
  BY ReportWriteInv DEF ReportWrite, rows
<1>2. \A d \in Conns : rep'[d] = rep[d] \/ rep'[d].phase # "read"
  BY DEF ReportWrite, DeploymentInv, TypeOK, ReportRecords
<1> QED BY <1>1, <1>2, NothingWritten

LEMMA ReadRowFounded ==
    ASSUME FoundedInv, NEW c \in Conns, ReadRow(c)
    PROVE  FoundedInv'
<1> USE DEF FoundedInv
<1> DEFINE n == task[rep[c].task].id
           new == [rep[c] EXCEPT !.phase = "read", !.row = row[n]]
<1>1. DeploymentInv' /\ Keeps /\ UNCHANGED <<row, req>> /\ rep' = [rep EXCEPT ![c] = new]
  BY ReadRowInv DEF ReadRow, rows
<1>2. Claimed(rep[c].task) /\ n \in RowIds /\ Founded(n, row[n])
  BY ClaimedRow DEF ReadRow, DeploymentInv, ReportInv, RowIsFounded
<1>3. new.task = rep[c].task /\ new.row = row[n]
  BY DEF DeploymentInv, TypeOK, ReportRecords
<1> HIDE DEF new
<1>4. \A d \in Conns : \/ rep'[d] = rep[d]
                       \/ /\ Claimed(rep'[d].task)
                          /\ Founded(task[rep'[d].task].id, rep'[d].row)
  BY <1>1, <1>2, <1>3 DEF DeploymentInv, TypeOK
<1> QED BY <1>1, <1>4, StaysFounded

(* What a handler merges into the row of its task must be founded.          *)
LEMMA AnsweredFounded ==
    ASSUME FoundedInv, NEW c \in Conns, Claimed(rep[c].task),
           NEW r \in RowRecords, r.port \in Ports,
           \/ row' = row
           \/ row' = [row EXCEPT ![task[rep[c].task].id] = r] /\ Founded(task[rep[c].task].id, r),
           rep' = [rep EXCEPT ![c] = Answered(c)],
           UNCHANGED <<req, tasks, agent, site, budget>>
    PROVE  FoundedInv'
<1> USE DEF FoundedInv
<1>1. DeploymentInv' /\ Keeps
  BY AnsweredInv
<1>2. \A m \in RowIds : row'[m] = row[m] \/ Founded(m, row'[m])
  BY DEF DeploymentInv, TypeOK
<1>3. \A d \in Conns : rep'[d] = rep[d] \/ rep'[d].phase # "read"
  BY DEF DeploymentInv, TypeOK, Answered, Quiet
<1> QED BY <1>1, <1>2, <1>3, StaysFounded

(* The steps of the agent, faults and stuttering write no row and copy none. *)
LEMMA OthersReadNothing ==
    ASSUME FoundedInv, AgentStep \/ Fault \/ UNCHANGED vars
    PROVE  /\ row' = row
           /\ \A h \in Requests : req'[h] = req[h] \/ req'[h].step = "none"
           /\ \A c \in Conns : rep'[c] = rep[c] \/ rep'[c].phase # "read"
<1> USE DEF FoundedInv
<1>1. CASE AgentStep
  BY <1>1 DEF AgentStep, Claim, Post, Receive, RunScript, rows, Quiet, DeploymentInv, TypeOK
<1>2. CASE AttemptFails
  BY <1>2 DEF AttemptFails, rows, Quiet, DeploymentInv, TypeOK
<1>3. CASE AgentCrash
  BY <1>3 DEF AgentCrash, rows, Quiet, DeploymentInv, TypeOK
<1>4. CASE MasterRestart
  <2>1. UNCHANGED row /\ \A h \in Requests : req'[h].step = "none"
    BY <1>4 DEF MasterRestart, Free
  <2>2. \A c \in Conns : rep'[c].phase # "read"
    BY <1>4 DEF MasterRestart, Quiet, DeploymentInv, TypeOK, ReportRecords
  <2> QED BY <2>1, <2>2
<1>5. CASE UNCHANGED vars
  BY <1>5 DEF vars, rows
<1> QED BY <1>1, <1>2, <1>3, <1>4, <1>5 DEF Fault

LEMMA OthersFounded ==
    ASSUME FoundedInv, AgentStep \/ Fault \/ UNCHANGED vars
    PROVE  FoundedInv'
<1>1. DeploymentInv' /\ Keeps
  BY AgentStepInv, FaultInv, StutterInv DEF FoundedInv
<1> QED BY <1>1, OthersReadNothing, NothingWritten

-----------------------------------------------------------------------------
(* How a row comes to rest.  SharedInv is kept by every step of the two    *)
(* services; and a step after which a row is at rest found it at rest and  *)
(* left it alone, unless it merged the report of the row's last task.      *)

ConsoleStep ==
    \E h \in Requests, n \in RowIds :
        \/ \E p \in Ports : CreateRow(h, n, p) \/ UpdateRow(h, n, p)
        \/ DeleteRow(h, n) \/ RestartRow(h, n)

(* The steps that merge no report.                                         *)
SharedStep ==
    \/ ConsoleStep
    \/ \E h \in Requests : HandleRequest(h)
    \/ \E c \in Conns : ReportWrite(c) \/ ReadRow(c)
    \/ AgentStep \/ Fault \/ UNCHANGED vars

(* What was at rest before the step and is not touched by it.              *)
Left(n, t) ==
    /\ Undisturbed /\ AtRest(n, t)
    /\ row'[n] = row[n] /\ task'[t] = task[t] /\ outcome'[t] = outcome[t]

LeavesRest ==
    \A n \in RowIds, t \in TaskIds : Undisturbed' /\ AtRest(n, t)' => Left(n, t)

LEMMA InitShared == Init => SharedInv
<1> SUFFICES ASSUME Init PROVE SharedInv
  OBVIOUS
<1>1. QueueInv /\ ResultInv /\ FilesInv
  BY DEF Init, QueueInv, ResultInv, FilesInv, Claimed, NoEntry, Final, TasksOf
<1>2. PatienceInv /\ TaskedInv
  BY DEF Init, PatienceInv, TaskedInv, Free
<1> QED BY <1>1, <1>2 DEF SharedInv

(* A disturbance is never undone.                                          *)
LEMMA StaysCalm ==
    ASSUME DeploymentInv, Keeps, faults' = 0 => faults = 0, crashes' = 0 => crashes = 0, Undisturbed'
    PROVE  Undisturbed
<1>1. \A t \in TaskIds : task[t].action = "restarted" => task'[t].action = "restarted"
  BY DEF DeploymentInv, TableInv, NoEntry, Keeps
<1> QED BY <1>1 DEF Undisturbed

LEMMA TablesKept ==
    ASSUME QueueInv, ResultInv, FilesInv, UNCHANGED <<task, outcome, config>>, held' \in {held, NoTask}
    PROVE  QueueInv' /\ ResultInv' /\ FilesInv'
  BY DEF QueueInv, ResultInv, FilesInv, Claimed, TasksOf

(* Steps that end no request and create neither a row nor a task.          *)
LEMMA TaskedKept ==
    ASSUME DeploymentInv, Keeps, TaskedInv, Undisturbed' => Undisturbed,
           \A n \in RowIds : row'[n] # NoRow => row[n] # NoRow \/ Requested(n)',
           \A h \in Requests : req'[h].op = "restart" /\ req'[h].step = "write" => req'[h] = req[h],
           \A n \in RowIds : Requested(n) => Requested(n)',
           \A t \in TaskIds : task'[t].id = task[t].id
    PROVE  TaskedInv'
<1>1. \A t \in TaskIds : task[t].action = "restarted" => task'[t].action = "restarted"
  BY DEF DeploymentInv, TableInv, NoEntry, Keeps
<1>2. \A n \in RowIds, t \in TaskIds : Newest(n, t) => Newest(n, t)'
  BY DEF Newest, TasksOf
<1>3. \A h \in Requests : req'[h].op = "restart" /\ req'[h].step = "write" =>
          \E t \in TaskIds : task'[t].action = "restarted"
  BY <1>1 DEF TaskedInv
<1>4. ASSUME Undisturbed', NEW n \in RowIds, row'[n] # NoRow, ~Requested(n)'
      PROVE  \E t \in TaskIds : Newest(n, t)'
  BY <1>2, <1>4 DEF TaskedInv
<1> QED BY <1>3, <1>4 DEF TaskedInv

LEMMA RestLeft ==
    ASSUME NEW n \in RowIds, NEW t \in TaskIds, Undisturbed, AtRest(n, t)',
           row'[n] = row[n], task'[t] = task[t], outcome'[t] = outcome[t],
           Requested(n) => Requested(n)', Handling(t) => Handling(t)',
           \A u \in TaskIds : task[u].id = n => task'[u].id = n
    PROVE  Left(n, t)
  BY DEF Left, AtRest, Newest, TasksOf

LEMMA BeginShared ==
    ASSUME DeploymentInv, SharedInv, DeploymentInv', Keeps,
           NEW h \in Requests, NEW op, NEW n \in RowIds, NEW step, NEW r,
           op = "restart" => step # "write",
           Begin(h, op, n, step, r),
           row' = row \/ row' = [row EXCEPT ![n] = r],
           UNCHANGED <<tasks, agent, rep, site, budget>>
    PROVE  SharedInv' /\ LeavesRest
<1> USE DEF SharedInv, tasks, agent, site, budget
<1>1. Undisturbed' => Undisturbed
  BY StaysCalm
<1>2. /\ req[h] = Free /\ req' = [req EXCEPT ![h] = [op |-> op, id |-> n, step |-> step, row |-> r]]
      /\ req \in [Requests -> RequestRecords] /\ row \in [RowIds -> RowRecords]
  BY DEF Begin, DeploymentInv, TypeOK
<1>3. \A m \in RowIds : (Requested(m) => Requested(m)') /\ (m = n => Requested(m)')
  BY <1>2, DeploymentAssumption DEF Requested, Free
<1>4. \A m \in RowIds : row'[m] = row[m] \/ m = n
  BY <1>2
<1>5. TaskedInv'
  <2>1. \A m \in RowIds : row'[m] # NoRow => row[m] # NoRow \/ Requested(m)'
    BY <1>3, <1>4
  <2>2. \A g \in Requests : req'[g].op = "restart" /\ req'[g].step = "write" => req'[g] = req[g]
    BY <1>2
  <2> QED BY <1>1, <1>3, <2>1, <2>2, TaskedKept
<1>6. QueueInv' /\ ResultInv' /\ FilesInv'
  BY TablesKept
<1>7. PatienceInv'
  BY DEF PatienceInv
<1>8. LeavesRest
  <2> SUFFICES ASSUME NEW m \in RowIds, NEW t \in TaskIds, Undisturbed', AtRest(m, t)'
               PROVE  Left(m, t)
    BY DEF LeavesRest
  <2>1. m # n
    BY <1>3 DEF AtRest
  <2>2. Handling(t) => Handling(t)'
    BY DEF Handling
  <2> QED BY <1>1, <1>3, <1>4, <2>1, <2>2, RestLeft
<1> QED BY <1>5, <1>6, <1>7, <1>8

LEMMA ConsoleShared ==
    ASSUME DeploymentInv, SharedInv, ConsoleStep
    PROVE  SharedInv' /\ LeavesRest
<1>1. DeploymentInv' /\ Keeps
  BY CreateRowInv, UpdateRowInv, DeleteRowInv, RestartRowInv DEF ConsoleStep
<1>2. PICK h \in Requests, n \in RowIds, op \in AllOps, step \in {"write", "task"} :
        \E r : /\ op = "restart" => step # "write"
               /\ Begin(h, op, n, step, r)
               /\ row' = row \/ row' = [row EXCEPT ![n] = r]
               /\ UNCHANGED <<tasks, agent, rep, site, budget>>
  <2>1. PICK h \in Requests, n \in RowIds :
          \/ \E p \in Ports : CreateRow(h, n, p) \/ UpdateRow(h, n, p)
          \/ DeleteRow(h, n) \/ RestartRow(h, n)
    BY DEF ConsoleStep
  <2>2. CASE \E p \in Ports : CreateRow(h, n, p)
    BY <2>2 DEF CreateRow, AllOps
  <2>3. CASE \E p \in Ports : UpdateRow(h, n, p)
    BY <2>3 DEF UpdateRow, AllOps
  <2>4. CASE DeleteRow(h, n)
    BY <2>4 DEF DeleteRow, AllOps
  <2>5. CASE RestartRow(h, n)
    BY <2>5 DEF RestartRow, AllOps
  <2> QED BY <2>1, <2>2, <2>3, <2>4, <2>5
<1> QED BY <1>1, <1>2, BeginShared

LEMMA WriteRowShared ==
    ASSUME DeploymentInv, SharedInv, NEW h \in Requests, WriteRow(h)
    PROVE  SharedInv' /\ LeavesRest
<1> USE DEF SharedInv, tasks, agent, site, budget
<1>0. PICK n : n = req[h].id
  OBVIOUS
<1>1. /\ DeploymentInv' /\ Keeps
      /\ UNCHANGED <<task, outcome, config, held, wait, rep, faults, crashes>>
      /\ row' = [row EXCEPT ![n] = req[h].row]
      /\ req[h].step = "write"
  BY <1>0, WriteRowInv DEF WriteRow
<1>2. Undisturbed' => Undisturbed
  BY <1>1, StaysCalm
<1>3. /\ n \in RowIds /\ row[n] # NoRow
      /\ req \in [Requests -> RequestRecords] /\ row \in [RowIds -> RowRecords]
  BY <1>0, <1>1 DEF DeploymentInv, RequestInv, TypeOK
<1>4. QueueInv' /\ ResultInv' /\ FilesInv'
  BY <1>1, TablesKept
<1>5. PatienceInv'
  BY <1>1 DEF PatienceInv
<1>6. CASE req[h].op = "restart"
  <2>1. \E t \in TaskIds : task[t].action = "restarted"
    BY <1>1, <1>6 DEF TaskedInv
  <2>2. ~Undisturbed /\ ~Undisturbed'
    BY <2>1, <1>2 DEF Undisturbed
  <2>3. TaskedInv'
    BY <2>1, <2>2, <1>1 DEF TaskedInv
  <2> QED BY <1>4, <1>5, <2>2, <2>3 DEF LeavesRest
<1>7. CASE req[h].op # "restart"
  <2>1. req' = [req EXCEPT ![h].step = "task"]
    BY <1>7 DEF WriteRow
  <2>2. /\ \A m \in RowIds : Requested(m) => Requested(m)'
        /\ Requested(n)'
        /\ \A g \in Requests : req'[g].op = "restart" /\ req'[g].step = "write" => req'[g] = req[g]
    BY <2>1, <1>0, <1>3 DEF Requested, RequestRecords
  <2>3. \A m \in RowIds : row'[m] = row[m] \/ m = n
    BY <1>1, <1>3
  <2>4. TaskedInv'
    BY <1>1, <1>2, <1>3, <2>2, <2>3, TaskedKept
  <2>5. LeavesRest
    <3> SUFFICES ASSUME NEW m \in RowIds, NEW t \in TaskIds, Undisturbed', AtRest(m, t)'
                 PROVE  Left(m, t)
      BY DEF LeavesRest
    <3>1. m # n
      BY <2>2 DEF AtRest
    <3>2. Handling(t) => Handling(t)'
      BY <1>1 DEF Handling
    <3> QED BY <1>1, <1>2, <2>2, <2>3, <3>1, <3>2, RestLeft
  <2> QED BY <1>4, <1>5, <2>4, <2>5
<1> QED BY <1>6, <1>7

LEMMA CreateTaskShared ==
    ASSUME DeploymentInv, SharedInv, NEW h \in Requests, CreateTask(h)
    PROVE  SharedInv' /\ LeavesRest
<1> USE DEF SharedInv, agent, site, budget
<1>1. PICK n, new, e : /\ n = req[h].id /\ new = lastTask + 1
                    /\ e = [state |-> "generated", id |-> n,
                            action |-> Action(req[h].op), port |-> req[h].row.port]
  OBVIOUS
<1>2. /\ DeploymentInv' /\ Keeps
      /\ UNCHANGED <<row, outcome, config, held, wait, rep, faults, crashes>>
      /\ task' = [task EXCEPT ![new] = e]
      /\ req[h].step = "task" /\ new \in TaskIds /\ lastTask \in Nat
  <2>1. DeploymentInv' /\ Keeps
    BY CreateTaskInv
  <2>2. /\ UNCHANGED <<row, outcome, config, held, wait, rep, faults, crashes>>
        /\ task' = [task EXCEPT ![new] = e]
        /\ req[h].step = "task"
    BY <1>1 DEF CreateTask
  <2>3. new \in TaskIds /\ lastTask \in Nat
    BY <1>1, DeploymentAssumption DEF CreateTask, DeploymentInv, TypeOK, TaskIds
  <2> QED BY <2>1, <2>2, <2>3
<1>3. Undisturbed' => Undisturbed
  BY <1>2, StaysCalm
<1>4. /\ n \in RowIds /\ req \in [Requests -> RequestRecords]
      /\ task \in [TaskIds -> Entries]
  BY <1>1, <1>2 DEF DeploymentInv, RequestInv, TypeOK
<1>5. /\ task[new] = NoEntry /\ outcome[new] = "none" /\ task'[new] = e
      /\ \A t \in TaskIds : t # new => task'[t] = task[t]
  BY <1>1, <1>2, <1>4 DEF DeploymentInv, TableInv, TypeOK, TaskIds
<1>6. \A t \in TaskIds : task[t].id \in RowIds => t < new
  BY <1>1, <1>2, DeploymentAssumption DEF DeploymentInv, TableInv, TaskIds, NoEntry
<1>7. \A t \in TaskIds : Claimed(t)' <=> Claimed(t)
  BY <1>1, <1>5 DEF Claimed, NoEntry
<1>8. \A t \in TaskIds : Claimed(t) => t < new
  BY <1>6, ClaimedRow
<1>9. QueueInv'
  BY <1>2, <1>1, <1>5, <1>7, <1>8 DEF QueueInv
<1>10. ResultInv'
  BY <1>1, <1>2, <1>5 DEF ResultInv, Final
<1>11. FilesInv'
  <2>1. \A m \in RowIds : \A t \in TaskIds : t # new => (t \in TasksOf(m)' <=> t \in TasksOf(m))
    BY <1>5 DEF TasksOf
  <2> SUFFICES ASSUME NEW m \in RowIds, NEW t \in TasksOf(m)', outcome[t] = "succeeded",
                      \A u \in TasksOf(m)' : outcome[u] # "none" => u <= t
               PROVE  /\ task'[t].action = "present" => config[m] = task'[t].port
                      /\ task'[t].action = "absent"  => config[m] = NoPort
    BY <1>2 DEF FilesInv
  <2>2. t \in TaskIds /\ t # new /\ task'[t] = task[t] /\ t \in TasksOf(m)
    BY <1>5, <2>1 DEF TasksOf
  <2>3. \A u \in TasksOf(m) : outcome[u] # "none" => u <= t
    BY <1>5, <2>1 DEF TasksOf
  <2> QED BY <2>2, <2>3 DEF FilesInv
<1>12. PatienceInv'
  <2>1. ASSUME NEW c \in Conns, wait = c PROVE task'[held] = task[held]
    BY <2>1, <1>5, <1>8, DeploymentAssumption DEF DeploymentInv, LoopInv, Claimed, TaskIds
  <2> QED BY <1>2, <2>1 DEF PatienceInv
<1>13. /\ Newest(n, new)'
       /\ \A t \in TaskIds : Newest(n, t)' => t = new
       /\ \A m \in RowIds, t \in TaskIds : m # n => (Newest(m, t)' <=> Newest(m, t)) /\ (Newest(m, t) => t # new)
  <2>1. \A t \in TaskIds : task[t].id = n => t < new
    BY <1>4, <1>6
  <2>2. task[new].id = NoId /\ task'[new].id = n /\ \A m \in RowIds : m # NoId
    BY <1>1, <1>5, DeploymentAssumption DEF NoEntry
  <2>3. new \in Nat /\ TaskIds \subseteq Nat
    BY <1>2 DEF TaskIds
  <2>4. TasksOf(n)' = TasksOf(n) \cup {new}
    BY <1>2, <1>5, <2>2 DEF TasksOf
  <2>5. \A m \in RowIds : m # n => TasksOf(m)' = TasksOf(m) /\ new \notin TasksOf(m)
    BY <1>2, <1>5, <2>2 DEF TasksOf
  <2>6. \A t \in TasksOf(n) : t < new
    BY <2>1 DEF TasksOf
  <2>7. Newest(n, new)'
    BY <2>3, <2>4, <2>6 DEF Newest, TasksOf
  <2>8. \A t \in TaskIds : Newest(n, t)' => t = new
    BY <2>3, <2>4, <2>6 DEF Newest
  <2> QED BY <2>5, <2>7, <2>8 DEF Newest
<1>14. \A m \in RowIds : m # n => (Requested(m)' <=> Requested(m))
  <2>1. req' = [req EXCEPT ![h] = Free] \/ req' = [req EXCEPT ![h].step = "write", ![h].row.state = "pending"]
    BY DEF CreateTask, Return
  <2>2. \A g \in Requests : g # h => req'[g] = req[g]
    BY <2>1, <1>4
  <2>3. req'[h].id \in {n, NoId}
    BY <2>1, <1>1, <1>4 DEF Free, RequestRecords
  <2> QED BY <2>2, <2>3, <1>1, DeploymentAssumption DEF Requested
<1>15. TaskedInv'
  <2>1. ASSUME NEW g \in Requests, req'[g].op = "restart", req'[g].step = "write"
        PROVE  \E t \in TaskIds : task'[t].action = "restarted"
    <3>1. CASE req'[g] = req[g]
      <4>1. PICK t \in TaskIds : task[t].action = "restarted"
        BY <2>1, <3>1 DEF TaskedInv
      <4> QED BY <4>1, <1>5 DEF NoEntry
    <3>2. CASE req'[g] # req[g]
      <4>1. g = h /\ req[h].op = "restart"
        BY <2>1, <3>2, <1>4 DEF CreateTask, Return, Free, RequestRecords
      <4> QED BY <4>1, <1>1, <1>2, <1>5 DEF Action
    <3> QED BY <3>1, <3>2
  <2>2. ASSUME Undisturbed', NEW m \in RowIds, row'[m] # NoRow, ~Requested(m)'
        PROVE  \E t \in TaskIds : Newest(m, t)'
    <3>1. CASE m = n
      BY <3>1, <1>2, <1>13
    <3>2. CASE m # n
      BY <3>2, <2>2, <1>2, <1>3, <1>13, <1>14 DEF TaskedInv
    <3> QED BY <3>1, <3>2
  <2> QED BY <2>1, <2>2 DEF TaskedInv
<1>16. LeavesRest
  <2> SUFFICES ASSUME NEW m \in RowIds, NEW t \in TaskIds, Undisturbed', AtRest(m, t)'
               PROVE  Left(m, t)
    BY DEF LeavesRest
  <2>1. task'[t].state \in Final /\ Newest(m, t)'
    BY DEF AtRest
  <2>2. t # new
    BY <2>1, <1>1, <1>5 DEF Final
  <2>3. m # n
    BY <2>1, <2>2, <1>13
  <2>4. \A u \in TaskIds : task[u].id = m => task'[u].id = m
    BY <1>5, DeploymentAssumption DEF NoEntry
  <2>5. Handling(t) => Handling(t)'
    BY <1>2 DEF Handling
  <2> QED BY <1>2, <1>3, <1>5, <1>14, <2>2, <2>3, <2>4, <2>5, RestLeft
<1> QED BY <1>9, <1>10, <1>11, <1>12, <1>15, <1>16

LEMMA HandlerShared ==
    ASSUME DeploymentInv, SharedInv, NEW h \in Requests, HandleRequest(h)
    PROVE  SharedInv' /\ LeavesRest
  BY WriteRowShared, CreateTaskShared DEF HandleRequest

(* The steps of agent and master that are not faults leave rows and        *)
(* requests alone.                                                         *)
LEMMA RowsKept ==
    ASSUME DeploymentInv, Keeps, TaskedInv, UNCHANGED <<row, req, faults, crashes>>,
           \A t \in TaskIds : task'[t].id = task[t].id,
           \A t \in TaskIds : task'[t].state \in Final /\ ~Handling(t)' =>
               task'[t] = task[t] /\ outcome'[t] = outcome[t] /\ ~Handling(t)
    PROVE  TaskedInv' /\ LeavesRest
<1>1. Undisturbed' => Undisturbed
  BY StaysCalm
<1>2. \A n \in RowIds : Requested(n)' <=> Requested(n)
  BY DEF Requested
<1>3. TaskedInv'
  BY <1>1, <1>2, TaskedKept DEF TaskedInv
<1>4. LeavesRest
  <2> SUFFICES ASSUME NEW n \in RowIds, NEW t \in TaskIds, Undisturbed', AtRest(n, t)'
               PROVE  Left(n, t)
    BY DEF LeavesRest
  <2>1. task'[t] = task[t] /\ outcome'[t] = outcome[t] /\ ~Handling(t)
    BY DEF AtRest
  <2> QED BY <1>1, <1>2, <2>1, RestLeft
<1> QED BY <1>3, <1>4

LEMMA ClaimShared ==
    ASSUME DeploymentInv, SharedInv, Claim
    PROVE  SharedInv' /\ LeavesRest
<1> USE DEF SharedInv, rows, site
<1>1. PICK t \in TaskIds :
        /\ NextTask(t)
        /\ task' = [task EXCEPT ![t].state = "claimed"]
        /\ held' = t \/ held' = held
  BY DEF Claim
<1>2. /\ DeploymentInv' /\ Keeps /\ pc = "poll" /\ held = NoTask /\ wait = NoConn
      /\ UNCHANGED <<row, req, wait, rep, config, outcome, crashes>>
  BY ClaimInv DEF Claim, DeploymentInv, LoopInv
<1>3. /\ task[t].state = "generated" /\ task'[t].state = "claimed"
      /\ task'[t].id = task[t].id /\ task'[t].action = task[t].action /\ task'[t].port = task[t].port
      /\ \A u \in TaskIds : u # t => task'[u] = task[u]
  BY <1>1 DEF NextTask, DeploymentInv, TypeOK, Entries
<1>4. \A u \in TaskIds : Claimed(u)' <=> Claimed(u) \/ u = t
  BY <1>3 DEF Claimed
<1>5. QueueInv'
  <2>1. \A u \in TaskIds : Claimed(u) => u < t
    BY <1>3 DEF QueueInv
  <2>2. \A x, u \in TaskIds : task'[x].state = "generated" /\ Claimed(u)' => u < x
    <3> SUFFICES ASSUME NEW x \in TaskIds, NEW u \in TaskIds, task'[x].state = "generated", Claimed(u)'
                 PROVE  u < x
      OBVIOUS
    <3>1. x # t /\ task[x].state = "generated"
      BY <1>3
    <3>2. t < x
      BY <1>1, <3>1 DEF NextTask, TaskIds
    <3> QED BY <1>4, <2>1, <3>1, <3>2 DEF QueueInv, TaskIds
  <2>3. held' # NoTask => \A u \in TaskIds : Claimed(u)' => u <= held'
    BY <1>1, <1>2, <1>4, <2>1 DEF TaskIds
  <2> QED BY <2>2, <2>3 DEF QueueInv
<1>6. ResultInv'
  BY <1>2, <1>3 DEF ResultInv, Final
<1>7. FilesInv'
  <2>1. \A u \in TaskIds : task'[u].id = task[u].id /\ task'[u].action = task[u].action /\ task'[u].port = task[u].port
    BY <1>3
  <2>2. \A n \in RowIds : TasksOf(n)' = TasksOf(n)
    BY <2>1 DEF TasksOf
  <2>3. \A n \in RowIds : \A u \in TasksOf(n) : task'[u].action = task[u].action /\ task'[u].port = task[u].port
    BY <2>1 DEF TasksOf
  <2> QED BY <1>2, <2>2, <2>3 DEF FilesInv
<1>8. PatienceInv'
  <2>1. faults' = 0 => faults = 0
    BY DEF Claim, DeploymentInv, TypeOK
  <2> QED BY <1>2, <2>1, DeploymentAssumption DEF PatienceInv
<1>9. Undisturbed' => Undisturbed
  <2>1. faults' = 0 => faults = 0
    BY DEF Claim, DeploymentInv, TypeOK
  <2> QED BY <1>2, <2>1, StaysCalm
<1>10. TaskedInv'
  <2>1. \A n \in RowIds : Requested(n) => Requested(n)'
    BY <1>2 DEF Requested
  <2>2. \A u \in TaskIds : task'[u].id = task[u].id
    BY <1>3
  <2> QED BY <1>2, <1>9, <2>1, <2>2, TaskedKept
<1>11. LeavesRest
  <2> SUFFICES ASSUME NEW n \in RowIds, NEW u \in TaskIds, Undisturbed', AtRest(n, u)'
               PROVE  Left(n, u)
    BY DEF LeavesRest
  <2>1. u # t /\ task'[u] = task[u]
    BY <1>3 DEF AtRest, Final
  <2>2. (Requested(n) => Requested(n)') /\ (Handling(u) => Handling(u)')
    BY <1>2 DEF Requested, Handling
  <2>3. \A x \in TaskIds : task[x].id = n => task'[x].id = n
    BY <1>3
  <2> QED BY <1>2, <1>9, <2>1, <2>2, <2>3, RestLeft
<1> QED BY <1>5, <1>6, <1>7, <1>8, <1>10, <1>11

LEMMA PostShared ==
    ASSUME DeploymentInv, SharedInv, NEW c \in Conns, Post(c)
    PROVE  SharedInv' /\ LeavesRest
<1> USE DEF SharedInv, rows, tasks, site, budget
<1>1. PICK r : r = [phase |-> "sent", task |-> held, row |-> NoRow,
                    state |-> IF pc = "announcing" THEN "running" ELSE outcome[held]]
  OBVIOUS
<1>2. /\ DeploymentInv' /\ Keeps /\ wait = NoConn /\ wait' = c /\ rep[c] = Quiet
      /\ rep' = [rep EXCEPT ![c] = r] /\ r.phase = "sent" /\ r.task = held
      /\ UNCHANGED <<row, req, task, held, config, outcome, faults, crashes>>
  BY <1>1, PostInv DEF Post
<1>3. /\ rep'[c] = r /\ \A d \in Conns : d # c => rep'[d] = rep[d]
  BY <1>2 DEF DeploymentInv, TypeOK
<1>4. QueueInv' /\ ResultInv' /\ FilesInv'
  BY <1>2, TablesKept
<1>5. PatienceInv'
  BY <1>2, <1>3, DeploymentAssumption DEF PatienceInv
<1>6. \A t \in TaskIds : Handling(t) => Handling(t)'
  BY <1>2, <1>3 DEF Handling, Quiet
<1> QED BY <1>2, <1>4, <1>5, <1>6, RowsKept

(* A step that only makes a report quiet that nobody handles.              *)
LEMMA HungUp ==
    ASSUME DeploymentInv, SharedInv, Keeps,
           wait \in Conns, rep' = [rep EXCEPT ![wait] = Quiet],
           rep[wait].phase \notin {"sent", "written", "read"},
           held' \in {held, NoTask},
           UNCHANGED <<row, req, task, config, outcome, faults, crashes>>
    PROVE  SharedInv' /\ LeavesRest
<1> USE DEF SharedInv
<1>1. rep'[wait] = Quiet /\ \A d \in Conns : d # wait => rep'[d] = rep[d]
  BY DEF DeploymentInv, TypeOK
<1>2. QueueInv' /\ ResultInv' /\ FilesInv'
  BY TablesKept
<1>3. PatienceInv'
  BY <1>1 DEF PatienceInv
<1>4. \A t \in TaskIds : Handling(t) => Handling(t)'
  BY <1>1 DEF Handling
<1> QED BY <1>2, <1>3, <1>4, RowsKept

LEMMA ReceiveShared ==
    ASSUME DeploymentInv, SharedInv, Receive
    PROVE  SharedInv' /\ LeavesRest
<1>1. /\ wait \in Conns /\ rep' = [rep EXCEPT ![wait] = Quiet] /\ rep[wait].phase = "answered"
      /\ held' \in {held, NoTask}
      /\ UNCHANGED <<row, req, task, config, outcome, faults, crashes>>
  BY DEF Receive, Advance, DeploymentInv, TypeOK, rows, tasks, site, budget
<1> QED BY <1>1, ReceiveInv, HungUp

(* After a fault nothing is promised of rows, but the tables stay right.   *)
LEMMA Disturbed ==
    ASSUME DeploymentInv, SharedInv, faults' # 0 \/ crashes' # 0,
           QueueInv', ResultInv', FilesInv',
           \A h \in Requests : req'[h] = req[h] \/ req'[h] = Free,
           UNCHANGED task
    PROVE  SharedInv' /\ LeavesRest
<1> USE DEF SharedInv
<1>1. ~Undisturbed' /\ PatienceInv'
  BY DEF Undisturbed, PatienceInv
<1>2. TaskedInv'
  BY <1>1 DEF TaskedInv, Free
<1> QED BY <1>1, <1>2 DEF LeavesRest

LEMMA AttemptFailsShared ==
    ASSUME DeploymentInv, SharedInv, AttemptFails
    PROVE  SharedInv' /\ LeavesRest
<1> USE DEF SharedInv, rows, tasks, site
<1>1. /\ wait \in Conns /\ held' \in {held, NoTask}
      /\ UNCHANGED <<row, req, task, config, outcome, crashes>>
  BY DEF AttemptFails, Advance, DeploymentInv, TypeOK
<1>2. QueueInv' /\ ResultInv' /\ FilesInv'
  BY <1>1, TablesKept
<1>3. faults' # 0 \/ crashes' # 0
  <2>1. CASE rep[wait].phase = "broken"
    BY <2>1, <1>1 DEF AttemptFails, PatienceInv, Quiet
  <2>2. CASE faults' = faults + 1
    BY <2>2 DEF DeploymentInv, TypeOK
  <2> QED BY <2>1, <2>2 DEF AttemptFails
<1> QED BY <1>1, <1>2, <1>3, Disturbed

LEMMA MasterRestartShared ==
    ASSUME DeploymentInv, SharedInv, MasterRestart
    PROVE  SharedInv' /\ LeavesRest
<1> USE DEF SharedInv, tasks, agent, site
<1>1. /\ \A h \in Requests : req'[h] = Free
      /\ UNCHANGED <<task, config, outcome, held>> /\ crashes' # 0
  BY DEF MasterRestart, DeploymentInv, TypeOK
<1>2. QueueInv' /\ ResultInv' /\ FilesInv'
  BY <1>1, TablesKept
<1> QED BY <1>1, <1>2, Disturbed

(* A script that went through leaves its files, and no later one ran.      *)
LEMMA ScriptTables ==
    ASSUME DeploymentInv, SharedInv, pc = "executing", UNCHANGED task, held' \in {held, NoTask},
           NEW o \in {"killed"} \cup Final, outcome' = [outcome EXCEPT ![held] = o],
           NEW p, config' = [config EXCEPT ![task[held].id] = p],
           o = "succeeded" => p = Installed(held)
    PROVE  /\ QueueInv' /\ ResultInv' /\ FilesInv'
           /\ \A t \in TaskIds : task[t].state \in Final => outcome'[t] = outcome[t]
<1> USE DEF SharedInv
<1>1. /\ held \in TaskIds /\ held # NoTask /\ Claimed(held) /\ outcome[held] = "none"
      /\ task[held].id \in RowIds
  BY ClaimedRow DEF DeploymentInv, LoopInv, Claimed
<1>2. /\ outcome'[held] = o /\ \A t \in TaskIds : t # held => outcome'[t] = outcome[t]
      /\ config'[task[held].id] = p
      /\ \A n \in RowIds : n # task[held].id => config'[n] = config[n]
  BY <1>1 DEF DeploymentInv, TypeOK
<1>3. QueueInv'
  BY DEF QueueInv, Claimed
<1>4. task[held].state \notin Final
  BY <1>1 DEF ResultInv, Final
<1>5. ResultInv' /\ \A t \in TaskIds : task[t].state \in Final => outcome'[t] = outcome[t]
  BY <1>2, <1>4 DEF ResultInv
<1>6. FilesInv'
  <2> SUFFICES ASSUME NEW n \in RowIds, NEW t \in TasksOf(n), outcome'[t] = "succeeded",
                      \A u \in TasksOf(n) : outcome'[u] # "none" => u <= t
               PROVE  /\ task[t].action = "present" => config'[n] = task[t].port
                      /\ task[t].action = "absent"  => config'[n] = NoPort
    BY DEF FilesInv, TasksOf
  <2>1. t \in TaskIds /\ task[t].id = n
    BY DEF TasksOf
  <2>2. CASE t = held
    BY <2>1, <2>2, <1>2 DEF Installed
  <2>3. CASE t # held /\ n = task[held].id
    <3>1. held <= t
      BY <2>3, <1>1, <1>2 DEF TasksOf, Final
    <3>2. Claimed(t)
      BY <2>1, <2>3, <1>2 DEF DeploymentInv, TableInv, Claimed, NoEntry
    <3>3. t <= held
      BY <3>2, <2>1, <1>1 DEF QueueInv
    <3> QED BY <3>1, <3>3, <2>1, <2>3, <1>1 DEF TaskIds
  <2>4. CASE n # task[held].id
    <3>1. t # held /\ held \notin TasksOf(n)
      BY <2>1, <2>4 DEF TasksOf
    <3>2. \A u \in TasksOf(n) : outcome'[u] = outcome[u]
      BY <3>1, <1>2 DEF TasksOf
    <3> QED BY <3>1, <3>2, <1>2, <2>4 DEF FilesInv
  <2> QED BY <2>2, <2>3, <2>4
<1> QED BY <1>3, <1>5, <1>6

LEMMA RunScriptShared ==
    ASSUME DeploymentInv, SharedInv, RunScript
    PROVE  SharedInv' /\ LeavesRest
<1> USE DEF SharedInv, rows, tasks, budget
<1>1. PICK o, p :
        /\ o \in Final
        /\ outcome' = [outcome EXCEPT ![held] = o]
        /\ config' = [config EXCEPT ![task[held].id] = p]
        /\ o = "succeeded" => p = Installed(held)
  BY DEF RunScript, PartlyInstalled, Final
<1>2. /\ DeploymentInv' /\ Keeps /\ pc = "executing"
      /\ UNCHANGED <<row, req, task, held, wait, rep, faults, crashes>>
  BY RunScriptInv DEF RunScript
<1>3. /\ QueueInv' /\ ResultInv' /\ FilesInv'
      /\ \A t \in TaskIds : task[t].state \in Final => outcome'[t] = outcome[t]
  BY <1>1, <1>2, ScriptTables
<1>4. PatienceInv'
  BY <1>2 DEF PatienceInv
<1>5. \A t \in TaskIds : Handling(t) <=> Handling(t)'
  BY <1>2 DEF Handling
<1> QED BY <1>2, <1>3, <1>4, <1>5, RowsKept

LEMMA AgentCrashShared ==
    ASSUME DeploymentInv, SharedInv, AgentCrash
    PROVE  SharedInv' /\ LeavesRest
<1> USE DEF SharedInv, rows, tasks, site
<1>1. UNCHANGED <<row, req, task>> /\ held' = NoTask /\ crashes' # 0
  BY DEF AgentCrash, DeploymentInv, TypeOK
<1>2. QueueInv' /\ ResultInv' /\ FilesInv'
  <2>1. CASE pc = "executing"
    <3>1. PICK p : /\ outcome' = [outcome EXCEPT ![held] = "killed"]
                   /\ config' = [config EXCEPT ![task[held].id] = p]
      BY <2>1 DEF AgentCrash
    <3>2. PICK o : o = "killed"
      OBVIOUS
    <3>3. o \in {"killed"} \cup Final /\ (o = "succeeded" => p = Installed(held))
      BY <3>2
    <3>4. outcome' = [outcome EXCEPT ![held] = o] /\ config' = [config EXCEPT ![task[held].id] = p]
      BY <3>1, <3>2
    <3> QED BY <2>1, <3>3, <3>4, <1>1, ScriptTables
  <2>2. CASE pc # "executing"
    <3>1. UNCHANGED <<config, outcome>>
      BY <2>2 DEF AgentCrash
    <3> QED BY <3>1, <1>1, TablesKept
  <2> QED BY <2>1, <2>2
<1> QED BY <1>1, <1>2, Disturbed

LEMMA ReportWriteShared ==
    ASSUME DeploymentInv, SharedInv, NEW c \in Conns, ReportWrite(c)
    PROVE  SharedInv' /\ LeavesRest
<1> USE DEF SharedInv, rows, agent, site, budget
<1>1. PICK u, s : u = rep[c].task /\ s = rep[c].state
  OBVIOUS
<1>2. /\ DeploymentInv' /\ Keeps /\ rep[c].phase = "sent" /\ rep[c] \in ReportRecords
      /\ u \in TaskIds /\ Claimed(u) /\ s \in {"running"} \cup Final
      /\ s \in Final => outcome[u] = s
      /\ task' = [task EXCEPT ![u].state = s]
      /\ rep' = [rep EXCEPT ![c].phase = "written"]
      /\ UNCHANGED <<row, req, held, wait, config, outcome, faults, crashes>>
  <2>1. DeploymentInv' /\ Keeps
    BY ReportWriteInv
  <2>2. /\ rep[c].phase = "sent" /\ rep[c] \in ReportRecords
        /\ u \in TaskIds /\ Claimed(u) /\ s \in {"running"} \cup Final
        /\ s \in Final => outcome[u] = s
    BY <1>1 DEF ReportWrite, DeploymentInv, ReportInv, TypeOK, ReportRecords, Claimed
  <2> QED BY <2>1, <2>2, <1>1 DEF ReportWrite
<1>3. /\ task'[u].state = s /\ task'[u].id = task[u].id
      /\ task'[u].action = task[u].action /\ task'[u].port = task[u].port
      /\ \A t \in TaskIds : t # u => task'[t] = task[t]
  BY <1>2 DEF DeploymentInv, TypeOK, Entries
<1>4. /\ rep'[c].phase = "written" /\ rep'[c].task = u /\ rep'[c].state = s
      /\ \A d \in Conns : d # c => rep'[d] = rep[d]
  BY <1>1, <1>2 DEF DeploymentInv, TypeOK, ReportRecords
<1>5. QueueInv'
  <2>1. \A t \in TaskIds : /\ Claimed(t)' <=> Claimed(t)
                           /\ task'[t].state = "generated" => task[t].state = "generated"
    BY <1>2, <1>3 DEF Claimed, Final
  <2> QED BY <1>2, <2>1 DEF QueueInv
<1>6. ResultInv'
  BY <1>2, <1>3 DEF ResultInv
<1>7. FilesInv'
  <2>1. \A t \in TaskIds : task'[t].id = task[t].id /\ task'[t].action = task[t].action /\ task'[t].port = task[t].port
    BY <1>3
  <2>2. \A n \in RowIds : TasksOf(n)' = TasksOf(n)
    BY <2>1 DEF TasksOf
  <2>3. \A n \in RowIds : \A t \in TasksOf(n) : task'[t].action = task[t].action /\ task'[t].port = task[t].port
    BY <2>1 DEF TasksOf
  <2> QED BY <1>2, <2>2, <2>3 DEF FilesInv
<1>8. PatienceInv'
  <2> SUFFICES ASSUME faults = 0, crashes = 0, NEW d \in Conns, rep'[d] # Quiet
               PROVE  /\ wait = d /\ rep'[d].task = held /\ rep'[d].phase # "broken"
                      /\ rep'[d].phase \in {"written", "read"} => task'[held].state = rep'[d].state
    BY <1>2 DEF PatienceInv
  <2>1. rep[c] # Quiet /\ wait = c /\ held = u
    BY <1>1, <1>2 DEF PatienceInv, Quiet
  <2>2. CASE d = c
    BY <2>1, <2>2, <1>3, <1>4
  <2>3. CASE d # c
    BY <2>1, <2>3, <1>4 DEF PatienceInv
  <2> QED BY <2>2, <2>3
<1>9. \A t \in TaskIds : /\ task'[t].id = task[t].id
                         /\ ~Handling(t)' => task'[t] = task[t] /\ ~Handling(t)
  <2>1. Handling(u)'
    BY <1>4 DEF Handling
  <2>2. \A t \in TaskIds : t # u /\ Handling(t) => Handling(t)'
    BY <1>1, <1>4 DEF Handling
  <2> QED BY <1>3, <2>1, <2>2
<1> QED BY <1>2, <1>5, <1>6, <1>7, <1>8, <1>9, RowsKept

LEMMA ReadRowShared ==
    ASSUME DeploymentInv, SharedInv, NEW c \in Conns, ReadRow(c)
    PROVE  SharedInv' /\ LeavesRest
<1> USE DEF SharedInv, rows, tasks, agent, site, budget
<1>1. PICK r : r = row[task[rep[c].task].id]
  OBVIOUS
<1>2. /\ DeploymentInv' /\ Keeps /\ rep[c].phase = "written"
      /\ rep' = [rep EXCEPT ![c].phase = "read", ![c].row = r]
      /\ UNCHANGED <<row, req, task, held, wait, config, outcome, faults, crashes>>
  BY <1>1, ReadRowInv DEF ReadRow
<1>3. /\ rep'[c].phase = "read" /\ rep'[c].task = rep[c].task /\ rep'[c].state = rep[c].state
      /\ \A d \in Conns : d # c => rep'[d] = rep[d]
  BY <1>2 DEF DeploymentInv, TypeOK, ReportRecords
<1>4. QueueInv' /\ ResultInv' /\ FilesInv'
  BY <1>2, TablesKept
<1>5. PatienceInv'
  <2> SUFFICES ASSUME faults = 0, crashes = 0, NEW d \in Conns, rep'[d] # Quiet
               PROVE  /\ wait = d /\ rep'[d].task = held /\ rep'[d].phase # "broken"
                      /\ rep'[d].phase \in {"written", "read"} => task[held].state = rep'[d].state
    BY <1>2 DEF PatienceInv
  <2>1. rep[c] # Quiet
    BY <1>2 DEF Quiet
  <2>2. wait = c /\ rep[c].task = held /\ task[held].state = rep[c].state
    BY <2>1, <1>2 DEF PatienceInv
  <2>3. CASE d = c
    BY <2>2, <2>3, <1>3
  <2>4. CASE d # c
    BY <2>2, <2>4, <1>3 DEF PatienceInv
  <2> QED BY <2>3, <2>4
<1>6. \A t \in TaskIds : Handling(t) => Handling(t)'
  BY <1>2, <1>3 DEF Handling
<1> QED BY <1>2, <1>4, <1>5, <1>6, RowsKept

LEMMA StutterShared ==
    ASSUME DeploymentInv, SharedInv, UNCHANGED vars
    PROVE  SharedInv' /\ LeavesRest
<1> USE DEF SharedInv, vars, rows, tasks, agent, site, budget
<1>1. DeploymentInv' /\ Keeps
  BY StutterInv
<1>2. QueueInv' /\ ResultInv' /\ FilesInv' /\ PatienceInv'
  BY TablesKept DEF PatienceInv
<1>3. \A t \in TaskIds : Handling(t) <=> Handling(t)'
  BY DEF Handling
<1> QED BY <1>1, <1>2, <1>3, RowsKept

LEMMA SharedSteps ==
    ASSUME DeploymentInv, SharedInv, SharedStep
    PROVE  /\ DeploymentInv' /\ SharedInv'
           /\ LeavesRest
<1>1. CASE ConsoleStep
  BY <1>1, ConsoleShared, CreateRowInv, UpdateRowInv, DeleteRowInv, RestartRowInv DEF ConsoleStep
<1>2. CASE \E h \in Requests : HandleRequest(h)
  BY <1>2, HandlerShared, WriteRowInv, CreateTaskInv DEF HandleRequest
<1>3. CASE \E c \in Conns : ReportWrite(c) \/ ReadRow(c)
  BY <1>3, ReportWriteShared, ReadRowShared, ReportWriteInv, ReadRowInv
<1>4. CASE AgentStep
  BY <1>4, ClaimShared, PostShared, ReceiveShared, RunScriptShared, AgentStepInv DEF AgentStep
<1>5. CASE Fault
  BY <1>5, AttemptFailsShared, AgentCrashShared, MasterRestartShared, FaultInv DEF Fault
<1>6. CASE UNCHANGED vars
  BY <1>6, StutterShared, StutterInv
<1> QED BY <1>1, <1>2, <1>3, <1>4, <1>5, <1>6 DEF SharedStep

(* A handler is done with its report, and wrote no row but that of its task. *)
Answer(c) ==
    /\ rep[c].phase \in {"written", "read"}
    /\ rep' = [rep EXCEPT ![c] = Answered(c)]
    /\ UNCHANGED <<req, tasks, agent, site, budget>>
    /\ row' \in [RowIds -> RowRecords]
    /\ \A n \in RowIds : n # task[rep[c].task].id => row'[n] = row[n]

(* If a row is at rest then, either the report was about its last task and  *)
(* told how it ended, or the row was not touched.                           *)
LEMMA AnswerShared ==
    ASSUME DeploymentInv, SharedInv, NEW c \in Conns, Answer(c), DeploymentInv', Keeps
    PROVE  /\ SharedInv'
           /\ \A n \in RowIds, t \in TaskIds : Undisturbed' /\ AtRest(n, t)' =>
                \/ /\ t = rep[c].task /\ n = task[t].id /\ Undisturbed
                   /\ rep[c].state \in Final /\ outcome[t] = rep[c].state
                \/ Left(n, t)
<1> USE DEF SharedInv, tasks, agent, site, budget
<1>1. PICK u : u = rep[c].task
  OBVIOUS
<1>2. /\ rep[c].phase \in {"written", "read"} /\ rep[c] # Quiet
      /\ UNCHANGED <<req, task, held, wait, config, outcome, faults, crashes>>
      /\ Claimed(u) /\ u \in TaskIds /\ task[u].id \in RowIds /\ row[task[u].id] # NoRow
  BY <1>1, ClaimedRow DEF Answer, Quiet, DeploymentInv, ReportInv
<1>3. /\ \A d \in Conns : d # c => rep'[d] = rep[d]
      /\ rep'[c] = Answered(c)
      /\ rep'[c].phase \notin {"sent", "written", "read", "broken"}
  BY DEF Answer, Answered, Quiet, DeploymentInv, TypeOK
<1>4. QueueInv' /\ ResultInv' /\ FilesInv'
  BY <1>2, TablesKept
<1>5. PatienceInv'
  BY <1>1, <1>2, <1>3 DEF PatienceInv, Answered, Quiet
<1>6. Undisturbed' => Undisturbed
  BY <1>2, StaysCalm
<1>7. \A n \in RowIds : Requested(n)' <=> Requested(n)
  BY <1>2 DEF Requested
<1>8. TaskedInv'
  <2>1. \A n \in RowIds : row'[n] # NoRow => row[n] # NoRow
    BY <1>1, <1>2 DEF Answer
  <2> QED BY <2>1, <1>2, <1>6, <1>7, TaskedKept
<1>9. ASSUME NEW n \in RowIds, NEW t \in TaskIds, Undisturbed', AtRest(n, t)'
      PROVE  \/ /\ t = u /\ n = task[t].id /\ Undisturbed
                /\ rep[c].state \in Final /\ outcome[t] = rep[c].state
             \/ Left(n, t)
  <2>1. /\ Undisturbed /\ u = held /\ task[u].state = rep[c].state
    BY <1>1, <1>2, <1>6, <1>9 DEF PatienceInv, Undisturbed
  <2>2. /\ task[t].id = n /\ task[t].state \in Final
        /\ \A x \in TaskIds : task[x].id = n => x <= t
    BY <1>2, <1>9 DEF AtRest, Newest, TasksOf
  <2>3. CASE t = u
    BY <2>1, <2>2, <2>3 DEF ResultInv
  <2>4. CASE t # u
    <3>1. t <= u
      <4>1. Claimed(t)
        BY <2>2 DEF Claimed, Final
      <4> QED BY <4>1, <2>1, <1>2 DEF QueueInv, TaskIds, NoTask
    <3>2. n # task[u].id
      BY <3>1, <2>2, <2>4, <1>2 DEF TaskIds
    <3>3. row'[n] = row[n]
      BY <3>2, <1>1 DEF Answer
    <3>4. Handling(t) => Handling(t)'
      BY <1>1, <1>3, <2>4 DEF Handling
    <3> QED BY <3>3, <3>4, <2>1, <1>2, <1>7, <1>9, RestLeft
  <2> QED BY <2>3, <2>4
<1> QED BY <1>1, <1>4, <1>5, <1>8, <1>9

(* A row that nothing is under way for is at rest, and its last task ended. *)
LEMMA QuietRow ==
    ASSUME DeploymentInv, SharedInv, Undisturbed, NEW n \in RowIds, row[n] # NoRow, ~Busy(n)
    PROVE  \E t \in TaskIds : /\ AtRest(n, t) /\ Newest(n, t)
                              /\ outcome[t] = task[t].state /\ outcome[t] \in Final
                              /\ task[t].action \in {"present", "absent"}
<1> USE DEF SharedInv
<1>1. ~Requested(n)
  BY DEF Busy, Requested
<1>2. PICK t \in TaskIds : Newest(n, t)
  BY <1>1 DEF TaskedInv
<1>3. t \in TasksOf(n) /\ task[t].id = n
  BY <1>2 DEF Newest, TasksOf
<1>4. task[t].state \in Final
  BY <1>3 DEF Busy
<1>5. ~Handling(t)
  BY <1>3 DEF Busy, Handling, Quiet
<1>6. task[t].action \in {"present", "absent"}
  BY <1>4 DEF Undisturbed, DeploymentInv, TypeOK, Entries, TableInv, NoEntry, Final
<1> QED BY <1>1, <1>2, <1>4, <1>5, <1>6 DEF AtRest, ResultInv

-----------------------------------------------------------------------------
(* Snell nodes.  The inductive invariant is FoundedInv: a row is copied into *)
(* requests and reports and written back from there, so the copies must be   *)
(* as well founded as the rows; and a report must tell how its script ended  *)
(* (DeploymentInv).                                                          *)

(* The report of a script is the evidence for what it makes the row say.   *)
LEMMA MergedIsFounded ==
    ASSUME FoundedInv, NEW c \in Conns, rep[c].phase = "read",
           NEW r, r = Merged(rep[c].row, rep[c].task, rep[c].state)
    PROVE  r \in RowRecords /\ r.port \in Ports /\ Founded(task[rep[c].task].id, r)
<1> USE DEF FoundedInv
<1> DEFINE t == rep[c].task
           old == rep[c].row
<1>1. /\ Claimed(t) /\ t \in TaskIds /\ task[t].port \in Ports
      /\ task[t].action \in {"present", "absent", "restarted"}
  BY ClaimedRow DEF DeploymentInv, ReportInv, TypeOK, Entries
<1>2. /\ old \in RowRecords /\ old.port \in Ports /\ old # NoRow
      /\ Founded(task[t].id, old)
  BY DeploymentAssumption DEF DeploymentInv, ReportInv, TypeOK, ReportRecords, CopiesAreFounded, NoRow
<1>3. CASE rep[c].state = "succeeded"
  <2>1. Ended(task[t].id, {task[t].action}, "succeeded")
    BY <1>1, <1>3 DEF Ended, TasksOf, DeploymentInv, ReportInv, Final
  <2>2. CASE task[t].action = "absent"
    <3>1. r = [state |-> "deleted", live |-> FALSE, port |-> task[t].port]
      BY <1>3, <2>2 DEF Merged
    <3> QED BY <3>1, <2>1, <2>2, <1>1 DEF Founded, RowRecords, RowStates
  <2>3. CASE task[t].action # "absent"
    <3>1. r = [state |-> "active", live |-> TRUE, port |-> task[t].port]
      BY <1>3, <2>3 DEF Merged
    <3>2. Ended(task[t].id, {"present", "restarted"}, "succeeded")
      BY <2>1, <2>3, <1>1 DEF Ended
    <3> QED BY <3>1, <3>2, <1>1 DEF Founded, RowRecords, RowStates
  <2> QED BY <2>2, <2>3
<1>4. CASE rep[c].state # "succeeded"
  <2> DEFINE s == IF task[t].action = "absent" THEN "delete_failed" ELSE "failed"
  <2>1. r = [old EXCEPT !.state = s]
    BY <1>4 DEF Merged
  <2>2. /\ s = "failed" => HandedOut(task[t].id, {"present", "restarted"})
        /\ s = "delete_failed" => HandedOut(task[t].id, {"absent"})
    BY <1>1 DEF HandedOut, TasksOf, Claimed
  <2>3. s \in {"failed", "delete_failed"}
    OBVIOUS
  <2> HIDE DEF s
  <2> QED BY <2>1, <2>2, <2>3, <1>2 DEF Founded, RowRecords, RowStates
<1> QED BY <1>3, <1>4

LEMMA ReportNodes ==
    ASSUME FoundedInv, NEW c \in Conns, HandleReport(c)
    PROVE  FoundedInv'
<1>1. CASE ApplyReport(c)
  <2>1. PICK r : r = Merged(rep[c].row, rep[c].task, rep[c].state)
    OBVIOUS
  <2>2. /\ rep[c].phase = "read" /\ row' = [row EXCEPT ![task[rep[c].task].id] = r]
        /\ rep' = [rep EXCEPT ![c] = Answered(c)]
        /\ UNCHANGED <<req, tasks, agent, site, budget>>
    BY <1>1, <2>1 DEF ApplyReport
  <2>3. r \in RowRecords /\ r.port \in Ports /\ Founded(task[rep[c].task].id, r)
    BY <2>1, <2>2, MergedIsFounded
  <2>4. Claimed(rep[c].task)
    BY <2>2 DEF FoundedInv, DeploymentInv, ReportInv
  <2> QED BY <2>2, <2>3, <2>4, AnsweredFounded
<1> QED BY <1>1, ReportWriteFounded, ReadRowFounded DEF HandleReport

LEMMA NextNodes ==
    ASSUME FoundedInv, [Next]_vars
    PROVE  FoundedInv'
<1>1. CASE Console
  BY <1>1, CreateRowFounded, UpdateRowFounded, DeleteRowFounded, RestartRowFounded
     DEF Console, CreateNode, UpdateNode, DeleteNode, RestartNode
<1>2. CASE \E h \in Requests : HandleRequest(h)
  BY <1>2, HandlerFounded
<1>3. CASE \E c \in Conns : HandleReport(c)
  BY <1>3, ReportNodes
<1>4. CASE AgentStep \/ Fault \/ UNCHANGED vars
  BY <1>4, OthersFounded
<1> QED BY <1>1, <1>2, <1>3, <1>4 DEF Next

(* FoundedInv is an inductive invariant of the service.                    *)
THEOREM NodesInvariant == Safe => []FoundedInv
<1>1. Init => FoundedInv
  BY InitFounded
<1>2. FoundedInv /\ [Next]_vars => FoundedInv'
  BY NextNodes
<1> QED BY <1>1, <1>2, PTL DEF Safe

(* Every variable keeps its type.                                          *)
THEOREM NodesTypes == Safe => []TypeOK
<1>1. FoundedInv => TypeOK
  BY DEF FoundedInv, DeploymentInv
<1> QED BY <1>1, NodesInvariant, PTL

(* A node is shown as active only after a script deployed or restarted it, *)
(* and disappears from the list only after a script removed it: whichever  *)
(* requests overlap, whichever reports are lost, late or repeated, and     *)
(* however often agent and master crash.                                   *)
THEOREM NodeRowsAreFounded == Safe => []RowIsFounded
<1>1. FoundedInv => RowIsFounded
  BY DEF FoundedInv
<1> QED BY <1>1, NodesInvariant, PTL
-----------------------------------------------------------------------------
(* Forward rules.  The steps that do not merge a report are those of         *)
(* Deployment, which both modules extend.                                    *)

LEMMA RuleInit == Rules!Init <=> Init
  BY DEF Rules!Init, Init, Rules!NoRow, NoRow, Rules!Free, Free, Rules!NoEntry, NoEntry,
         Rules!Quiet, Quiet, Rules!NoTask, NoTask, Rules!TaskIds, TaskIds

LEMMA RuleBegin ==
    ASSUME NEW h \in Requests, NEW op, NEW n, NEW step, NEW r, Rules!Begin(h, op, n, step, r)
    PROVE  Begin(h, op, n, step, r)
<1>1. Rules!Free = Free
  BY DEF Rules!Free, Free, Rules!NoRow, NoRow
<1>2. {g \in Requests : req[g] # Rules!Free} = {g \in Requests : req[g] # Free}
  BY <1>1
<1>3. \A S : Rules!Cardinality(S) = Cardinality(S)
  BY DEF Rules!Cardinality, Cardinality
<1>4. Rules!Room => Room
  BY <1>2, <1>3 DEF Rules!Room, Room
<1> QED BY <1>1, <1>4 DEF Rules!Begin, Begin

LEMMA RuleConsole ==
    ASSUME Rules!Console
    PROVE  \E h \in Requests, n \in RowIds :
             \/ \E p \in Ports : CreateRow(h, n, p) \/ UpdateRow(h, n, p)
             \/ DeleteRow(h, n) \/ RestartRow(h, n)
<1> USE RuleBegin DEF Rules!NoRow, NoRow, Rules!tasks, tasks, Rules!agent, agent,
            Rules!site, site, Rules!budget, budget
<1>1. ASSUME NEW h \in Requests, NEW n \in RowIds, NEW p \in Ports, Rules!CreateRow(h, n, p)
      PROVE  CreateRow(h, n, p)
  BY <1>1 DEF Rules!CreateRow, CreateRow
<1>2. ASSUME NEW h \in Requests, NEW n \in RowIds, NEW p \in Ports, Rules!UpdateRow(h, n, p)
      PROVE  UpdateRow(h, n, p)
  BY <1>2 DEF Rules!UpdateRow, UpdateRow
<1>3. ASSUME NEW h \in Requests, NEW n \in RowIds, Rules!DeleteRow(h, n)
      PROVE  DeleteRow(h, n)
  BY <1>3 DEF Rules!DeleteRow, DeleteRow, Rules!Deleting, Deleting
<1>4. ASSUME NEW h \in Requests, NEW n \in RowIds, Rules!RestartRow(h, n)
      PROVE  RestartRow(h, n)
  BY <1>4 DEF Rules!RestartRow, RestartRow
<1> QED BY <1>1, <1>2, <1>3, <1>4 DEF Rules!Console, Rules!CreateRule, Rules!UpdateRule, Rules!DeleteRule, Rules!RestartRule

LEMMA RuleRequest ==
    ASSUME NEW h \in Requests, Rules!HandleRequest(h)
    PROVE  HandleRequest(h)
  BY DEF Rules!HandleRequest, HandleRequest, Rules!WriteRow, WriteRow, Rules!CreateTask, CreateTask,
         Rules!Return, Return, Rules!Free, Free, Rules!NoRow, NoRow, Rules!Action, Action,
         Rules!tasks, tasks, Rules!agent, agent, Rules!site, site, Rules!budget, budget

LEMMA RuleOthers ==
    ASSUME Rules!AgentStep \/ Rules!Fault
    PROVE  AgentStep \/ Fault
<1> USE DEF Rules!rows, rows, Rules!tasks, tasks, Rules!agent, agent, Rules!site, site,
            Rules!budget, budget, Rules!TaskIds, TaskIds, Rules!NoTask, NoTask, Rules!Quiet, Quiet,
            Rules!NoRow, NoRow, Rules!Free, Free
<1>1. Rules!Claim => Claim
  BY DEF Rules!Claim, Claim, Rules!NextTask, NextTask
<1>2. ASSUME NEW c \in Conns PROVE Rules!Post(c) => Post(c)
  BY DEF Rules!Post, Post
<1>3. Rules!Receive => Receive
  BY DEF Rules!Receive, Receive, Rules!Advance, Advance
<1>4. Rules!RunScript => RunScript
  BY DEF Rules!RunScript, RunScript, Rules!CanSucceed, CanSucceed, Rules!Installed, Installed,
         Rules!PartlyInstalled, PartlyInstalled
<1>5. Rules!AttemptFails => AttemptFails
  BY DEF Rules!AttemptFails, AttemptFails, Rules!Advance, Advance
<1>6. Rules!AgentCrash => AgentCrash
  BY DEF Rules!AgentCrash, AgentCrash, Rules!Installed, Installed, Rules!PartlyInstalled, PartlyInstalled
<1>7. Rules!MasterRestart => MasterRestart
  BY DEF Rules!MasterRestart, MasterRestart
<1> QED BY <1>1, <1>2, <1>3, <1>4, <1>5, <1>6, <1>7 DEF Rules!AgentStep, AgentStep, Rules!Fault, Fault

(* What a report of a task may do to its rule.                             *)
RuleReport(c) ==
    \/ ReportWrite(c)
    \/ /\ rep[c].phase = "written" /\ rep[c].state # "succeeded"
       /\ rep' = [rep EXCEPT ![c] = Answered(c)]
       /\ UNCHANGED <<rows, tasks, agent, site, budget>>
    \/ rep[c].state = "succeeded" /\ ReadRow(c)
    \/ /\ rep[c].phase = "read"
       /\ \E s \in Rules!Printed(rep[c].task) :
            row' = [row EXCEPT ![task[rep[c].task].id] = Rules!Merged(rep[c].row, s)]
       /\ rep' = [rep EXCEPT ![c] = Answered(c)]
       /\ UNCHANGED <<req, tasks, agent, site, budget>>

LEMMA RuleReports ==
    ASSUME NEW c \in Conns, Rules!HandleReport(c)
    PROVE  RuleReport(c)
<1> USE DEF Rules!rows, rows, Rules!tasks, tasks, Rules!agent, agent, Rules!site, site,
            Rules!budget, budget, Rules!Answered, Answered, Rules!Quiet, Quiet,
            Rules!NoRow, NoRow, Rules!NoTask, NoTask
<1>1. Rules!ReportWrite(c) => ReportWrite(c)
  BY DEF Rules!ReportWrite, ReportWrite
<1>2. Rules!ReadRow(c) => ReadRow(c)
  BY DEF Rules!ReadRow, ReadRow
<1> QED BY <1>1, <1>2 DEF Rules!HandleReport, Rules!IgnoreReport, Rules!ReadRule, Rules!ApplyReport, RuleReport

LEMMA RuleSteps ==
    ASSUME [Rules!Next]_Rules!vars
    PROVE  \/ \E h \in Requests, n \in RowIds :
                \/ \E p \in Ports : CreateRow(h, n, p) \/ UpdateRow(h, n, p)
                \/ DeleteRow(h, n) \/ RestartRow(h, n)
           \/ \E h \in Requests : HandleRequest(h)
           \/ \E c \in Conns : RuleReport(c)
           \/ AgentStep \/ Fault \/ UNCHANGED vars
<1>1. CASE UNCHANGED Rules!vars
  BY <1>1 DEF Rules!vars, vars, Rules!rows, rows, Rules!tasks, tasks, Rules!agent, agent,
              Rules!site, site, Rules!budget, budget
<1>2. CASE Rules!Next
  BY <1>2, RuleConsole, RuleRequest, RuleReports, RuleOthers DEF Rules!Next
<1> QED BY <1>1, <1>2

(* Only a task that succeeded makes the service read a rule.               *)
RulesInv == FoundedInv /\ \A c \in Conns : rep[c].phase = "read" => rep[c].state = "succeeded"

(* The task that succeeded is the evidence for what it makes the rule say. *)
LEMMA RuleMergedIsFounded ==
    ASSUME RulesInv, NEW c \in Conns, rep[c].phase = "read",
           NEW s \in Rules!Printed(rep[c].task), NEW r, r = Rules!Merged(rep[c].row, s)
    PROVE  r \in RowRecords /\ r.port \in Ports /\ Founded(task[rep[c].task].id, r)
<1> USE DEF RulesInv, FoundedInv
<1> DEFINE t == rep[c].task
           old == rep[c].row
<1>1. Claimed(t) /\ t \in TaskIds /\ task[t].action \in {"present", "absent", "restarted"}
  BY ClaimedRow DEF DeploymentInv, ReportInv, TypeOK, Entries
<1>2. old \in RowRecords /\ old.port \in Ports
  BY DEF DeploymentInv, ReportInv, TypeOK, ReportRecords
<1>3. Ended(task[t].id, {task[t].action}, "succeeded")
  BY <1>1 DEF Ended, TasksOf, DeploymentInv, ReportInv, Final
<1>4. /\ r \in RowRecords /\ r.port = old.port /\ r.state = s /\ r.live = (s # "deleted")
      /\ s \in {"deleted", "active", "inactive"}
  BY <1>2 DEF Rules!Merged, RowRecords, RowStates, Rules!Printed
<1>5. CASE task[t].action = "absent"
  BY <1>2, <1>3, <1>4, <1>5 DEF Founded, Rules!Printed
<1>6. CASE task[t].action # "absent"
  <2>1. Ended(task[t].id, {"present", "restarted"}, "succeeded")
    BY <1>1, <1>3, <1>6 DEF Ended
  <2> QED BY <1>2, <1>4, <1>6, <2>1 DEF Founded, Rules!Printed
<1> QED BY <1>5, <1>6

LEMMA ReportRules ==
    ASSUME RulesInv, NEW c \in Conns, RuleReport(c)
    PROVE  RulesInv'
<1> USE DEF RulesInv
<1>1. rep[c].phase \in {"sent", "written", "read"} => Claimed(rep[c].task)
  BY DEF FoundedInv, DeploymentInv, ReportInv
<1>2. CASE ReportWrite(c)
  <2>1. \A d \in Conns : rep'[d] = rep[d] \/ rep'[d].phase # "read"
    BY <1>2 DEF ReportWrite, FoundedInv, DeploymentInv, TypeOK, ReportRecords
  <2> QED BY <1>2, <2>1, ReportWriteFounded
<1>3. CASE /\ rep[c].phase = "written" /\ rep[c].state # "succeeded"
           /\ rep' = [rep EXCEPT ![c] = Answered(c)]
           /\ UNCHANGED <<rows, tasks, agent, site, budget>>
  <2>1. PICK r : r \in RowRecords /\ r.port \in Ports
    BY <1>1, <1>3, ClaimedRow DEF FoundedInv
  <2>2. FoundedInv'
    BY <1>1, <1>3, <2>1, AnsweredFounded DEF rows
  <2>3. \A d \in Conns : rep'[d] = rep[d] \/ rep'[d].phase # "read"
    BY <1>3 DEF Answered, Quiet, FoundedInv, DeploymentInv, TypeOK
  <2> QED BY <2>2, <2>3
<1>4. CASE rep[c].state = "succeeded" /\ ReadRow(c)
  <2>1. \A d \in Conns : rep'[d] = rep[d] \/ rep'[d].state = "succeeded"
    BY <1>4 DEF ReadRow, FoundedInv, DeploymentInv, TypeOK, ReportRecords
  <2> QED BY <1>4, <2>1, ReadRowFounded
<1>5. ASSUME NEW s \in Rules!Printed(rep[c].task), NEW r, r = Rules!Merged(rep[c].row, s),
             rep[c].phase = "read", row' = [row EXCEPT ![task[rep[c].task].id] = r],
             rep' = [rep EXCEPT ![c] = Answered(c)],
             UNCHANGED <<req, tasks, agent, site, budget>>
      PROVE  RulesInv'
  <2>1. r \in RowRecords /\ r.port \in Ports /\ Founded(task[rep[c].task].id, r)
    BY <1>5, RuleMergedIsFounded
  <2>2. FoundedInv'
    BY <1>1, <1>5, <2>1, AnsweredFounded
  <2>3. \A d \in Conns : rep'[d] = rep[d] \/ rep'[d].phase # "read"
    BY <1>5 DEF Answered, Quiet, FoundedInv, DeploymentInv, TypeOK
  <2> QED BY <2>2, <2>3
<1> QED BY <1>2, <1>3, <1>4, <1>5 DEF RuleReport

LEMMA NextRules ==
    ASSUME RulesInv, [Rules!Next]_Rules!vars
    PROVE  RulesInv'
<1> USE DEF RulesInv
<1>1. ASSUME NEW h \in Requests, NEW n \in RowIds,
             \/ \E p \in Ports : CreateRow(h, n, p) \/ UpdateRow(h, n, p)
             \/ DeleteRow(h, n) \/ RestartRow(h, n)
      PROVE  RulesInv'
  <2>1. FoundedInv'
    BY <1>1, CreateRowFounded, UpdateRowFounded, DeleteRowFounded, RestartRowFounded
  <2>2. UNCHANGED rep
    BY <1>1 DEF CreateRow, UpdateRow, DeleteRow, RestartRow
  <2> QED BY <2>1, <2>2
<1>2. CASE \E h \in Requests : HandleRequest(h)
  <2>1. FoundedInv'
    BY <1>2, HandlerFounded
  <2> QED BY <1>2, <2>1 DEF HandleRequest, WriteRow, CreateTask
<1>3. CASE \E c \in Conns : RuleReport(c)
  BY <1>3, ReportRules
<1>4. CASE AgentStep \/ Fault \/ UNCHANGED vars
  <2>1. FoundedInv'
    BY <1>4, OthersFounded
  <2>2. \A c \in Conns : rep'[c] = rep[c] \/ rep'[c].phase # "read"
    BY <1>4, OthersReadNothing
  <2> QED BY <2>1, <2>2
<1> QED BY <1>1, <1>2, <1>3, <1>4, RuleSteps

(* RulesInv is an inductive invariant of the service.                      *)
THEOREM RulesInvariant == Rules!Safe => []RulesInv
<1>1. Rules!Init => RulesInv
  BY RuleInit, InitFounded DEF RulesInv, Init, Quiet
<1>2. RulesInv /\ [Rules!Next]_Rules!vars => RulesInv'
  BY NextRules
<1> QED BY <1>1, <1>2, PTL DEF Rules!Safe

(* A rule is shown as active or inactive only after a script deployed or   *)
(* restarted it, and leaves the list only after a script removed it,       *)
(* whatever overlaps, is lost, late or repeated, or crashes.               *)
THEOREM RulesAreFounded == Rules!Safe => []RowIsFounded
<1>1. RulesInv => RowIsFounded
  BY DEF RulesInv, FoundedInv
<1> QED BY <1>1, RulesInvariant, PTL

-----------------------------------------------------------------------------
(* How rows settle.  Told by the report of its last task, a row keeps what *)
(* that report made of it (ToldInv); SharedInv says why no other report    *)
(* and no request comes between.                                           *)

SettledInv == DeploymentInv /\ SharedInv /\ ToldInv

(* What an answered report may have made of a row of its task.             *)
LEMMA MergedTells ==
    ASSUME DeploymentInv, SharedInv, Undisturbed, NEW c \in Conns, rep[c].phase = "read",
           rep[c].state \in Final, NEW t, t = rep[c].task, outcome[t] = rep[c].state,
           NEW r, r = Merged(rep[c].row, t, rep[c].state)
    PROVE  /\ r.state = StateAfter(t)
           /\ outcome[t] = "succeeded" => /\ r.port = task[t].port
                                          /\ r.live <=> task[t].action # "absent"
<1>1. rep[c].row \in RowRecords
  BY DEF DeploymentInv, TypeOK, ReportRecords
<1>2. CASE outcome[t] = "succeeded"
  BY <1>2 DEF Merged, StateAfter
<1>3. CASE outcome[t] # "succeeded"
  BY <1>1, <1>3 DEF Merged, StateAfter, RowRecords
<1> QED BY <1>2, <1>3

LEMMA ApplyReportStep ==
    ASSUME DeploymentInv, NEW c \in Conns, ApplyReport(c)
    PROVE  \E r \in RowRecords :
             /\ r = Merged(rep[c].row, rep[c].task, rep[c].state)
             /\ row' = [row EXCEPT ![task[rep[c].task].id] = r]
             /\ task[rep[c].task].id \in RowIds
             /\ rep[c].phase = "read"
             /\ Answer(c) /\ DeploymentInv' /\ Keeps
<1>1. PICK r : r = Merged(rep[c].row, rep[c].task, rep[c].state)
  OBVIOUS
<1>2. /\ rep[c].phase = "read" /\ row' = [row EXCEPT ![task[rep[c].task].id] = r]
      /\ rep' = [rep EXCEPT ![c] = Answered(c)]
      /\ UNCHANGED <<req, tasks, agent, site, budget>>
  BY <1>1 DEF ApplyReport
<1>3. /\ Claimed(rep[c].task) /\ rep[c].row \in RowRecords /\ rep[c].row.port \in Ports
      /\ task[rep[c].task].port \in Ports /\ task[rep[c].task].id \in RowIds
  BY <1>2, ClaimedRow DEF DeploymentInv, ReportInv, TypeOK, ReportRecords
<1>4. r \in RowRecords /\ r.port \in Ports
  <2>1. CASE rep[c].state = "succeeded"
    BY <2>1, <1>1, <1>3 DEF Merged, RowRecords, RowStates
  <2>2. CASE rep[c].state # "succeeded"
    BY <2>2, <1>1, <1>3 DEF Merged, RowRecords, RowStates
  <2> QED BY <2>1, <2>2
<1>5. DeploymentInv' /\ Keeps
  BY <1>2, <1>3, <1>4, AnsweredInv
<1>6. Answer(c)
  BY <1>2, <1>3, <1>4 DEF Answer, DeploymentInv, TypeOK
<1> QED BY <1>1, <1>2, <1>3, <1>4, <1>5, <1>6

LEMMA NodeToldKept ==
    ASSUME SettledInv, NEW n \in RowIds, NEW t \in TaskIds, Left(n, t)
    PROVE  /\ row'[n].state = StateAfter(t)'
           /\ outcome'[t] = "succeeded" => /\ row'[n].port = task'[t].port
                                           /\ row'[n].live <=> task'[t].action # "absent"
<1>1. /\ row[n].state = StateAfter(t)
      /\ outcome[t] = "succeeded" => /\ row[n].port = task[t].port
                                     /\ row[n].live <=> task[t].action # "absent"
  BY DEF SettledInv, ToldInv, Left
<1> QED BY <1>1 DEF Left, StateAfter

LEMMA NextSettled ==
    ASSUME SettledInv, [Next]_vars
    PROVE  SettledInv'
<1> USE DEF SettledInv
<1>1. CASE SharedStep
  BY <1>1, SharedSteps, NodeToldKept DEF LeavesRest, ToldInv
<1>2. ASSUME NEW c \in Conns, ApplyReport(c)
      PROVE  SettledInv'
  <2>1. PICK r \in RowRecords :
             /\ r = Merged(rep[c].row, rep[c].task, rep[c].state)
             /\ row' = [row EXCEPT ![task[rep[c].task].id] = r]
             /\ task[rep[c].task].id \in RowIds
             /\ rep[c].phase = "read"
             /\ Answer(c) /\ DeploymentInv' /\ Keeps
    BY <1>2, ApplyReportStep
  <2>2. SharedInv'
    BY <2>1, AnswerShared
  <2>3. ASSUME NEW n \in RowIds, NEW t \in TaskIds, Undisturbed', AtRest(n, t)'
        PROVE  /\ row'[n].state = StateAfter(t)'
               /\ outcome'[t] = "succeeded" => /\ row'[n].port = task'[t].port
                                               /\ row'[n].live <=> task'[t].action # "absent"
    <3>1. CASE Left(n, t)
      BY <3>1, NodeToldKept
    <3>2. CASE /\ t = rep[c].task /\ n = task[t].id /\ Undisturbed
               /\ rep[c].state \in Final /\ outcome[t] = rep[c].state
      <4>1. /\ r.state = StateAfter(t)
            /\ outcome[t] = "succeeded" => /\ r.port = task[t].port
                                           /\ r.live <=> task[t].action # "absent"
        BY <3>2, <2>1, MergedTells
      <4>2. row'[n] = r /\ task' = task /\ outcome' = outcome
        BY <3>2, <2>1 DEF Answer, tasks, site, DeploymentInv, TypeOK
      <4> QED BY <4>1, <4>2 DEF StateAfter
    <3> QED BY <3>1, <3>2, <2>1, <2>3, AnswerShared
  <2> QED BY <2>1, <2>2, <2>3 DEF ToldInv
<1>3. CASE Next
  <2>1. Console => ConsoleStep
    BY DEF Console, ConsoleStep, CreateNode, UpdateNode, DeleteNode, RestartNode
  <2> QED BY <1>1, <1>2, <1>3, <2>1 DEF Next, HandleReport, SharedStep
<1>4. CASE UNCHANGED vars
  BY <1>1, <1>4 DEF SharedStep
<1> QED BY <1>3, <1>4

(* SettledInv is an inductive invariant of the service.                    *)
THEOREM NodesSettledInvariant == Safe => []SettledInv
<1>1. Init => SettledInv
  <2>1. Init => ToldInv
    BY DEF Init, ToldInv, AtRest
  <2> QED BY <2>1, InitDeployment, InitShared DEF SettledInv
<1>2. SettledInv /\ [Next]_vars => SettledInv'
  BY NextSettled
<1> QED BY <1>1, <1>2, PTL DEF Safe

(* As long as nothing was lost and nothing restarted, a node that nothing  *)
(* is under way for reads as its last task ended: state, port and status   *)
(* of the row, and the files of the service on the server; for any number  *)
(* of nodes, overlapping requests and tasks.                               *)
THEOREM NodesSettle == Safe => []NodeIsSettled
<1>1. ASSUME SettledInv, Undisturbed, NEW n \in RowIds, ~Busy(n), row[n] # NoRow
      PROVE  \E t \in TaskIds :
               /\ Newest(n, t)
               /\ row[n].state = StateAfter(t)
               /\ outcome[t] = "succeeded" =>
                      /\ row[n].port = task[t].port
                      /\ row[n].live <=> task[t].action # "absent"
               /\ row[n].state = "active"  => config[n] = row[n].port
               /\ row[n].state = "deleted" => config[n] = NoPort
  <2> USE <1>1 DEF SettledInv
  <2>1. PICK t \in TaskIds : /\ AtRest(n, t) /\ Newest(n, t)
                             /\ outcome[t] = task[t].state /\ outcome[t] \in Final
                             /\ task[t].action \in {"present", "absent"}
    BY QuietRow
  <2>2. /\ row[n].state = StateAfter(t)
        /\ outcome[t] = "succeeded" => /\ row[n].port = task[t].port
                                       /\ row[n].live <=> task[t].action # "absent"
    BY <2>1 DEF ToldInv
  <2>3. outcome[t] = "succeeded" =>
          /\ task[t].action = "present" => config[n] = task[t].port
          /\ task[t].action = "absent"  => config[n] = NoPort
    BY <2>1 DEF SharedInv, FilesInv, Newest
  <2>4. /\ row[n].state = "active"  => outcome[t] = "succeeded" /\ task[t].action = "present"
        /\ row[n].state = "deleted" => outcome[t] = "succeeded" /\ task[t].action = "absent"
    BY <2>1, <2>2 DEF StateAfter
  <2> QED BY <2>1, <2>2, <2>3, <2>4
<1>2. SettledInv => RowIsSettled
  BY <1>1 DEF RowIsSettled
<1>3. SettledInv => RowMatchesServer
  BY <1>1 DEF RowMatchesServer, NoRow
<1> QED BY <1>2, <1>3, NodesSettledInvariant, PTL DEF NodeIsSettled

(* A rule at rest has been told of its last task.                          *)
RuleTold ==
    Undisturbed =>
        \A n \in RowIds, t \in TaskIds : AtRest(n, t) /\ outcome[t] = "succeeded" =>
            /\ row[n].state \in Rules!Printed(t)
            /\ row[n].live <=> task[t].action # "absent"

RulesSettledInv == DeploymentInv /\ SharedInv /\ RuleTold

LEMMA RuleAnswers ==
    ASSUME DeploymentInv, NEW c \in Conns, RuleReport(c)
    PROVE  \/ ReportWrite(c) \/ ReadRow(c)
           \/ /\ rep[c].state # "succeeded"
              /\ Answer(c) /\ DeploymentInv' /\ Keeps
           \/ /\ \E s \in Rules!Printed(rep[c].task), r \in RowRecords :
                   /\ r.state = s /\ r.live = (s # "deleted")
                   /\ row' = [row EXCEPT ![task[rep[c].task].id] = r]
              /\ task[rep[c].task].id \in RowIds
              /\ Answer(c) /\ DeploymentInv' /\ Keeps
<1>1. CASE /\ rep[c].phase = "written" /\ rep[c].state # "succeeded"
           /\ rep' = [rep EXCEPT ![c] = Answered(c)]
           /\ UNCHANGED <<rows, tasks, agent, site, budget>>
  <2>1. Claimed(rep[c].task)
    BY <1>1 DEF DeploymentInv, ReportInv
  <2>2. PICK r \in RowRecords : r.port \in Ports
    BY <2>1, ClaimedRow
  <2>3. DeploymentInv' /\ Keeps
    BY <1>1, <2>1, <2>2, AnsweredInv DEF rows
  <2>4. Answer(c)
    BY <1>1 DEF Answer, rows, DeploymentInv, TypeOK
  <2> QED BY <1>1, <2>3, <2>4
<1>2. ASSUME NEW s \in Rules!Printed(rep[c].task),
             rep[c].phase = "read",
             row' = [row EXCEPT ![task[rep[c].task].id] = Rules!Merged(rep[c].row, s)],
             rep' = [rep EXCEPT ![c] = Answered(c)],
             UNCHANGED <<req, tasks, agent, site, budget>>
      PROVE  /\ \E r \in RowRecords :
                   /\ r.state = s /\ r.live = (s # "deleted")
                   /\ row' = [row EXCEPT ![task[rep[c].task].id] = r]
             /\ task[rep[c].task].id \in RowIds
             /\ Answer(c) /\ DeploymentInv' /\ Keeps
  <2>1. PICK r : r = Rules!Merged(rep[c].row, s)
    OBVIOUS
  <2>2. /\ Claimed(rep[c].task) /\ rep[c].row \in RowRecords /\ rep[c].row.port \in Ports
        /\ task[rep[c].task].id \in RowIds
    BY <1>2, ClaimedRow DEF DeploymentInv, ReportInv, TypeOK, ReportRecords
  <2>3. s \in {"deleted", "active", "inactive"}
    BY <1>2 DEF Rules!Printed
  <2>4. r \in RowRecords /\ r.port \in Ports /\ r.state = s /\ r.live = (s # "deleted")
    BY <2>1, <2>2, <2>3 DEF Rules!Merged, RowRecords, RowStates
  <2>5. row' = [row EXCEPT ![task[rep[c].task].id] = r]
    BY <1>2, <2>1
  <2>6. DeploymentInv' /\ Keeps
    BY <1>2, <2>2, <2>4, <2>5, AnsweredInv
  <2>7. Answer(c)
    BY <1>2, <2>2, <2>4, <2>5 DEF Answer, DeploymentInv, TypeOK
  <2> QED BY <2>2, <2>4, <2>5, <2>6, <2>7
<1> QED BY <1>1, <1>2 DEF RuleReport

LEMMA RuleToldKept ==
    ASSUME RulesSettledInv, NEW n \in RowIds, NEW t \in TaskIds, Left(n, t), outcome'[t] = "succeeded"
    PROVE  /\ row'[n].state \in Rules!Printed(t)'
           /\ row'[n].live <=> task'[t].action # "absent"
<1>1. /\ row[n].state \in Rules!Printed(t)
      /\ row[n].live <=> task[t].action # "absent"
  BY DEF RulesSettledInv, RuleTold, Left
<1> QED BY <1>1 DEF Left, Rules!Printed

LEMMA NextRulesSettled ==
    ASSUME RulesSettledInv, [Rules!Next]_Rules!vars
    PROVE  RulesSettledInv'
<1> USE DEF RulesSettledInv
<1>1. CASE SharedStep
  BY <1>1, SharedSteps, RuleToldKept DEF LeavesRest, RuleTold
<1>2. ASSUME NEW c \in Conns, Answer(c), DeploymentInv', Keeps, rep[c].state # "succeeded"
      PROVE  RulesSettledInv'
  <2>1. SharedInv'
    BY <1>2, AnswerShared
  <2>2. ASSUME NEW n \in RowIds, NEW t \in TaskIds, Undisturbed', AtRest(n, t)', outcome'[t] = "succeeded"
        PROVE  Left(n, t)
    <3>1. outcome[t] = "succeeded"
      BY <1>2, <2>2 DEF Answer, site
    <3> QED BY <1>2, <2>2, <3>1, AnswerShared
  <2> QED BY <1>2, <2>1, <2>2, RuleToldKept DEF RuleTold
<1>3. ASSUME NEW c \in Conns, Answer(c), DeploymentInv', Keeps,
             NEW s \in Rules!Printed(rep[c].task), NEW r \in RowRecords,
             r.state = s, r.live = (s # "deleted"), task[rep[c].task].id \in RowIds,
             row' = [row EXCEPT ![task[rep[c].task].id] = r]
      PROVE  RulesSettledInv'
  <2>1. SharedInv'
    BY <1>3, AnswerShared
  <2>2. ASSUME NEW n \in RowIds, NEW t \in TaskIds, Undisturbed', AtRest(n, t)', outcome'[t] = "succeeded"
        PROVE  /\ row'[n].state \in Rules!Printed(t)'
               /\ row'[n].live <=> task'[t].action # "absent"
    <3>1. CASE Left(n, t)
      BY <3>1, <2>2, RuleToldKept
    <3>2. CASE t = rep[c].task /\ n = task[t].id
      <4>1. row'[n] = r /\ task' = task
        BY <3>2, <1>3 DEF Answer, tasks, DeploymentInv, TypeOK
      <4>2. Rules!Printed(t)' = Rules!Printed(t)
        BY <4>1 DEF Rules!Printed
      <4> QED BY <4>1, <4>2, <3>2, <1>3 DEF Rules!Printed
    <3> QED BY <3>1, <3>2, <1>3, <2>2, AnswerShared
  <2> QED BY <1>3, <2>1, <2>2 DEF RuleTold
<1>4. ASSUME NEW c \in Conns, RuleReport(c)
      PROVE  RulesSettledInv'
  BY <1>1, <1>2, <1>3, <1>4, RuleAnswers DEF SharedStep
<1>5. SharedStep \/ \E c \in Conns : RuleReport(c)
  BY RuleSteps DEF SharedStep, ConsoleStep
<1> QED BY <1>1, <1>4, <1>5

(* RulesSettledInv is an inductive invariant of the service.               *)
THEOREM RulesSettledInvariant == Rules!Safe => []RulesSettledInv
<1>1. Rules!Init => RulesSettledInv
  <2>1. Init => RuleTold
    BY DEF Init, RuleTold, AtRest
  <2> QED BY <2>1, RuleInit, InitDeployment, InitShared DEF RulesSettledInv
<1>2. RulesSettledInv /\ [Rules!Next]_Rules!vars => RulesSettledInv'
  BY NextRulesSettled
<1> QED BY <1>1, <1>2, PTL DEF Rules!Safe

(* As long as nothing was lost and nothing restarted, a rule that nothing  *)
(* is under way for and whose last task went through says so, for any      *)
(* number of rules, overlapping requests and tasks.                        *)
THEOREM RulesSettle == Rules!Safe => []SuccessIsShown
<1>1. ASSUME RulesSettledInv, Undisturbed, NEW n \in RowIds, NEW t \in TaskIds,
             row[n] # NoRow, ~Busy(n), Newest(n, t), outcome[t] = "succeeded"
      PROVE  /\ row[n].state \in Rules!Printed(t)
             /\ row[n].live <=> task[t].action # "absent"
  <2>1. PICK u \in TaskIds : AtRest(n, u) /\ Newest(n, u)
    BY <1>1, QuietRow DEF RulesSettledInv
  <2>2. u = t
    BY <1>1, <2>1 DEF Newest, TasksOf, TaskIds
  <2> QED BY <1>1, <2>1, <2>2 DEF RulesSettledInv, RuleTold
<1>2. RulesSettledInv => SuccessIsShown
  BY <1>1 DEF SuccessIsShown, Rules!Printed
<1> QED BY <1>2, RulesSettledInvariant, PTL

(* A node says so, too.                                                    *)
THEOREM NodesShow == Safe => []SuccessIsShown
<1>1. ASSUME RowIsSettled, DeploymentInv, Undisturbed, NEW n \in RowIds, NEW t \in TaskIds,
             row[n] # NoRow, ~Busy(n), Newest(n, t), outcome[t] = "succeeded"
      PROVE  /\ row[n].state = StateAfter(t)
             /\ row[n].live <=> task[t].action # "absent"
  <2>1. PICK u \in TaskIds : /\ Newest(n, u)
                             /\ row[n].state = StateAfter(u)
                             /\ outcome[u] = "succeeded" =>
                                   row[n].live <=> task[u].action # "absent"
    BY <1>1 DEF RowIsSettled
  <2>2. u = t
    BY <1>1, <2>1 DEF Newest, TasksOf, TaskIds
  <2> QED BY <1>1, <2>1, <2>2
<1>2. RowIsSettled /\ DeploymentInv => SuccessIsShown
  BY <1>1 DEF SuccessIsShown, StateAfter
<1>3. NodeIsSettled => RowIsSettled
  BY DEF NodeIsSettled
<1>4. SettledInv => DeploymentInv
  BY DEF SettledInv
<1> QED BY <1>2, <1>3, <1>4, NodesSettle, NodesSettledInvariant, PTL

-----------------------------------------------------------------------------
(* Both services implement TaskDispatch, as the engine does.  What the      *)
(* refinement mapping of ProtocolNodes makes of the variables:              *)

HomeOf  == [t \in TaskIds |-> IF t <= lastTask THEN "server" ELSE "none"]
Pending == {t \in TaskIds : task[t].state = "generated"}
Out     == {t \in TaskIds : task[t].state \notin {"absent", "generated"}}
Runs    == [t \in TaskIds |-> IF outcome[t] = "none" THEN 0 ELSE 1]
LastRun == CHOOSE t \in 0..MaxTasks :
              /\ t > 0 => outcome[t] # "none"
              /\ \A u \in TaskIds : outcome[u] # "none" => u <= t

IsLastRun(l) ==
    /\ l \in 0..MaxTasks
    /\ l > 0 => outcome[l] # "none"
    /\ \A u \in TaskIds : outcome[u] # "none" => u <= l

(* There is a task that ran last, if any did.                               *)
DispatchInv == DeploymentInv /\ QueueInv /\ \E l \in 0..MaxTasks : IsLastRun(l)

LEMMA LastRunIs ==
    ASSUME NEW o, NEW l \in 0..MaxTasks, l > 0 => o[l] # "none",
           \A u \in TaskIds : o[u] # "none" => u <= l
    PROVE  (CHOOSE t \in 0..MaxTasks :
              /\ t > 0 => o[t] # "none"
              /\ \A u \in TaskIds : o[u] # "none" => u <= t) = l
<1> DEFINE P(m) == (m > 0 => o[m] # "none") /\ \A u \in TaskIds : o[u] # "none" => u <= m
<1>1. ASSUME NEW m \in 0..MaxTasks, P(m) PROVE m = l
  <2>1. l \in Nat /\ m \in Nat /\ (l > 0 => l \in TaskIds) /\ (m > 0 => m \in TaskIds)
    BY DeploymentAssumption DEF TaskIds
  <2> QED BY <1>1, <2>1
<1>2. P(l)
  OBVIOUS
<1> HIDE DEF P
<1>3. (CHOOSE m \in 0..MaxTasks : P(m)) = l
  BY <1>1, <1>2
<1> QED BY <1>3 DEF P

LEMMA SameDispatch ==
    ASSUME UNCHANGED <<lastTask, Pending, Out, outcome>>
    PROVE  UNCHANGED Dispatch!vars
  BY DEF Dispatch!vars, Pending, Out

LEMMA CreateDispatches ==
    ASSUME DispatchInv, NEW h \in Requests, CreateTask(h)
    PROVE  Dispatch!Next
<1> USE DEF DispatchInv, site
<1>1. PICK new, e : /\ new = lastTask + 1
                    /\ e = [state |-> "generated", id |-> req[h].id,
                            action |-> Action(req[h].op), port |-> req[h].row.port]
  OBVIOUS
<1>2. /\ lastTask < MaxTasks /\ lastTask' = new /\ UNCHANGED outcome
      /\ task' = [task EXCEPT ![new] = e]
  BY <1>1 DEF CreateTask
<1>3. new \in TaskIds /\ lastTask \in Nat
  BY <1>1, <1>2, DeploymentAssumption DEF DeploymentInv, TypeOK, TaskIds
<1>4. /\ task[new] = NoEntry /\ task'[new] = e
      /\ \A t \in TaskIds : t # new => task'[t] = task[t]
  BY <1>1, <1>2, <1>3 DEF DeploymentInv, TableInv, TypeOK
<1>5. HomeOf' = [HomeOf EXCEPT ![new] = "server"]
  <2>1. \A t \in TaskIds : t <= new <=> t <= lastTask \/ t = new
    BY <1>1, <1>3 DEF TaskIds
  <2> QED BY <1>2, <2>1 DEF HomeOf
<1>6. Pending' = Pending \cup {new} /\ Out' = Out
  <2>1. task[new].state = "absent" /\ task'[new].state = "generated"
    BY <1>1, <1>4 DEF NoEntry
  <2> QED BY <2>1, <1>3, <1>4 DEF Pending, Out
<1>7. Dispatch!Submit("server")
  BY <1>1, <1>2, <1>5, <1>6 DEF Dispatch!Submit, HomeOf, Pending, Out
<1> QED BY <1>7 DEF Dispatch!Next

LEMMA ClaimDispatches ==
    ASSUME DispatchInv, Claim
    PROVE  Dispatch!Next
<1> USE DEF DispatchInv, site
<1>1. PICK t \in TaskIds : NextTask(t) /\ task' = [task EXCEPT ![t].state = "claimed"]
  BY DEF Claim
<1>2. UNCHANGED <<lastTask, outcome>>
  BY DEF Claim
<1>3. /\ task[t].state = "generated" /\ task'[t].state = "claimed"
      /\ \A u \in TaskIds : u # t => task'[u] = task[u]
  BY <1>1 DEF NextTask, DeploymentInv, TypeOK, Entries
<1>4. Pending' = Pending \ {t} /\ Out' = Out \cup {t} /\ t \in Pending
  BY <1>3 DEF Pending, Out
<1>5. t <= lastTask /\ \A u \in Pending : t <= u
  BY <1>1, <1>3 DEF NextTask, Pending, DeploymentInv, TableInv, NoEntry
<1>6. t \in Dispatch!QueueOf("server") /\ \A u \in Dispatch!QueueOf("server") : t <= u
  BY <1>4, <1>5 DEF Dispatch!QueueOf, Pending
<1>7. Dispatch!Dispatch("server")
  BY <1>2, <1>4, <1>6 DEF Dispatch!Dispatch, Pending, Out
<1> QED BY <1>7 DEF Dispatch!Next

(* A script that ended, or was killed, was started.                        *)
LEMMA ScriptDispatches ==
    ASSUME DispatchInv, pc = "executing", UNCHANGED <<lastTask, task>>,
           NEW o \in {"killed"} \cup Final, outcome' = [outcome EXCEPT ![held] = o]
    PROVE  Dispatch!Next /\ \E l \in 0..MaxTasks : IsLastRun(l)'
<1> USE DEF DispatchInv
<1>1. PICK l, t : l \in 0..MaxTasks /\ IsLastRun(l) /\ t = held
  OBVIOUS
<1>2. /\ t \in TaskIds /\ Claimed(t) /\ outcome[t] = "none" /\ t <= lastTask
      /\ \A u \in TaskIds : Claimed(u) => u <= t
  BY <1>1 DEF DeploymentInv, LoopInv, QueueInv, Claimed, TableInv, NoEntry
<1>3. outcome'[t] = o /\ o # "none" /\ \A u \in TaskIds : u # t => outcome'[u] = outcome[u]
  BY <1>1, <1>2 DEF DeploymentInv, TypeOK, Final
<1>4. \A u \in TaskIds : outcome[u] # "none" => Claimed(u)
  BY DEF DeploymentInv, TableInv, Claimed, NoEntry
<1>5. l < t
  <2>1. l > 0 => l \in TaskIds /\ l <= t /\ l # t
    BY <1>1, <1>2, <1>4, DeploymentAssumption DEF IsLastRun, TaskIds
  <2> QED BY <1>1, <1>2, <2>1, DeploymentAssumption DEF TaskIds
<1>6. IsLastRun(t)'
  <2>1. t \in 0..MaxTasks
    BY <1>2, DeploymentAssumption DEF TaskIds
  <2>2. \A u \in TaskIds : outcome'[u] # "none" => u <= t
    BY <1>2, <1>3, <1>4 DEF TaskIds
  <2> QED BY <2>1, <2>2, <1>3 DEF IsLastRun
<1>7. LastRun = l /\ LastRun' = t
  BY <1>1, <1>6, LastRunIs DEF LastRun, IsLastRun
<1>8. Runs' = [Runs EXCEPT ![t] = 1]
  BY <1>2, <1>3 DEF Runs
<1>9. Dispatch!Start("agent", t)
  <2>1. /\ t \in Out /\ HomeOf[t] = "server" /\ Runs[t] = 0
        /\ UNCHANGED <<HomeOf, Pending, Out, lastTask>>
    BY <1>2 DEF Out, HomeOf, Runs, Pending, Claimed
  <2>2. /\ [a \in {"agent"} |-> LastRun]["agent"] < t
        /\ [a \in {"agent"} |-> LastRun'] = [[a \in {"agent"} |-> LastRun] EXCEPT !["agent"] = t]
    BY <1>5, <1>7
  <2> QED BY <2>1, <2>2, <1>8 DEF Dispatch!Start, Out, HomeOf, Runs, Pending, LastRun
<1>10. Dispatch!Next
  BY <1>2, <1>9 DEF Dispatch!Next, Dispatch!Ids, TaskIds
<1> QED BY <1>6, <1>10 DEF IsLastRun

LEMMA QuietDispatch ==
    ASSUME DispatchInv, UNCHANGED <<lastTask, outcome, Pending, Out>>
    PROVE  UNCHANGED Dispatch!vars /\ \E l \in 0..MaxTasks : IsLastRun(l)'
  BY SameDispatch DEF DispatchInv, IsLastRun

LEMMA StepDispatches ==
    ASSUME DispatchInv, SharedStep \/ UNCHANGED <<tasks, site>>
    PROVE  [Dispatch!Next]_Dispatch!vars /\ \E l \in 0..MaxTasks : IsLastRun(l)'
<1>1. CASE UNCHANGED <<lastTask, task, outcome>>
  BY <1>1, QuietDispatch DEF Pending, Out
<1>2. ASSUME NEW h \in Requests, CreateTask(h)
      PROVE  Dispatch!Next /\ \E l \in 0..MaxTasks : IsLastRun(l)'
  BY <1>2, CreateDispatches DEF CreateTask, site, DispatchInv, IsLastRun
<1>3. CASE Claim
  BY <1>3, ClaimDispatches DEF Claim, site, DispatchInv, IsLastRun
<1>4. ASSUME NEW o \in {"killed"} \cup Final, outcome' = [outcome EXCEPT ![held] = o],
             pc = "executing", UNCHANGED <<lastTask, task>>
      PROVE  [Dispatch!Next]_Dispatch!vars /\ \E l \in 0..MaxTasks : IsLastRun(l)'
  BY <1>4, ScriptDispatches
<1>5. CASE RunScript
  <2>1. PICK o \in Final : outcome' = [outcome EXCEPT ![held] = o]
    BY <1>5 DEF RunScript, Final
  <2> QED BY <1>4, <1>5, <2>1 DEF RunScript, tasks
<1>6. CASE AgentCrash
  <2>1. CASE pc = "executing"
    <3>1. PICK o : o = "killed"
      OBVIOUS
    <3>2. outcome' = [outcome EXCEPT ![held] = o] /\ UNCHANGED <<lastTask, task>>
      BY <1>6, <2>1, <3>1 DEF AgentCrash, tasks
    <3> QED BY <1>4, <2>1, <3>1, <3>2
  <2>2. CASE pc # "executing"
    BY <1>1, <1>6, <2>2 DEF AgentCrash, tasks, site
  <2> QED BY <2>1, <2>2
<1>7. ASSUME NEW c \in Conns, ReportWrite(c)
      PROVE  UNCHANGED Dispatch!vars /\ \E l \in 0..MaxTasks : IsLastRun(l)'
  <2>1. PICK u : u = rep[c].task
    OBVIOUS
  <2>2. /\ Claimed(u) /\ u \in TaskIds /\ rep[c].state \in {"running"} \cup Final
        /\ task' = [task EXCEPT ![u].state = rep[c].state] /\ UNCHANGED <<lastTask, outcome>>
    BY <1>7, <2>1 DEF ReportWrite, DispatchInv, DeploymentInv, ReportInv, TypeOK, ReportRecords, Claimed, site
  <2>3. /\ task'[u].state = rep[c].state /\ \A t \in TaskIds : t # u => task'[t] = task[t]
    BY <2>2 DEF DispatchInv, DeploymentInv, TypeOK, Entries
  <2>4. Pending' = Pending /\ Out' = Out
    BY <2>2, <2>3 DEF Pending, Out, Claimed, Final
  <2> QED BY <2>2, <2>4, QuietDispatch
<1>8. CASE ConsoleStep
  BY <1>1, <1>8 DEF ConsoleStep, CreateRow, UpdateRow, DeleteRow, RestartRow, tasks, site
<1>9. CASE \/ \E h \in Requests : WriteRow(h)
           \/ \E c \in Conns : ReadRow(c) \/ Post(c)
           \/ Receive \/ AttemptFails \/ MasterRestart \/ UNCHANGED vars \/ UNCHANGED <<tasks, site>>
  <2>1. UNCHANGED <<lastTask, task, outcome>>
    BY <1>9 DEF WriteRow, ReadRow, Post, Receive, AttemptFails, MasterRestart, vars, tasks, site
  <2> QED BY <1>1, <2>1
<1> QED BY <1>2, <1>3, <1>5, <1>6, <1>7, <1>8, <1>9 DEF SharedStep, HandleRequest, AgentStep, Fault

LEMMA InitDispatches == Init => Dispatch!Init /\ DispatchInv
<1> SUFFICES ASSUME Init PROVE Dispatch!Init /\ DispatchInv
  OBVIOUS
<1>1. \A u \in TaskIds : outcome[u] = "none"
  BY DEF Init
<1>2. 0 \in 0..MaxTasks /\ IsLastRun(0)
  BY <1>1, DeploymentAssumption DEF IsLastRun
<1>3. LastRun = 0
  BY <1>1, <1>2, LastRunIs DEF LastRun
<1>4. HomeOf = [t \in TaskIds |-> "none"] /\ Pending = {} /\ Out = {} /\ Runs = [t \in TaskIds |-> 0]
  BY DEF Init, HomeOf, Pending, Out, Runs, NoEntry, TaskIds
<1>5. Dispatch!Init
  BY <1>3, <1>4 DEF Init, Dispatch!Init, Dispatch!Ids, HomeOf, Pending, Out, Runs, LastRun, TaskIds
<1>6. DispatchInv
  BY <1>2, InitDeployment, InitShared DEF DispatchInv, SharedInv
<1> QED BY <1>5, <1>6

(* Nodes' tasks leave the queue oldest first and once, and their scripts   *)
(* start in that order and once: what ProtocolNodes says of tasks is what  *)
(* the engine promises.                                                    *)
THEOREM NodesDispatch == Safe => DispatchSafe
<1> DEFINE Inv == SettledInv /\ DispatchInv
<1>1. Init => Inv /\ Dispatch!Init
  <2>1. Init => ToldInv
    BY DEF Init, ToldInv, AtRest
  <2> QED BY <2>1, InitDeployment, InitShared, InitDispatches DEF SettledInv
<1>2. Inv /\ [Next]_vars => Inv' /\ [Dispatch!Next]_Dispatch!vars
  <2> SUFFICES ASSUME Inv, [Next]_vars PROVE Inv' /\ [Dispatch!Next]_Dispatch!vars
    OBVIOUS
  <2>1. SettledInv'
    BY NextSettled
  <2>2. SharedStep \/ UNCHANGED <<tasks, site>>
    <3>1. Console => ConsoleStep
      BY DEF Console, ConsoleStep, CreateNode, UpdateNode, DeleteNode, RestartNode
    <3>2. \A c \in Conns : ApplyReport(c) => UNCHANGED <<tasks, site>>
      BY DEF ApplyReport
    <3> QED BY <3>1, <3>2 DEF Next, HandleReport, SharedStep
  <2> QED BY <2>1, <2>2, StepDispatches DEF DispatchInv, SettledInv, SharedInv
<1> QED BY <1>1, <1>2, PTL DEF Safe, DispatchSafe, Dispatch!Safe

(* So is what ForwardRules says of the tasks of rules.                     *)
THEOREM RulesDispatch == Rules!Safe => DispatchSafe
<1> DEFINE Inv == RulesSettledInv /\ DispatchInv
<1>1. Rules!Init => Inv /\ Dispatch!Init
  <2>1. Init => RuleTold
    BY DEF Init, RuleTold, AtRest
  <2> QED BY <2>1, RuleInit, InitDeployment, InitShared, InitDispatches DEF RulesSettledInv
<1>2. Inv /\ [Rules!Next]_Rules!vars => Inv' /\ [Dispatch!Next]_Dispatch!vars
  <2> SUFFICES ASSUME Inv, [Rules!Next]_Rules!vars PROVE Inv' /\ [Dispatch!Next]_Dispatch!vars
    OBVIOUS
  <2>1. RulesSettledInv'
    BY NextRulesSettled
  <2>2. SharedStep \/ UNCHANGED <<tasks, site>>
    BY RuleSteps DEF SharedStep, ConsoleStep, RuleReport
  <2> QED BY <2>1, <2>2, StepDispatches DEF DispatchInv, RulesSettledInv, SharedInv
<1> QED BY <1>1, <1>2, PTL DEF Rules!Safe, DispatchSafe, Dispatch!Safe
=============================================================================
