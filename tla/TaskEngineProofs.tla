-------------------------- MODULE TaskEngineProofs --------------------------
(***************************************************************************)
(* Proofs about TaskEngine for any number of servers, agents, connections, *)
(* tasks, attempts, faults and crashes, and any set of console operations. *)
(***************************************************************************)
EXTENDS TaskEngine, TLAPS

LEMMA IdleType == Idle \in Calls
  BY EngineAssumption DEF Idle, Calls, NoTask, TaskIds

(* The call on c disappears and nobody waits for it, or its answer is t.   *)
Answered(c, t) ==
    \/ conn'[c] = Idle /\ \A a \in Agents : wait[a] # c
    \/ /\ conn'[c].phase = "answered" /\ conn'[c].task = t
       /\ conn'[c].op = conn[c].op /\ conn'[c].agent = conn[c].agent
       /\ conn'[c].state = conn[c].state /\ conn'[c].tries = conn[c].tries

(* Answering touches no other call. *)
LEMMA AnswerFacts ==
    ASSUME NEW c \in Conns, NEW t \in TaskIds \cup {NoTask},
           conn \in [Conns -> Calls], Answer(c, t)
    PROVE  /\ conn' \in [Conns -> Calls]
           /\ \A d \in Conns : d # c => conn'[d] = conn[d]
           /\ Answered(c, t)
<1>1. conn[c] \in Calls /\ [conn[c] EXCEPT !.phase = "answered", !.task = t] \in Calls
  BY DEF Calls
<1>2. CASE Awaited(c)
  <2>1. conn' = [conn EXCEPT ![c] = [conn[c] EXCEPT !.phase = "answered", !.task = t]]
    BY <1>2 DEF Answer
  <2>2. conn'[c] = [conn[c] EXCEPT !.phase = "answered", !.task = t]
    BY <2>1
  <2>3. Answered(c, t)
    BY <1>1, <2>2 DEF Answered, Calls
  <2> QED BY <1>1, <2>1, <2>3
<1>3. CASE ~Awaited(c)
  <2>1. conn' = [conn EXCEPT ![c] = Idle]
    BY <1>3 DEF Answer
  <2>2. conn'[c] = Idle /\ \A a \in Agents : wait[a] # c
    BY <1>3, <2>1 DEF Awaited
  <2> QED BY <2>1, <2>2, IdleType DEF Answered
<1> QED BY <1>2, <1>3

(* A call nobody touches stays well formed while the table only grows.     *)
LEMMA CallKept ==
    ASSUME TypeOK, TypeOK', NEW d \in Conns, CallOK(d), conn'[d] = conn[d],
           lastId <= lastId', \A t \in TaskIds : claims[t] <= claims'[t]
    PROVE  CallOK(d)'
<1>1. conn[d] \in Calls /\ lastId \in Nat /\ lastId' \in Nat
  BY EngineAssumption DEF TypeOK
<1>2. \A t \in TaskIds : claims[t] \in Nat /\ claims'[t] \in Nat
  BY DEF TypeOK
<1> QED BY <1>1, <1>2 DEF CallOK, Calls, Idle, NoTask

(* An agent that does not move stays well formed while its call goes on.   *)
LEMMA AgentKept ==
    ASSUME TypeOK, TypeOK', NEW a \in Agents, AgentOK(a),
           pc'[a] = pc[a], held'[a] = held[a], wait'[a] = wait[a], verdict'[a] = verdict[a],
           \A t \in TaskIds : claims[t] <= claims'[t],
           wait[a] # NoConn => /\ conn'[wait[a]].agent = conn[wait[a]].agent
                               /\ conn'[wait[a]].op = conn[wait[a]].op
    PROVE  AgentOK(a)'
<1>1. \A t \in TaskIds : claims[t] \in Nat /\ claims'[t] \in Nat
  BY DEF TypeOK
<1>2. held[a] \in TaskIds \cup {NoTask}
  BY DEF TypeOK
<1> QED BY <1>1, <1>2 DEF AgentOK

(* Custody is kept by a step that hands nothing out and moves no agent.    *)
LEMMA CustodyKept ==
    ASSUME CustodyInv, pc' = pc, held' = held, runs' = runs, claims' = claims,
           \A t \in TaskIds : state'[t] = "generated" => claims[t] = 0,
           \A c \in Conns : Handed(c)' => Handed(c) /\ conn'[c].task = conn[c].task
    PROVE  CustodyInv'
  BY DEF CustodyInv

LEMMA InitInv == Init => EngineInv
<1> SUFFICES ASSUME Init PROVE EngineInv
  OBVIOUS
<1>1. TypeOK
  BY IdleType, EngineAssumption DEF Init, TypeOK, TaskIds, NoTask, TaskStates, AgentSteps
<1>2. TableInv /\ CallInv /\ AgentInv
  BY EngineAssumption DEF Init, TableInv, CallInv, CallOK, AgentInv, AgentOK, TaskIds, NoTask
<1>3. CustodyInv /\ RunsAtMostOnce
  BY EngineAssumption DEF Init, CustodyInv, RunsAtMostOnce, Handed, Idle, TaskIds, NoTask
<1> QED BY <1>1, <1>2, <1>3 DEF EngineInv

(* A handler's step changes the call on c; the agents do not move.         *)
LEMMA HandlerStep ==
    ASSUME EngineInv, TypeOK', NEW c \in Conns,
           \A d \in Conns : d # c => conn'[d] = conn[d],
           \A a \in Agents : wait[a] = c => /\ conn'[c].agent = conn[c].agent
                                            /\ conn'[c].op = conn[c].op,
           CallOK(c)',
           UNCHANGED agent, lastId <= lastId', \A t \in TaskIds : claims[t] <= claims'[t]
    PROVE  CallInv' /\ AgentInv'
<1>1. ASSUME NEW d \in Conns PROVE CallOK(d)'
  BY CallKept DEF EngineInv, CallInv
<1>2. ASSUME NEW a \in Agents PROVE AgentOK(a)'
  <2>1. wait[a] # NoConn => /\ conn'[wait[a]].agent = conn[wait[a]].agent
                            /\ conn'[wait[a]].op = conn[wait[a]].op
    BY DEF EngineInv, TypeOK
  <2> QED BY <2>1, AgentKept DEF EngineInv, AgentInv, agent
<1> QED BY <1>1, <1>2 DEF CallInv, AgentInv

(* A handler that answers "nothing" changes no more than its own call.     *)
LEMMA AnswerNothing ==
    ASSUME EngineInv, NEW c \in Conns, conn[c].op \in {"claim", "report"},
           Answer(c, NoTask), UNCHANGED <<lastId, server, trusted, agent, budget, history>>,
           state' \in [TaskIds -> TaskStates],
           \A t \in TaskIds : (state'[t] = "absent" <=> state[t] = "absent")
                           /\ (state'[t] = "generated" => state[t] = "generated")
    PROVE  EngineInv'
<1> USE DEF EngineInv, agent, budget, history
<1>1. conn[c] \in Calls /\ conn \in [Conns -> Calls]
  BY DEF TypeOK
<1>2. /\ conn' \in [Conns -> Calls]
      /\ \A d \in Conns : d # c => conn'[d] = conn[d]
      /\ Answered(c, NoTask)
  BY <1>1, AnswerFacts
<1>3. TypeOK'
  BY <1>2 DEF TypeOK
<1>4. TableInv' /\ RunsAtMostOnce'
  BY DEF TableInv, RunsAtMostOnce
<1>5. CallOK(c)'
  BY <1>1, <1>2 DEF Answered, CallInv, CallOK, Calls, Idle
<1>6. \A a \in Agents : wait[a] = c => conn'[c].agent = conn[c].agent /\ conn'[c].op = conn[c].op
  BY <1>2 DEF Answered
<1>7. lastId <= lastId' /\ \A t \in TaskIds : claims[t] <= claims'[t]
  BY EngineAssumption DEF TypeOK
<1>8. CallInv' /\ AgentInv'
  BY <1>2, <1>3, <1>5, <1>6, <1>7, HandlerStep
<1>9. CustodyInv'
  <2>1. \A d \in Conns : Handed(d)' => Handed(d) /\ conn'[d].task = conn[d].task
    BY <1>1, <1>2 DEF Answered, Handed, Idle
  <2> QED BY <2>1, CustodyKept DEF CustodyInv
<1> QED BY <1>3, <1>4, <1>8, <1>9

LEMMA ClaimRejectedInv ==
    ASSUME EngineInv, NEW c \in Conns, ClaimRejected(c)
    PROVE  EngineInv'
<1>1. state' = state /\ UNCHANGED <<lastId, server, trusted, agent, budget, history>>
  BY DEF ClaimRejected, table
<1> QED BY <1>1, AnswerNothing DEF ClaimRejected, EngineInv, TypeOK

(* A step that only moves the call on c to another phase.                  *)
LEMMA PhaseStep ==
    ASSUME EngineInv, NEW c \in Conns,
           UNCHANGED <<table, trusted, agent, budget, history>>,
           conn' \in [Conns -> Calls],
           \A d \in Conns : d # c => conn'[d] = conn[d],
           \A a \in Agents : wait[a] = c => /\ conn'[c].agent = conn[c].agent
                                            /\ conn'[c].op = conn[c].op,
           CallOK(c)', ~Handed(c)'
    PROVE  EngineInv'
<1> USE DEF EngineInv, table, agent, budget, history
<1>1. TypeOK'
  BY DEF TypeOK
<1>2. TableInv' /\ RunsAtMostOnce'
  BY DEF TableInv, RunsAtMostOnce
<1>3. lastId <= lastId' /\ \A t \in TaskIds : claims[t] <= claims'[t]
  BY EngineAssumption DEF TypeOK
<1>4. CallInv' /\ AgentInv'
  BY <1>1, <1>3, HandlerStep
<1>5. CustodyInv'
  <2>1. \A d \in Conns : Handed(d)' => Handed(d) /\ conn'[d].task = conn[d].task
    BY DEF Handed
  <2> QED BY <2>1, CustodyKept DEF CustodyInv
<1> QED BY <1>1, <1>2, <1>4, <1>5

LEMMA ClaimSelectInv ==
    ASSUME EngineInv, NEW c \in Conns, ClaimSelect(c)
    PROVE  EngineInv'
<1> USE DEF EngineInv
<1>1. conn[c] \in Calls /\ conn[c].op = "claim"
  BY DEF TypeOK, ClaimSelect
<1>2. CASE Answer(c, NoTask)
  <2>1. state' = state /\ UNCHANGED <<lastId, server, trusted, agent, budget, history>>
    BY DEF ClaimSelect, table
  <2> QED BY <1>1, <1>2, <2>1, AnswerNothing DEF TypeOK
<1>3. ASSUME NEW t \in Queue(Home[conn[c].agent]),
             conn' = [conn EXCEPT ![c].phase = "chosen", ![c].task = t]
      PROVE  EngineInv'
  <2>1. t \in 1..lastId /\ t \in TaskIds
    BY <1>3 DEF Queue, TableInv, TypeOK, TaskIds
  <2>2. conn'[c] = [op |-> "claim", phase |-> "chosen", agent |-> conn[c].agent,
                    task |-> t, state |-> conn[c].state, tries |-> conn[c].tries]
    BY <1>1, <1>3 DEF Calls, TypeOK
  <2>3. conn' \in [Conns -> Calls] /\ \A d \in Conns : d # c => conn'[d] = conn[d]
    BY <1>1, <1>3, <2>1, <2>2 DEF Calls, TypeOK
  <2>4. CallOK(c)' /\ ~Handed(c)'
    BY <1>1, <2>1, <2>2 DEF CallInv, CallOK, Handed, Idle, ClaimSelect, table
  <2> QED BY <1>1, <2>2, <2>3, <2>4, PhaseStep DEF ClaimSelect
<1> QED BY <1>2, <1>3 DEF ClaimSelect

LEMMA MarkTaskClaimedInv ==
    ASSUME EngineInv, NEW c \in Conns, MarkTaskClaimed(c)
    PROVE  EngineInv'
<1> DEFINE t == conn[c].task
<1> USE DEF EngineInv
<1>1. conn[c] \in Calls /\ conn[c].op = "claim" /\ conn[c].phase = "chosen" /\ conn[c] # Idle
  BY DEF TypeOK, MarkTaskClaimed, Idle
<1>2. t \in 1..lastId /\ t \in TaskIds /\ conn[c].agent \in Agents /\ conn[c].tries > 0
  BY <1>1, EngineAssumption DEF CallInv, CallOK, TypeOK, TaskIds
<1>3. CASE StillClaimable(t, Home[conn[c].agent])
  <2>1. /\ state' = [state EXCEPT ![t] = "claimed"]
        /\ claims' = [claims EXCEPT ![t] = claims[t] + 1]
        /\ Answer(c, t)
        /\ UNCHANGED <<lastId, server, trusted, agent, budget, runs, outcome, lastRun>>
    BY <1>3 DEF MarkTaskClaimed
  <2>2. state[t] = "generated" /\ claims[t] = 0 /\ runs[t] = 0
    BY <1>2, <1>3 DEF StillClaimable, CustodyInv, RunsAtMostOnce, TypeOK
  <2>3. /\ conn' \in [Conns -> Calls]
        /\ \A d \in Conns : d # c => conn'[d] = conn[d]
        /\ Answered(c, t)
    BY <1>2, <2>1, AnswerFacts DEF TypeOK
  <2>4. TypeOK'
    BY <1>2, <2>1, <2>2, <2>3 DEF TypeOK, TaskStates, agent, budget
  <2>5. TableInv' /\ RunsAtMostOnce'
    BY <1>2, <2>1, <2>2, EngineAssumption DEF TypeOK, TableInv, RunsAtMostOnce, TaskIds
  <2>6. lastId <= lastId' /\ \A u \in TaskIds : claims[u] <= claims'[u]
    BY <1>2, <2>1, <2>2, EngineAssumption DEF TypeOK
  <2>7. CallOK(c)'
    BY <1>1, <1>2, <2>1, <2>3 DEF Answered, CallOK, Calls, Idle
  <2>8. \A a \in Agents : wait[a] = c => conn'[c].agent = conn[c].agent /\ conn'[c].op = conn[c].op
    BY <2>3 DEF Answered
  <2>9. CallInv' /\ AgentInv'
    BY <2>1, <2>3, <2>4, <2>6, <2>7, <2>8, HandlerStep
  <2>10. /\ \A a \in Agents : held[a] # t
         /\ \A d \in Conns : Handed(d) => conn[d].task # t
    <3>1. t # NoTask /\ ~(claims[t] > 0)
      BY <1>2, <2>2, EngineAssumption DEF NoTask, TaskIds
    <3>2. ASSUME NEW a \in Agents PROVE held[a] # t
      BY <3>1 DEF AgentInv, AgentOK
    <3>3. ASSUME NEW d \in Conns, Handed(d) PROVE conn[d].task # t
      BY <3>1, <3>3 DEF CustodyInv
    <3> QED BY <3>2, <3>3
  <2>11. ASSUME NEW d \in Conns, Handed(d)'
         PROVE  \/ d = c /\ conn'[d].task = t
                \/ d # c /\ Handed(d) /\ conn'[d].task = conn[d].task
    BY <2>3, <2>11 DEF Answered, Handed, Idle
  <2>12. CustodyInv'
    <3>1. \A u \in TaskIds : state'[u] = "generated" => claims'[u] = 0
      BY <1>2, <2>1 DEF CustodyInv, TypeOK
    <3>2. ASSUME NEW d \in Conns, Handed(d)'
          PROVE  /\ claims'[conn'[d].task] > 0
                 /\ runs'[conn'[d].task] = 0
                 /\ \A a \in Agents : held'[a] # conn'[d].task
                 /\ \A e \in Conns : Handed(e)' /\ conn'[e].task = conn'[d].task => e = d
      <4>1. conn'[d].task \in TaskIds
        BY <2>3, <3>2 DEF Handed, Calls, NoTask
      <4> QED BY <1>2, <2>1, <2>2, <2>6, <2>10, <2>11, <3>2, <4>1 DEF CustodyInv, agent, TypeOK
    <3> QED BY <2>1, <3>1, <3>2 DEF CustodyInv, agent
  <2> QED BY <2>4, <2>5, <2>9, <2>12
<1>4. CASE ~StillClaimable(t, Home[conn[c].agent]) /\ conn[c].tries = 1
  <2>1. Answer(c, NoTask) /\ state' = state
        /\ UNCHANGED <<lastId, server, trusted, agent, budget, history>>
    BY <1>4 DEF MarkTaskClaimed, history
  <2> QED BY <1>1, <2>1, AnswerNothing DEF TypeOK
<1>5. CASE ~StillClaimable(t, Home[conn[c].agent]) /\ conn[c].tries # 1
  <2>1. /\ conn' = [conn EXCEPT ![c].phase = "again", ![c].task = NoTask, ![c].tries = conn[c].tries - 1]
        /\ UNCHANGED <<table, trusted, agent, budget, history>>
    BY <1>5 DEF MarkTaskClaimed, history, table
  <2>2. conn'[c] = [op |-> "claim", phase |-> "again", agent |-> conn[c].agent,
                    task |-> NoTask, state |-> conn[c].state, tries |-> conn[c].tries - 1]
    BY <1>1, <2>1 DEF Calls, TypeOK
  <2>3. conn' \in [Conns -> Calls] /\ \A d \in Conns : d # c => conn'[d] = conn[d]
    BY <1>1, <1>2, <2>1, <2>2, EngineAssumption DEF Calls, TypeOK
  <2>4. CallOK(c)' /\ ~Handed(c)'
    BY <1>1, <1>2, <1>5, <2>2, EngineAssumption DEF CallOK, Handed, Calls
  <2> QED BY <1>1, <2>1, <2>2, <2>3, <2>4, PhaseStep
<1> QED BY <1>3, <1>4, <1>5

LEMMA ReportReadInv ==
    ASSUME EngineInv, NEW c \in Conns, ReportRead(c)
    PROVE  EngineInv'
<1> USE DEF EngineInv
<1>1. conn[c] \in Calls /\ conn[c].op = "report" /\ conn[c].phase = "sent" /\ conn[c] # Idle
  BY DEF TypeOK, ReportRead, Idle
<1>2. CASE ReportAccepted(c)
  <2>1. conn' = [conn EXCEPT ![c].phase = "admitted"]
    BY <1>2 DEF ReportRead
  <2>2. conn'[c] = [op |-> "report", phase |-> "admitted", agent |-> conn[c].agent,
                    task |-> conn[c].task, state |-> conn[c].state, tries |-> conn[c].tries]
    BY <1>1, <2>1 DEF Calls, TypeOK
  <2>3. conn' \in [Conns -> Calls] /\ \A d \in Conns : d # c => conn'[d] = conn[d]
    BY <1>1, <2>1, <2>2 DEF Calls, TypeOK
  <2>4. CallOK(c)' /\ ~Handed(c)'
    BY <1>1, <2>2 DEF ReportRead, CallInv, CallOK, Handed, Calls, history
  <2> QED BY <1>1, <2>2, <2>3, <2>4, PhaseStep DEF ReportRead
<1>3. CASE ~ReportAccepted(c)
  <2>1. state' = state /\ UNCHANGED <<lastId, server, trusted, agent, budget, history>>
    BY DEF ReportRead, table
  <2> QED BY <1>1, <1>3, <2>1, AnswerNothing DEF ReportRead, TypeOK
<1> QED BY <1>2, <1>3

LEMMA ReportWriteInv ==
    ASSUME EngineInv, NEW c \in Conns, ReportWrite(c)
    PROVE  EngineInv'
<1> USE DEF EngineInv
<1>1. conn[c] \in Calls /\ conn[c] # Idle /\ conn[c].op = "report"
  BY DEF TypeOK, ReportWrite, Idle
<1>2. conn[c].state \in Reportable
  BY <1>1 DEF CallInv, CallOK, Calls
<1>3. /\ state' \in [TaskIds -> TaskStates]
      /\ \A t \in TaskIds : (state'[t] = "absent" <=> state[t] = "absent")
                         /\ (state'[t] = "generated" => state[t] = "generated")
  BY <1>2 DEF ReportWrite, WriteState, TypeOK, TaskStates, Reportable
<1> QED BY <1>1, <1>3, AnswerNothing DEF ReportWrite

LEMMA RetryReadInv ==
    ASSUME EngineInv, NEW c \in Conns, NEW t \in TaskIds, RetryRead(c, t)
    PROVE  EngineInv'
<1> USE DEF EngineInv
<1>1. t \in 1..lastId
  BY EngineAssumption DEF RetryRead, Retryable, TableInv, TypeOK, TaskIds
<1>2. conn'[c] = [Idle EXCEPT !.op = "retry", !.phase = "chosen", !.task = t]
  BY DEF RetryRead, TypeOK
<1>3. conn'[c] = [op |-> "retry", phase |-> "chosen", agent |-> NoAgent,
                  task |-> t, state |-> "none", tries |-> 0]
  BY <1>2 DEF Idle
<1>4. conn' \in [Conns -> Calls] /\ \A d \in Conns : d # c => conn'[d] = conn[d]
  BY <1>2, <1>3, EngineAssumption DEF RetryRead, Calls, TypeOK
<1>5. \A a \in Agents : wait[a] # c
  BY EngineAssumption DEF RetryRead, AgentInv, AgentOK, Idle
<1>6. CallOK(c)' /\ ~Handed(c)'
  BY <1>1, <1>3 DEF RetryRead, CallOK, Handed, table
<1> QED BY <1>4, <1>5, <1>6, PhaseStep DEF RetryRead

(* A new row has the next id: nothing refers to it yet.                    *)
LEMMA InsertRowInv ==
    ASSUME EngineInv, NEW s \in Servers, InsertRow(s), claims' = claims, runs' = runs
    PROVE  /\ lastId' \in 0..MaxTasks /\ lastId <= lastId'
           /\ state' \in [TaskIds -> TaskStates]
           /\ server' \in [TaskIds -> Servers \cup {NoServer}]
           /\ \A t \in TaskIds : state'[t] # "absent" => server'[t] \in Servers
           /\ \A t \in TaskIds : state'[t] = "generated" => claims[t] = 0
           /\ TableInv'
<1> DEFINE n == lastId + 1
<1> USE DEF EngineInv, InsertRow
<1>1. n \in TaskIds /\ lastId' = n /\ lastId \in Nat
  BY EngineAssumption DEF TypeOK, TaskIds
<1>2. state[n] = "absent" /\ claims[n] = 0
  BY <1>1 DEF TableInv
<1>3. lastId' \in 0..MaxTasks /\ lastId <= lastId'
  BY <1>1, EngineAssumption DEF TypeOK
<1>4. /\ state' \in [TaskIds -> TaskStates]
      /\ server' \in [TaskIds -> Servers \cup {NoServer}]
  BY <1>1 DEF TypeOK, TaskStates
<1>5. \A t \in TaskIds : state'[t] # "absent" => server'[t] \in Servers
  BY <1>1 DEF TypeOK
<1>6. \A t \in TaskIds : state'[t] = "generated" => claims[t] = 0
  BY <1>1, <1>2 DEF TypeOK, CustodyInv
<1>7. TableInv'
  BY <1>1, <1>2, EngineAssumption DEF TypeOK, TableInv, TaskIds
<1> QED BY <1>3, <1>4, <1>5, <1>6, <1>7

(* A step of the console on the table leaves calls and agents alone.       *)
LEMMA ConsoleStep ==
    ASSUME EngineInv, UNCHANGED <<conn, agent, budget, history>>, trusted' \subseteq Agents,
           lastId' \in 0..MaxTasks, lastId <= lastId',
           state' \in [TaskIds -> TaskStates],
           server' \in [TaskIds -> Servers \cup {NoServer}],
           \A t \in TaskIds : state'[t] # "absent" => server'[t] \in Servers,
           \A t \in TaskIds : state'[t] = "generated" => claims[t] = 0,
           TableInv'
    PROVE  EngineInv'
<1> USE DEF EngineInv, agent, budget, history
<1>1. TypeOK'
  BY DEF TypeOK
<1>2. \A t \in TaskIds : claims[t] <= claims'[t]
  BY DEF TypeOK
<1>3. CallInv' /\ AgentInv'
  <2>1. ASSUME NEW d \in Conns PROVE CallOK(d)'
    BY <1>1, <1>2, CallKept DEF CallInv
  <2>2. ASSUME NEW a \in Agents PROVE AgentOK(a)'
    BY <1>1, <1>2, AgentKept DEF AgentInv
  <2> QED BY <2>1, <2>2 DEF CallInv, AgentInv
<1>4. CustodyInv'
  <2>1. \A d \in Conns : Handed(d)' => Handed(d) /\ conn'[d].task = conn[d].task
    BY DEF Handed
  <2> QED BY <2>1, CustodyKept
<1>5. RunsAtMostOnce'
  BY DEF RunsAtMostOnce
<1> QED BY <1>1, <1>3, <1>4, <1>5

LEMMA CreateTaskInv ==
    ASSUME EngineInv, NEW s \in Servers, CreateTask(s)
    PROVE  EngineInv'
<1>1. InsertRow(s) /\ UNCHANGED <<trusted, conn, agent, budget, history>>
  BY DEF CreateTask
<1>2. trusted' \subseteq Agents
  BY <1>1 DEF EngineInv, TypeOK
<1> QED BY <1>1, <1>2, InsertRowInv, ConsoleStep DEF history

LEMMA RotateServerTokenInv ==
    ASSUME EngineInv, NEW s \in Servers, RotateServerToken(s)
    PROVE  EngineInv'
<1>1. trusted' \subseteq Agents
  BY DEF RotateServerToken, EngineInv, TypeOK
<1>2. TableInv'
  BY DEF RotateServerToken, EngineInv, TableInv, table, history
<1> QED BY <1>1, <1>2, ConsoleStep
        DEF RotateServerToken, EngineInv, TypeOK, CustodyInv, table

LEMMA DeleteTaskInv ==
    ASSUME EngineInv, NEW t \in TaskIds, DeleteTask(t)
    PROVE  EngineInv'
<1> USE DEF EngineInv, DeleteTask
<1>1. state' \in [TaskIds -> TaskStates]
  BY DEF TypeOK, TaskStates
<1>2. /\ \A u \in TaskIds : state'[u] # "absent" => server'[u] \in Servers
      /\ \A u \in TaskIds : state'[u] = "generated" => claims[u] = 0
  BY DEF TypeOK, CustodyInv
<1>3. TableInv'
  BY DEF TypeOK, TableInv, history
<1> QED BY <1>1, <1>2, <1>3, ConsoleStep DEF TypeOK

LEMMA UpdateTaskStateInv ==
    ASSUME EngineInv, NEW t \in TaskIds, NEW v \in Reportable, UpdateTaskState(t, v)
    PROVE  EngineInv'
<1> USE DEF EngineInv, UpdateTaskState, WriteState
<1>1. state' \in [TaskIds -> TaskStates]
  BY DEF TypeOK, TaskStates
<1>2. /\ \A u \in TaskIds : state'[u] # "absent" => server'[u] \in Servers
      /\ \A u \in TaskIds : state'[u] = "generated" => claims[u] = 0
  BY DEF TypeOK, CustodyInv, Reportable
<1>3. TableInv'
  BY DEF TypeOK, TableInv, history
<1> QED BY <1>1, <1>2, <1>3, ConsoleStep DEF TypeOK

LEMMA RetrySaveInv ==
    ASSUME EngineInv, NEW c \in Conns, RetrySave(c)
    PROVE  EngineInv'
<1> USE DEF EngineInv
<1>1. conn[c] \in Calls /\ conn[c].op = "retry" /\ conn[c] # Idle
  BY DEF TypeOK, RetrySave, Idle
<1>2. conn[c].task \in 1..lastId /\ conn[c].task \in TaskIds
  <2>1. conn[c].task \in 1..lastId
    BY <1>1 DEF CallInv, CallOK
  <2> QED BY <2>1, EngineAssumption DEF TypeOK, TaskIds
<1>3. server[conn[c].task] \in Servers
  BY <1>2 DEF TableInv
<1>4. conn' = [conn EXCEPT ![c] = Idle] /\ UNCHANGED <<trusted, agent, budget, history>>
  BY DEF RetrySave
<1>5. \A a \in Agents : wait[a] # c
  BY <1>1, EngineAssumption DEF AgentInv, AgentOK
<1>6. /\ lastId' \in 0..MaxTasks /\ lastId <= lastId'
      /\ state' \in [TaskIds -> TaskStates]
      /\ server' \in [TaskIds -> Servers \cup {NoServer}]
      /\ \A t \in TaskIds : state'[t] # "absent" => server'[t] \in Servers
      /\ \A t \in TaskIds : state'[t] = "generated" => claims[t] = 0
      /\ TableInv'
  <2>1. CASE InsertRow(server[conn[c].task])
    BY <1>3, <1>4, <2>1, InsertRowInv DEF history
  <2>2. CASE UNCHANGED table
    BY <1>4, <2>2, EngineAssumption DEF table, TypeOK, CustodyInv, TableInv, history
  <2> QED BY <2>1, <2>2 DEF RetrySave, RetryServer
<1>7. conn' \in [Conns -> Calls] /\ \A d \in Conns : d # c => conn'[d] = conn[d]
  BY <1>4, IdleType DEF TypeOK
<1>8. TypeOK'
  BY <1>4, <1>6, <1>7 DEF TypeOK, agent, budget, history
<1>9. CallInv' /\ AgentInv'
  <2>1. CallOK(c)'
    BY <1>4 DEF CallOK, TypeOK
  <2>2. \A t \in TaskIds : claims[t] <= claims'[t]
    BY <1>4 DEF TypeOK, history
  <2> QED BY <1>4, <1>5, <1>6, <1>7, <1>8, <2>1, <2>2, HandlerStep
<1>10. CustodyInv'
  <2>1. \A d \in Conns : Handed(d)' => Handed(d) /\ conn'[d].task = conn[d].task
    BY <1>4 DEF Handed, Idle, TypeOK
  <2> QED BY <1>4, <1>6, <2>1, CustodyKept DEF agent, history
<1>11. RunsAtMostOnce'
  BY <1>4 DEF RunsAtMostOnce, history
<1> QED BY <1>6, <1>8, <1>9, <1>10, <1>11

(* A restart ends every call; the callers notice.                          *)
LEMMA RestartCalls ==
    ASSUME EngineInv, MasterRestart, NEW c \in Conns
    PROVE  /\ conn'[c] \in Calls
           /\ \/ conn'[c] = Idle /\ \A a \in Agents : wait[a] # c
              \/ /\ conn'[c].phase = "broken" /\ conn'[c].task = conn[c].task
                 /\ conn'[c].op = conn[c].op /\ conn'[c].agent = conn[c].agent
                 /\ conn'[c].state = conn[c].state /\ conn'[c].tries = conn[c].tries
                 /\ conn[c].op \in {"claim", "report"}
<1> USE DEF EngineInv, MasterRestart
<1>1. conn[c] \in Calls
  BY DEF TypeOK
<1>2. CASE Awaited(c)
  <2>1. conn'[c] = [conn[c] EXCEPT !.phase = "broken"]
    BY <1>2
  <2>2. conn[c].op \in {"claim", "report"}
    BY <1>2, EngineAssumption DEF Awaited, AgentInv, AgentOK
  <2> QED BY <1>1, <2>1, <2>2 DEF Calls
<1>3. CASE ~Awaited(c)
  BY <1>3, IdleType DEF Awaited
<1> QED BY <1>2, <1>3

LEMMA MasterRestartInv ==
    ASSUME EngineInv, MasterRestart
    PROVE  EngineInv'
<1> USE DEF EngineInv, MasterRestart, table, agent, history
<1>1. ASSUME NEW c \in Conns
      PROVE  /\ conn'[c] \in Calls
             /\ \/ conn'[c] = Idle /\ \A a \in Agents : wait[a] # c
                \/ /\ conn'[c].phase = "broken" /\ conn'[c].task = conn[c].task
                   /\ conn'[c].op = conn[c].op /\ conn'[c].agent = conn[c].agent
                   /\ conn'[c].state = conn[c].state /\ conn'[c].tries = conn[c].tries
                   /\ conn[c].op \in {"claim", "report"}
  BY RestartCalls
<1>2. TypeOK'
  <2>1. conn' \in [Conns -> Calls]
    BY <1>1
  <2> QED BY <2>1, EngineAssumption DEF TypeOK
<1>3. TableInv' /\ RunsAtMostOnce'
  BY DEF TableInv, RunsAtMostOnce
<1>4. CallInv'
  <2> SUFFICES ASSUME NEW c \in Conns PROVE CallOK(c)'
    BY DEF CallInv
  <2> QED BY <1>1 DEF CallInv, CallOK, Idle
<1>5. AgentInv'
  <2> SUFFICES ASSUME NEW a \in Agents PROVE AgentOK(a)'
    BY DEF AgentInv
  <2>1. wait[a] # NoConn => /\ conn'[wait[a]].agent = conn[wait[a]].agent
                            /\ conn'[wait[a]].op = conn[wait[a]].op
    <3>1. wait[a] \in Conns \cup {NoConn}
      BY DEF TypeOK
    <3> HIDE DEF EngineInv, MasterRestart
    <3> QED BY <1>1, <3>1
  <2>2. \A t \in TaskIds : claims[t] <= claims'[t]
    BY DEF TypeOK
  <2> QED BY <1>2, <2>1, <2>2, AgentKept DEF AgentInv
<1>6. CustodyInv'
  <2>1. \A d \in Conns : ~Handed(d)'
    BY <1>1 DEF Handed, Idle
  <2> QED BY <2>1, CustodyKept DEF CustodyInv
<1> QED BY <1>2, <1>3, <1>4, <1>5, <1>6

(* An agent's step that makes no call leaves the calls and the table alone. *)
LEMMA LocalStep ==
    ASSUME EngineInv, NEW a \in Agents,
           UNCHANGED <<table, trusted, conn, held, wait, budget, claims>>,
           TypeOK', RunsAtMostOnce', AgentOK(a)',
           \A b \in Agents : b # a => pc'[b] = pc[b] /\ verdict'[b] = verdict[b],
           \A t \in TaskIds : runs'[t] = runs[t] \/ t = held[a],
           pc'[a] \in {"announcing", "ready"} => runs'[held[a]] = 0
    PROVE  EngineInv'
<1> USE DEF EngineInv, table, budget
<1>1. TableInv'
  BY DEF TableInv
<1>2. \A t \in TaskIds : claims[t] <= claims'[t]
  BY DEF TypeOK
<1>3. CallInv'
  BY <1>2, CallKept, EngineAssumption DEF CallInv, TypeOK
<1>4. AgentInv'
  BY <1>2, AgentKept DEF AgentInv
<1>5. CustodyInv'
  <2>1. \A c \in Conns : Handed(c)' <=> Handed(c)
    BY DEF Handed
  <2>2. ASSUME NEW c \in Conns, Handed(c)
        PROVE  runs'[conn[c].task] = 0
    BY <2>2, EngineAssumption DEF CustodyInv, TypeOK, Calls, Handed
  <2>3. ASSUME NEW b \in Agents, b # a, pc[b] \in {"announcing", "ready"}
        PROVE  runs'[held[b]] = 0
    <3>1. held[b] \in TaskIds /\ held[b] # held[a]
      BY <2>3 DEF CustodyInv, AgentInv, AgentOK, TypeOK
    <3> QED BY <2>3, <3>1 DEF CustodyInv
  <2> QED BY <2>1, <2>2, <2>3 DEF CustodyInv
<1> QED BY <1>1, <1>3, <1>4, <1>5

LEMMA PollInv ==
    ASSUME EngineInv, NEW a \in Agents, Poll(a)
    PROVE  EngineInv'
<1> USE DEF EngineInv, Poll, table, budget, history
<1>1. TypeOK' /\ RunsAtMostOnce'
  BY EngineAssumption DEF TypeOK, AgentSteps, RunsAtMostOnce
<1>2. AgentOK(a)'
  BY EngineAssumption DEF AgentInv, AgentOK, TypeOK
<1> QED BY <1>1, <1>2, LocalStep DEF TypeOK

LEMMA AgentRestartInv ==
    ASSUME EngineInv, NEW a \in Agents, AgentRestart(a)
    PROVE  EngineInv'
<1> USE DEF EngineInv, AgentRestart, table, budget, history
<1>1. TypeOK' /\ RunsAtMostOnce'
  BY EngineAssumption DEF TypeOK, AgentSteps, RunsAtMostOnce
<1>2. AgentOK(a)'
  BY EngineAssumption DEF AgentInv, AgentOK, TypeOK
<1> QED BY <1>1, <1>2, LocalStep DEF TypeOK

LEMMA StartScriptInv ==
    ASSUME EngineInv, NEW a \in Agents, StartScript(a)
    PROVE  EngineInv'
<1> USE DEF EngineInv, StartScript, table, budget
<1>1. held[a] \in TaskIds /\ runs[held[a]] = 0 /\ claims[held[a]] > 0
  BY DEF AgentInv, AgentOK, CustodyInv, TypeOK
<1>2. TypeOK' /\ RunsAtMostOnce'
  BY <1>1 DEF TypeOK, AgentSteps, RunsAtMostOnce
<1>3. AgentOK(a)'
  BY DEF AgentInv, AgentOK, TypeOK
<1> QED BY <1>1, <1>2, <1>3, LocalStep DEF TypeOK

LEMMA FinishScriptInv ==
    ASSUME EngineInv, NEW a \in Agents, NEW v \in {"succeeded", "failed"}, FinishScript(a, v)
    PROVE  EngineInv'
<1> USE DEF EngineInv, FinishScript, table, budget
<1>1. TypeOK' /\ RunsAtMostOnce'
  BY DEF TypeOK, AgentSteps, RunsAtMostOnce
<1>2. AgentOK(a)'
  BY DEF AgentInv, AgentOK, TypeOK
<1> QED BY <1>1, <1>2, LocalStep DEF TypeOK

(* An agent opens, reads or gives up one call, and moves on: the call on c *)
(* becomes another one or ends, and no task is in two places.              *)
LEMMA CallStep ==
    ASSUME EngineInv, NEW a \in Agents, NEW c \in Conns,
           UNCHANGED <<table, trusted, verdict, claims, runs, outcome, lastRun>>,
           TypeOK',
           \A d \in Conns : d # c => conn'[d] = conn[d],
           \A b \in Agents : b # a => /\ pc'[b] = pc[b] /\ held'[b] = held[b]
                                      /\ wait'[b] = wait[b] /\ wait[b] # c,
           CallOK(c)', ~Handed(c)', AgentOK(a)',
           held'[a] = NoTask \/ held'[a] = held[a] \/ (Handed(c) /\ held'[a] = conn[c].task),
           pc'[a] \in {"announcing", "ready"} => runs[held'[a]] = 0
    PROVE  EngineInv'
<1> USE DEF EngineInv, table
<1>1. TableInv' /\ RunsAtMostOnce'
  BY DEF TableInv, RunsAtMostOnce
<1>2. lastId <= lastId' /\ \A t \in TaskIds : claims[t] <= claims'[t]
  BY EngineAssumption DEF TypeOK
<1>3. CallInv'
  BY <1>2, CallKept DEF CallInv
<1>4. AgentInv'
  <2> SUFFICES ASSUME NEW b \in Agents, b # a PROVE AgentOK(b)'
    BY DEF AgentInv
  <2>1. wait[b] # NoConn => conn'[wait[b]] = conn[wait[b]]
    BY DEF TypeOK
  <2> QED BY <1>2, <2>1, AgentKept DEF AgentInv
<1>5. CustodyInv'
  <2>1. \A d \in Conns : Handed(d)' => d # c /\ Handed(d) /\ conn'[d].task = conn[d].task
    BY DEF Handed
  <2>2. ASSUME NEW d \in Conns, Handed(d)', NEW b \in Agents
        PROVE  held'[b] # conn'[d].task
    BY <2>1, <2>2 DEF CustodyInv, Handed
  <2>3. ASSUME NEW b \in Agents, b # a, held'[a] # NoTask PROVE held'[b] # held'[a]
    BY <2>3 DEF CustodyInv, Handed
  <2>4. \A b, e \in Agents : held'[b] # NoTask /\ held'[b] = held'[e] => b = e
    BY <2>3 DEF CustodyInv
  <2> QED BY <2>1, <2>2, <2>4 DEF CustodyInv
<1> QED BY <1>1, <1>3, <1>4, <1>5

(* Only the agent that opened a call waits for it.                         *)
LEMMA OneWaits ==
    ASSUME EngineInv, NEW a \in Agents, wait[a] # NoConn
    PROVE  /\ wait[a] \in Conns /\ conn[wait[a]] \in Calls /\ conn[wait[a]] # Idle
           /\ \A b \in Agents : b # a => wait[b] # wait[a]
  BY EngineAssumption DEF EngineInv, TypeOK, AgentInv, AgentOK, Idle

LEMMA PostInv ==
    ASSUME EngineInv, NEW a \in Agents, NEW c \in Conns, Post(a, c)
    PROVE  EngineInv'
<1> USE DEF EngineInv, Post
<1>1. conn'[c] = Request(a) /\ wait'[a] = c /\ c # NoConn
  BY EngineAssumption DEF TypeOK
<1>2. \A b \in Agents : wait[b] # c
  <2> SUFFICES ASSUME NEW b \in Agents, wait[b] = c PROVE FALSE
    OBVIOUS
  <2>1. conn[wait[b]] # Idle
    BY <1>1, OneWaits
  <2> QED BY <2>1
<1>3. held[a] \in TaskIds \cup {NoTask} /\ verdict[a] \in {"none", "succeeded", "failed"}
  BY DEF TypeOK
<1>4. pc[a] \in {"announcing", "reporting"} => held[a] # NoTask /\ claims[held[a]] > 0
  BY DEF AgentInv, AgentOK
<1>4a. pc[a] = "reporting" => verdict[a] # "none"
  BY DEF AgentInv, AgentOK
<1>5. \/ /\ pc[a] = "claiming"
         /\ conn'[c] = [op |-> "claim", phase |-> "sent", agent |-> a, task |-> NoTask,
                        state |-> "none", tries |-> ClaimTries]
      \/ /\ pc[a] \in {"announcing", "reporting"}
         /\ \E v \in {"running", "succeeded", "failed"} :
               conn'[c] = [op |-> "report", phase |-> "sent", agent |-> a, task |-> held[a],
                           state |-> v, tries |-> 0]
  <2>1. CASE pc[a] = "claiming"
    BY <1>1, <2>1 DEF Request, Idle
  <2>2. CASE pc[a] = "announcing"
    BY <1>1, <2>2 DEF Request, Idle
  <2>3. CASE pc[a] = "reporting"
    <3>1. Request(a) = [op |-> "report", phase |-> "sent", agent |-> a, task |-> held[a],
                        state |-> verdict[a], tries |-> 0]
      BY <2>3 DEF Request, Idle
    <3>2. verdict[a] \in {"succeeded", "failed"}
      BY <1>3, <1>4a, <2>3
    <3> QED BY <1>1, <2>3, <3>1, <3>2
  <2> QED BY <2>1, <2>2, <2>3
<1>6. conn'[c] \in Calls
  BY <1>3, <1>5, EngineAssumption DEF Calls, Reportable
<1>7. TypeOK'
  BY <1>6 DEF TypeOK, table, budget, history
<1>8. CallOK(c)' /\ ~Handed(c)'
  <2>1. CASE conn'[c].op = "claim"
    BY <1>5, <2>1, EngineAssumption DEF CallOK, Handed
  <2>2. CASE conn'[c].op = "report"
    <3>1. /\ conn'[c].phase = "sent" /\ conn'[c].agent = a /\ conn'[c].state # "none"
          /\ conn'[c].task = held[a] /\ held[a] # NoTask /\ claims'[held[a]] > 0
      <4>1. pc[a] \in {"announcing", "reporting"}
        BY <1>5, <2>2
      <4>2. PICK v \in {"running", "succeeded", "failed"} :
              conn'[c] = [op |-> "report", phase |-> "sent", agent |-> a, task |-> held[a],
                          state |-> v, tries |-> 0]
        BY <1>5, <2>2
      <4>3. claims' = claims
        BY DEF history
      <4> QED BY <1>4, <4>1, <4>2, <4>3
    <3> QED BY <2>2, <3>1 DEF CallOK, Handed
  <2> QED BY <1>5, <2>1, <2>2
<1>9. AgentOK(a)'
  BY <1>1, <1>5 DEF AgentInv, AgentOK, history, TypeOK
<1>10. pc'[a] \in {"announcing", "ready"} => runs[held'[a]] = 0
  BY DEF CustodyInv
<1>11. \A d \in Conns : d # c => conn'[d] = conn[d]
  BY DEF TypeOK
<1> QED BY <1>2, <1>7, <1>8, <1>9, <1>10, <1>11, CallStep DEF TypeOK, history, table

LEMMA ReceiveInv ==
    ASSUME EngineInv, NEW a \in Agents, Receive(a)
    PROVE  EngineInv'
<1> USE DEF EngineInv, Receive
<1>0. PICK c \in Conns : c = wait[a]
  BY OneWaits
<1>1. /\ c \in Conns /\ conn[c] \in Calls /\ conn[c] # Idle
      /\ wait[a] = c /\ c # NoConn
      /\ \A b \in Agents : b # a => wait[b] # c
  BY <1>0, OneWaits, EngineAssumption
<1>2. /\ conn' = [conn EXCEPT ![c] = Idle] /\ conn[c].phase = "answered"
      /\ wait' = [wait EXCEPT ![a] = NoConn]
      /\ attempt' = [attempt EXCEPT ![a] = MaxAttempts]
  BY <1>1
<1>3. \/ pc[a] = "claiming" /\ conn[c].op = "claim" /\ held[a] = NoTask
      \/ pc[a] = "announcing" /\ conn[c].op = "report" /\ held[a] # NoTask
      \/ pc[a] = "reporting" /\ conn[c].op = "report"
  BY <1>1, EngineAssumption DEF AgentInv, AgentOK
<1>4. \/ /\ Handed(c) /\ held' = [held EXCEPT ![a] = conn[c].task]
         /\ pc' = [pc EXCEPT ![a] = "announcing"]
      \/ /\ held' = [held EXCEPT ![a] = NoTask] /\ pc' = [pc EXCEPT ![a] = "poll"]
      \/ /\ held' = [held EXCEPT ![a] = held[a]] /\ pc' = [pc EXCEPT ![a] = "ready"]
         /\ pc[a] = "announcing" /\ held[a] # NoTask
  <2>1. CASE pc[a] = "claiming" /\ conn[c].task # NoTask
    BY <1>1, <1>2, <1>3, <2>1 DEF Handed
  <2>2. CASE pc[a] = "claiming" /\ conn[c].task = NoTask
    BY <1>1, <1>3, <2>2 DEF AfterCall, HeldAfter
  <2>3. CASE pc[a] # "claiming"
    BY <1>1, <1>3, <2>3 DEF AfterCall, HeldAfter
  <2> QED BY <2>1, <2>2, <2>3
<1>5. conn[c].task \in TaskIds \cup {NoTask} /\ held[a] \in TaskIds \cup {NoTask}
  BY <1>1 DEF Calls, TypeOK
<1>6. TypeOK'
  BY <1>1, <1>2, <1>4, <1>5, IdleType, EngineAssumption
     DEF TypeOK, AgentSteps, table, budget, history
<1>7. CallOK(c)' /\ ~Handed(c)'
  BY <1>1, <1>2 DEF CallOK, Handed, Idle, TypeOK
<1>8. /\ held'[a] = NoTask \/ held'[a] = held[a] \/ (Handed(c) /\ held'[a] = conn[c].task)
      /\ pc'[a] \in {"announcing", "ready"} => runs[held'[a]] = 0
  BY <1>1, <1>4 DEF CustodyInv, TypeOK
<1>9. AgentOK(a)'
  BY <1>1, <1>2, <1>4 DEF AgentInv, AgentOK, CustodyInv, Handed, TypeOK, history
<1>10. /\ \A d \in Conns : d # c => conn'[d] = conn[d]
       /\ \A b \in Agents : b # a => pc'[b] = pc[b] /\ held'[b] = held[b] /\ wait'[b] = wait[b]
  BY <1>1, <1>2, <1>4 DEF TypeOK
<1> QED BY <1>1, <1>6, <1>7, <1>8, <1>9, <1>10, CallStep DEF history

LEMMA AttemptFailsInv ==
    ASSUME EngineInv, NEW a \in Agents, AttemptFails(a)
    PROVE  EngineInv'
<1> USE DEF EngineInv, AttemptFails
<1>0. PICK c \in Conns : c = wait[a]
  BY OneWaits
<1>1. /\ c \in Conns /\ conn[c] \in Calls /\ conn[c] # Idle
      /\ wait[a] = c /\ c # NoConn
      /\ \A b \in Agents : b # a => wait[b] # c
  BY <1>0, OneWaits, EngineAssumption
<1>2. /\ wait' = [wait EXCEPT ![a] = NoConn]
      /\ \/ conn' = [conn EXCEPT ![c] = Idle]
         \/ conn[c].phase \notin {"answered", "broken"} /\ conn' = conn
  BY <1>1
<1>3. faults' \in 0..MaxFaults
  BY EngineAssumption DEF TypeOK
<1>4. /\ attempt' \in [Agents -> 1..MaxAttempts]
      /\ \/ UNCHANGED <<pc, held>>
         \/ /\ held' = [held EXCEPT ![a] = NoTask] /\ pc' = [pc EXCEPT ![a] = "poll"]
         \/ /\ held' = [held EXCEPT ![a] = held[a]] /\ pc' = [pc EXCEPT ![a] = "ready"]
            /\ pc[a] = "announcing" /\ held[a] # NoTask
  <2>1. \/ pc[a] = "claiming" /\ held[a] = NoTask
        \/ pc[a] = "announcing" /\ held[a] # NoTask
        \/ pc[a] = "reporting"
    BY <1>1, EngineAssumption DEF AgentInv, AgentOK
  <2>2. CASE attempt[a] > 1
    BY <2>2, EngineAssumption DEF TypeOK
  <2>3. CASE ~(attempt[a] > 1)
    BY <2>1, <2>3, EngineAssumption DEF TypeOK, AfterCall, HeldAfter
  <2> QED BY <2>2, <2>3
<1>5. held[a] \in TaskIds \cup {NoTask} /\ held \in [Agents -> TaskIds \cup {NoTask}]
  BY DEF TypeOK
<1>6. TypeOK'
  BY <1>1, <1>2, <1>3, <1>4, <1>5, IdleType, EngineAssumption
     DEF TypeOK, AgentSteps, table, history
<1>7. CallOK(c)' /\ ~Handed(c)'
  <2>1. CASE conn' = [conn EXCEPT ![c] = Idle]
    BY <1>1, <2>1 DEF CallOK, Handed, Idle, TypeOK
  <2>2. CASE conn[c].phase \notin {"answered", "broken"} /\ conn' = conn
    BY <1>1, <2>2 DEF CallInv, CallOK, Handed, history, table
  <2> QED BY <1>2, <2>1, <2>2
<1>8. /\ held'[a] = NoTask \/ held'[a] = held[a]
      /\ pc'[a] \in {"announcing", "ready"} => runs[held'[a]] = 0
  BY <1>1, <1>4 DEF CustodyInv, TypeOK
<1>9. AgentOK(a)'
  BY <1>1, <1>2, <1>4 DEF AgentInv, AgentOK, TypeOK, history
<1>10. /\ \A d \in Conns : d # c => conn'[d] = conn[d]
       /\ \A b \in Agents : b # a => pc'[b] = pc[b] /\ held'[b] = held[b] /\ wait'[b] = wait[b]
  BY <1>1, <1>2, <1>4 DEF TypeOK
<1> QED BY <1>1, <1>6, <1>7, <1>8, <1>9, <1>10, CallStep DEF history

LEMMA AgentCrashInv ==
    ASSUME EngineInv, NEW a \in Agents, AgentCrash(a)
    PROVE  EngineInv'
<1> USE DEF EngineInv, AgentCrash
<1>1. /\ wait' = [wait EXCEPT ![a] = NoConn] /\ pc' = [pc EXCEPT ![a] = "down"]
      /\ held' = [held EXCEPT ![a] = NoTask]
      /\ crashes' \in 0..MaxCrashes
  BY EngineAssumption DEF TypeOK
<1>2. AgentOK(a)'
  BY <1>1 DEF AgentOK, TypeOK
<1>3. \A b \in Agents : b # a => pc'[b] = pc[b] /\ held'[b] = held[b] /\ wait'[b] = wait[b]
  BY <1>1 DEF TypeOK
<1>4. held'[a] = NoTask /\ pc'[a] = "down"
  BY <1>1 DEF TypeOK
<1>5. CASE wait[a] # NoConn
  <2>0. PICK c \in Conns : c = wait[a]
    BY <1>5, OneWaits
  <2>1. /\ c \in Conns /\ conn[c] \in Calls /\ conn[c] # Idle
        /\ \A b \in Agents : b # a => wait[b] # c
    BY <1>5, <2>0, OneWaits
  <2>2. \/ conn' = [conn EXCEPT ![c] = Idle]
        \/ conn[c].phase \notin {"answered", "broken"} /\ conn' = conn
    BY <1>5, <2>0
  <2>3. conn' \in [Conns -> Calls] /\ \A d \in Conns : d # c => conn'[d] = conn[d]
    BY <2>1, <2>2, IdleType DEF TypeOK
  <2>4. TypeOK'
    BY <1>1, <2>3 DEF TypeOK, AgentSteps, table, history
  <2>5. CallOK(c)' /\ ~Handed(c)'
    <3>1. CASE conn' = [conn EXCEPT ![c] = Idle]
      BY <2>1, <3>1 DEF CallOK, Handed, Idle, TypeOK
    <3>2. CASE conn[c].phase \notin {"answered", "broken"} /\ conn' = conn
      BY <2>1, <3>2 DEF CallInv, CallOK, Handed, history, table
    <3> QED BY <2>2, <3>1, <3>2
  <2> QED BY <1>2, <1>3, <1>4, <2>1, <2>3, <2>4, <2>5, CallStep DEF history
<1>6. CASE wait[a] = NoConn
  <2> USE DEF table, history
  <2>1. conn' = conn
    BY <1>6
  <2>2. TypeOK'
    BY <1>1, <2>1 DEF TypeOK, AgentSteps
  <2>3. TableInv' /\ RunsAtMostOnce'
    BY DEF TableInv, RunsAtMostOnce
  <2>4. lastId <= lastId' /\ \A t \in TaskIds : claims[t] <= claims'[t]
    BY EngineAssumption DEF TypeOK
  <2>5. CallInv'
    BY <2>1, <2>2, <2>4, CallKept DEF CallInv
  <2>6. AgentInv'
    BY <1>2, <1>3, <2>1, <2>2, <2>4, AgentKept DEF AgentInv
  <2>7. CustodyInv'
    <3>1. \A d \in Conns : Handed(d)' <=> Handed(d)
      BY <2>1 DEF Handed
    <3>2. \A d \in Conns : Handed(d) => conn[d].task # NoTask
      BY DEF Handed
    <3> QED BY <1>3, <1>4, <2>1, <3>1, <3>2 DEF CustodyInv
  <2> QED BY <2>2, <2>3, <2>5, <2>6, <2>7
<1> QED BY <1>5, <1>6

LEMMA NextInv ==
    ASSUME EngineInv, [Next]_vars
    PROVE  EngineInv'
<1>1. CASE Console
  BY <1>1, CreateTaskInv, RotateServerTokenInv, DeleteTaskInv, UpdateTaskStateInv, RetryReadInv
     DEF Console, ManualStates
<1>2. ASSUME NEW c \in Conns, Handle(c) PROVE EngineInv'
  BY <1>2, ClaimRejectedInv, ClaimSelectInv, MarkTaskClaimedInv, ReportReadInv,
     ReportWriteInv, RetrySaveInv DEF Handle
<1>3. ASSUME NEW a \in Agents, AgentStep(a) PROVE EngineInv'
  BY <1>3, PollInv, PostInv, ReceiveInv, StartScriptInv, FinishScriptInv, AgentRestartInv
     DEF AgentStep
<1>4. CASE Fault
  BY <1>4, MasterRestartInv, AttemptFailsInv, AgentCrashInv DEF Fault
<1>5. CASE UNCHANGED vars
  <2> USE <1>5 DEF vars, table, agent, budget, history
  <2>1. TypeOK' /\ TableInv' /\ CallInv' /\ AgentInv'
    BY DEF EngineInv, TypeOK, TableInv, CallInv, CallOK, AgentInv, AgentOK
  <2>2. CustodyInv' /\ RunsAtMostOnce'
    BY DEF EngineInv, CustodyInv, Handed, RunsAtMostOnce
  <2> QED BY <2>1, <2>2 DEF EngineInv
<1> QED BY <1>1, <1>2, <1>3, <1>4, <1>5 DEF Next

(* Tables, calls, agents and the custody of a task agree at every moment.   *)
THEOREM EngineInvariant == Safe => []EngineInv
<1>1. Init => EngineInv
  BY InitInv
<1>2. EngineInv /\ [Next]_vars => EngineInv'
  BY NextInv
<1> QED BY <1>1, <1>2, PTL DEF Safe

(* Every variable keeps its type: no report writes a state the console     *)
(* could not, no row is without a server, no counter leaves its bound.     *)
THEOREM TypeCorrect == Safe => []TypeOK
<1>1. EngineInv => TypeOK
  BY DEF EngineInv
<1> QED BY <1>1, EngineInvariant, PTL

(* However many agents share a server, however often claims are repeated   *)
(* and whatever crashes: no task is handed out twice, no script runs twice. *)
THEOREM AtMostOnce == Safe => []RunsAtMostOnce
<1>1. EngineInv => RunsAtMostOnce
  BY DEF EngineInv
<1> QED BY <1>1, EngineInvariant, PTL

(* A task in the queue is known to nobody outside it.                      *)
THEOREM QueuedUntouched == Safe => []QueuedIsUntouched
<1>1. EngineInv => QueuedIsUntouched
  <2> SUFFICES ASSUME EngineInv, NEW t \in TaskIds, state[t] = "generated"
               PROVE  /\ claims[t] = 0 /\ runs[t] = 0
                      /\ \A a \in Agents : held[a] # t
                      /\ \A c \in Conns : conn[c].op = "report" => conn[c].task # t
    BY DEF QueuedIsUntouched
  <2> USE DEF EngineInv
  <2>1. claims[t] = 0 /\ ~(claims[t] > 0) /\ t # NoTask
    BY EngineAssumption DEF CustodyInv, TaskIds, NoTask
  <2>2. runs[t] = 0
    BY <2>1 DEF RunsAtMostOnce, TypeOK
  <2>3. \A a \in Agents : held[a] # t
    BY <2>1 DEF AgentInv, AgentOK
  <2>4. \A c \in Conns : conn[c].op = "report" => conn[c].task # t
    BY <2>1 DEF CallInv, CallOK, Idle
  <2> QED BY <2>1, <2>2, <2>3, <2>4
<1> QED BY <1>1, EngineInvariant, PTL
-----------------------------------------------------------------------------
(* Truthful verdicts.                                                      *)

(* A call that answers is no report to be written, and no retry.           *)
LEMMA AnswerCalls ==
    ASSUME TypeOK, NEW c \in Conns, NEW t \in TaskIds \cup {NoTask}, Answer(c, t),
           conn[c].op \in {"claim", "report"}, NEW d \in Conns
    PROVE  /\ conn'[d].op = "retry" => conn'[d] = conn[d]
           /\ Reporting(d)' => conn'[d] = conn[d]
<1>1. /\ \A e \in Conns : e # c => conn'[e] = conn[e]
      /\ Answered(c, t)
  BY AnswerFacts DEF TypeOK
<1>2. CASE d = c
  BY <1>1, <1>2 DEF Answered, Reporting, Idle
<1> QED BY <1>1, <1>2

(* A step that lets no script start or end and makes no report or retry.   *)
LEMMA TruthKept ==
    ASSUME TruthInv, UNCHANGED <<runs, outcome>>,
           "update" \notin ConsoleOps =>
              \A t \in TaskIds : state'[t] \in Finished => state'[t] \in {state[t], outcome[t]},
           \A c \in Conns : conn'[c].op = "retry" => conn'[c] = conn[c],
           \A c \in Conns : Reporting(c)' => conn[c].op = "report"
                                             /\ conn[c].phase \in {"sent", "admitted"}
                                             /\ conn'[c].task = conn[c].task
                                             /\ conn'[c].state = conn[c].state,
           \A a \in Agents : pc'[a] \in {"reporting", "executing"} =>
              pc'[a] = pc[a] /\ held'[a] = held[a] /\ verdict'[a] = verdict[a]
    PROVE  TruthInv'
<1>1. TruthfulVerdict'
  BY DEF TruthInv, TruthfulVerdict
<1>2. ASSUME NEW c \in Conns, Reporting(c)'
      PROVE  conn'[c].state = "running" \/ conn'[c].state = outcome'[conn'[c].task]
  BY <1>2 DEF TruthInv, Reporting
<1>3. ASSUME NEW a \in Agents
      PROVE  /\ pc'[a] = "reporting" => verdict'[a] = outcome'[held'[a]]
             /\ pc'[a] = "executing" => outcome'[held'[a]] = "none" /\ runs'[held'[a]] # 0
  BY DEF TruthInv
<1>4. \A t \in TaskIds : runs'[t] = 0 => outcome'[t] = "none"
  BY DEF TruthInv
<1> QED BY <1>1, <1>2, <1>3, <1>4 DEF TruthInv

(* A retry that begins opens a call of its own.                            *)
LEMMA RetryCall ==
    ASSUME TypeOK, NEW c \in Conns, NEW t \in TaskIds, RetryRead(c, t)
    PROVE  /\ UNCHANGED <<table, agent, budget, history>>
           /\ conn'[c].op = "retry" /\ conn'[c].phase = "chosen" /\ conn'[c].task = t
           /\ \A d \in Conns : d # c => conn'[d] = conn[d]
<1>1. PICK e : e = [Idle EXCEPT !.op = "retry", !.phase = "chosen", !.task = t]
  OBVIOUS
<1>2. e.op = "retry" /\ e.phase = "chosen" /\ e.task = t
  BY <1>1 DEF Idle
<1>3. conn' = [conn EXCEPT ![c] = e] /\ UNCHANGED <<table, agent, budget, history>>
  BY <1>1 DEF RetryRead
<1> QED BY <1>2, <1>3 DEF TypeOK

LEMMA TruthConsole ==
    ASSUME EngineInv, TruthInv, Console
    PROVE  TruthInv'
<1> USE DEF EngineInv, agent, history
<1>1. ASSUME NEW s \in Servers, CreateTask(s) PROVE TruthInv'
  <2>1. conn' = conn /\ UNCHANGED <<agent, runs, outcome>>
    BY <1>1 DEF CreateTask
  <2>2. \A t \in TaskIds : state'[t] \in Finished => state'[t] = state[t]
    BY <1>1 DEF CreateTask, InsertRow, Finished, TypeOK
  <2> QED BY <2>1, <2>2, TruthKept DEF Reporting
<1>2. ASSUME NEW s \in Servers, RotateServerToken(s) PROVE TruthInv'
  BY <1>2, TruthKept DEF RotateServerToken, table, Reporting
<1>3. ASSUME NEW t \in TaskIds, DeleteTask(t) PROVE TruthInv'
  <2>1. \A u \in TaskIds : state'[u] \in Finished => state'[u] = state[u]
    BY <1>3 DEF DeleteTask, Finished, TypeOK
  <2> QED BY <1>3, <2>1, TruthKept DEF DeleteTask, Reporting
<1>4. ASSUME NEW t \in TaskIds, NEW v \in ManualStates, UpdateTaskState(t, v) PROVE TruthInv'
  <2>1. "update" \in ConsoleOps
    BY DEF ManualStates
  <2> QED BY <1>4, <2>1, TruthKept DEF UpdateTaskState, Reporting
<1>5. ASSUME NEW c \in Conns, NEW t \in TaskIds, RetryRead(c, t) PROVE TruthInv'
  <2>1. UNCHANGED <<state, agent, runs, outcome>>
    BY <1>5, RetryCall DEF table
  <2>2. /\ \A d \in Conns : d # c => conn'[d] = conn[d]
        /\ conn'[c].op = "retry" /\ conn'[c].task = t
    BY <1>5, RetryCall
  <2>3. "update" \notin ConsoleOps => outcome[t] = "failed"
    BY <1>5 DEF RetryRead, Retryable, TruthInv, TruthfulVerdict, Finished, TypeOK
  <2>4. TruthfulVerdict'
    BY <2>1, <2>2, <2>3 DEF TruthInv, TruthfulVerdict
  <2>5. ASSUME NEW d \in Conns, Reporting(d)'
        PROVE  conn'[d].state = "running" \/ conn'[d].state = outcome'[conn'[d].task]
    BY <2>1, <2>2, <2>5 DEF TruthInv, Reporting
  <2>6. ASSUME NEW a \in Agents
        PROVE  /\ pc'[a] = "reporting" => verdict'[a] = outcome'[held'[a]]
               /\ pc'[a] = "executing" => outcome'[held'[a]] = "none" /\ runs'[held'[a]] # 0
    BY <2>1 DEF TruthInv
  <2>7. \A u \in TaskIds : runs'[u] = 0 => outcome'[u] = "none"
    BY <2>1 DEF TruthInv
  <2> QED BY <2>4, <2>5, <2>6, <2>7 DEF TruthInv
<1> QED BY <1>1, <1>2, <1>3, <1>4, <1>5 DEF Console

LEMMA TruthHandle ==
    ASSUME EngineInv, TruthInv, NEW c \in Conns, Handle(c)
    PROVE  TruthInv'
<1> USE DEF EngineInv, agent, history
<1>1. CASE ClaimRejected(c)
  BY <1>1, TruthKept, AnswerCalls DEF ClaimRejected, table, Reporting
<1>2. CASE ClaimSelect(c)
  <2>1. UNCHANGED <<state, agent, runs, outcome>> /\ conn[c].op = "claim"
    BY <1>2 DEF ClaimSelect, table
  <2>2. CASE Answer(c, NoTask)
    BY <2>1, <2>2, TruthKept, AnswerCalls DEF Reporting
  <2>3. CASE \E t \in TaskIds : conn' = [conn EXCEPT ![c].phase = "chosen", ![c].task = t]
    <3>1. conn'[c].op = "claim" /\ \A d \in Conns : d # c => conn'[d] = conn[d]
      BY <2>1, <2>3 DEF TypeOK, Calls
    <3> QED BY <2>1, <3>1, TruthKept DEF Reporting
  <2> QED BY <1>2, <2>2, <2>3 DEF ClaimSelect, Queue
<1>3. CASE MarkTaskClaimed(c)
  <2>1. UNCHANGED <<agent, runs, outcome>> /\ conn[c].op = "claim"
        /\ conn[c].task \in TaskIds \cup {NoTask}
    BY <1>3 DEF MarkTaskClaimed, TypeOK, Calls
  <2>2. \A t \in TaskIds : state'[t] \in Finished => state'[t] = state[t]
    BY <1>3 DEF MarkTaskClaimed, Finished, TypeOK
  <2>3. CASE \E t \in TaskIds \cup {NoTask} : Answer(c, t)
    BY <2>1, <2>2, <2>3, TruthKept, AnswerCalls DEF Reporting
  <2>4. CASE conn' = [conn EXCEPT ![c].phase = "again", ![c].task = NoTask,
                                  ![c].tries = conn[c].tries - 1]
    <3>1. conn'[c].op = "claim" /\ \A d \in Conns : d # c => conn'[d] = conn[d]
      BY <2>1, <2>4 DEF TypeOK, Calls
    <3> QED BY <2>1, <2>2, <3>1, TruthKept DEF Reporting
  <2> QED BY <1>3, <2>1, <2>3, <2>4 DEF MarkTaskClaimed
<1>4. CASE ReportRead(c)
  <2>1. UNCHANGED <<state, agent, runs, outcome>> /\ conn[c].op = "report" /\ conn[c].phase = "sent"
    BY <1>4 DEF ReportRead, table
  <2>2. CASE Answer(c, NoTask)
    BY <2>1, <2>2, TruthKept, AnswerCalls DEF Reporting
  <2>3. CASE conn' = [conn EXCEPT ![c].phase = "admitted"]
    <3>1. /\ conn'[c].op = "report" /\ conn'[c].task = conn[c].task
          /\ conn'[c].state = conn[c].state
          /\ \A d \in Conns : d # c => conn'[d] = conn[d]
      BY <2>1, <2>3 DEF TypeOK, Calls
    <3> QED BY <2>1, <3>1, TruthKept DEF Reporting
  <2> QED BY <1>4, <2>2, <2>3 DEF ReportRead
<1>5. CASE ReportWrite(c)
  <2>1. UNCHANGED <<agent, runs, outcome>> /\ Reporting(c) /\ Answer(c, NoTask)
    BY <1>5 DEF ReportWrite, Reporting
  <2>2. conn[c].state = "running" \/ conn[c].state = outcome[conn[c].task]
    BY <2>1 DEF TruthInv
  <2>3. \A t \in TaskIds : state'[t] \in Finished => state'[t] \in {state[t], outcome[t]}
    BY <1>5, <2>2 DEF ReportWrite, WriteState, Finished, TypeOK
  <2> QED BY <2>1, <2>3, TruthKept, AnswerCalls DEF Reporting
<1>6. CASE RetrySave(c)
  <2>1. UNCHANGED <<agent, runs, outcome>> /\ conn' = [conn EXCEPT ![c] = Idle]
    BY <1>6 DEF RetrySave
  <2>2. \A t \in TaskIds : state'[t] \in Finished => state'[t] = state[t]
    BY <1>6 DEF RetrySave, InsertRow, table, Finished, TypeOK
  <2>3. conn'[c] = Idle /\ \A d \in Conns : d # c => conn'[d] = conn[d]
    BY <2>1 DEF TypeOK
  <2> QED BY <2>1, <2>2, <2>3, TruthKept DEF Reporting, Idle
<1> QED BY <1>1, <1>2, <1>3, <1>4, <1>5, <1>6 DEF Handle

(* The states of a call that disappears or stays.                          *)
LEMMA CallGoes ==
    ASSUME TypeOK, NEW c \in Conns, conn' = conn \/ conn' = [conn EXCEPT ![c] = Idle],
           NEW d \in Conns
    PROVE  /\ conn'[d].op = "retry" => conn'[d] = conn[d]
           /\ Reporting(d)' => conn'[d] = conn[d]
           /\ conn'[d] = conn[d] \/ conn'[d] = Idle
  BY DEF TypeOK, Reporting, Idle

LEMMA TruthAgent ==
    ASSUME EngineInv, TruthInv, NEW a \in Agents, AgentStep(a)
    PROVE  TruthInv'
<1> USE DEF EngineInv, table, history
<1>1. CASE Poll(a)
  BY <1>1, TruthKept DEF Poll, TypeOK, Reporting
<1>2. CASE AgentRestart(a)
  BY <1>2, TruthKept DEF AgentRestart, TypeOK, Reporting
<1>3. ASSUME NEW c \in Conns, Post(a, c) PROVE TruthInv'
  <2>1. /\ conn' = [conn EXCEPT ![c] = Request(a)] /\ UNCHANGED <<state, pc, held, verdict, runs, outcome>>
        /\ pc[a] \in {"claiming", "announcing", "reporting"}
    BY <1>3 DEF Post
  <2>2. /\ \A d \in Conns : d # c => conn'[d] = conn[d]
        /\ conn'[c] = Request(a)
    BY <2>1 DEF TypeOK
  <2>3. /\ conn'[c].op # "retry"
        /\ conn'[c].op = "report" => \/ conn'[c].state = "running"
                                     \/ /\ pc[a] = "reporting" /\ conn'[c].state = verdict[a]
                                        /\ conn'[c].task = held[a]
    <3>1. CASE pc[a] = "claiming"
      BY <2>2, <3>1 DEF Request, Idle
    <3>2. CASE pc[a] = "announcing"
      BY <2>2, <3>2 DEF Request, Idle
    <3>3. CASE pc[a] = "reporting"
      BY <2>2, <3>3 DEF Request, Idle
    <3> QED BY <2>1, <3>1, <3>2, <3>3
  <2>4. TruthfulVerdict'
    BY <2>1, <2>2, <2>3 DEF TruthInv, TruthfulVerdict
  <2>5. ASSUME NEW d \in Conns, Reporting(d)'
        PROVE  conn'[d].state = "running" \/ conn'[d].state = outcome'[conn'[d].task]
    BY <2>1, <2>2, <2>3, <2>5 DEF TruthInv, Reporting
  <2>6. ASSUME NEW b \in Agents
        PROVE  /\ pc'[b] = "reporting" => verdict'[b] = outcome'[held'[b]]
               /\ pc'[b] = "executing" => outcome'[held'[b]] = "none" /\ runs'[held'[b]] # 0
    BY <2>1 DEF TruthInv
  <2>7. \A u \in TaskIds : runs'[u] = 0 => outcome'[u] = "none"
    BY <2>1 DEF TruthInv
  <2> QED BY <2>4, <2>5, <2>6, <2>7 DEF TruthInv
<1>4. CASE Receive(a)
  <2>1. PICK c \in Conns : c = wait[a]
    BY <1>4, OneWaits DEF Receive
  <2>2. conn' = [conn EXCEPT ![c] = Idle] /\ UNCHANGED <<state, verdict, runs, outcome>>
    BY <1>4, <2>1 DEF Receive
  <2>3. \A b \in Agents : pc'[b] \in {"reporting", "executing"} => pc'[b] = pc[b] /\ held'[b] = held[b]
    <3>1. pc[a] \in {"claiming", "announcing", "reporting"}
      BY <1>4 DEF Receive, AgentInv, AgentOK
    <3>2. pc'[a] \in {"announcing", "poll", "ready"}
      BY <1>4, <3>1 DEF Receive, AfterCall, TypeOK
    <3>3. \A b \in Agents : b # a => pc'[b] = pc[b] /\ held'[b] = held[b]
      BY <1>4 DEF Receive, TypeOK
    <3> QED BY <3>2, <3>3
  <2> QED BY <2>2, <2>3, CallGoes, TruthKept DEF Reporting
<1>5. CASE StartScript(a)
  <2>1. /\ pc[a] = "ready" /\ held[a] \in TaskIds /\ outcome[held[a]] = "none"
        /\ UNCHANGED <<state, conn, held, verdict, outcome>>
    BY <1>5 DEF StartScript, AgentInv, AgentOK, CustodyInv, TruthInv, TypeOK, NoTask
  <2>2. /\ \A b \in Agents : pc'[b] = pc[b] \/ (b = a /\ pc'[b] = "executing")
        /\ \A t \in TaskIds : runs'[t] = 0 => runs[t] = 0
        /\ \A b \in Agents : pc[b] = "executing" => held[b] \in TaskIds
        /\ runs'[held[a]] # 0
    BY <1>5, <2>1 DEF StartScript, AgentInv, AgentOK, TypeOK
  <2>3. TruthfulVerdict'
    BY <2>1 DEF TruthInv, TruthfulVerdict
  <2>4. \A d \in Conns : Reporting(d)' =>
           conn'[d].state = "running" \/ conn'[d].state = outcome'[conn'[d].task]
    BY <2>1 DEF TruthInv, Reporting
  <2>5. ASSUME NEW b \in Agents
        PROVE  /\ pc'[b] = "reporting" => verdict'[b] = outcome'[held'[b]]
               /\ pc'[b] = "executing" => outcome'[held'[b]] = "none" /\ runs'[held'[b]] # 0
    BY <2>1, <2>2 DEF TruthInv
  <2>6. \A u \in TaskIds : runs'[u] = 0 => outcome'[u] = "none"
    BY <2>1, <2>2 DEF TruthInv
  <2> QED BY <2>3, <2>4, <2>5, <2>6 DEF TruthInv
<1>6. ASSUME NEW v \in {"succeeded", "failed"}, FinishScript(a, v) PROVE TruthInv'
  <2> DEFINE t == held[a]
  <2>1. /\ pc[a] = "executing" /\ t \in TaskIds /\ t # NoTask /\ outcome[t] = "none"
        /\ UNCHANGED <<state, conn, held, runs>>
    BY <1>6 DEF FinishScript, AgentInv, AgentOK, TruthInv, TypeOK, NoTask
  <2>3. /\ outcome' = [outcome EXCEPT ![t] = v]
        /\ pc' = [pc EXCEPT ![a] = "reporting"] /\ verdict' = [verdict EXCEPT ![a] = v]
    BY <1>6 DEF FinishScript
  <2>4. /\ outcome'[t] = v /\ \A u \in TaskIds : u # t => outcome'[u] = outcome[u]
        /\ pc'[a] = "reporting" /\ verdict'[a] = v
        /\ \A b \in Agents : b # a => pc'[b] = pc[b] /\ verdict'[b] = verdict[b]
    BY <2>1, <2>3 DEF TypeOK
  <2>5. TruthfulVerdict'
    <3> SUFFICES ASSUME "update" \notin ConsoleOps
                 PROVE  /\ \A u \in TaskIds : state[u] \in Finished => outcome'[u] = state[u]
                        /\ \A c \in Conns : conn[c].op = "retry" => outcome'[conn[c].task] = "failed"
      BY <2>1 DEF TruthfulVerdict
    <3>1. ASSUME NEW u \in TaskIds, state[u] \in Finished PROVE u # t /\ outcome[u] = state[u]
      BY <2>1, <3>1 DEF TruthInv, TruthfulVerdict, Finished
    <3>2. ASSUME NEW c \in Conns, conn[c].op = "retry"
          PROVE  conn[c].task # t /\ conn[c].task \in TaskIds /\ outcome[conn[c].task] = "failed"
      <4>1. outcome[conn[c].task] = "failed"
        BY <3>2 DEF TruthInv, TruthfulVerdict
      <4>2. conn[c].task \in 1..lastId /\ lastId \in 0..MaxTasks
        BY <3>2 DEF CallInv, CallOK, Idle, TypeOK
      <4>3. conn[c].task \in TaskIds
        BY <4>2, EngineAssumption DEF TaskIds
      <4> QED BY <2>1, <4>1, <4>3
    <3> QED BY <2>4, <3>1, <3>2
  <2>6. ASSUME NEW d \in Conns, Reporting(d)'
        PROVE  conn'[d].state = "running" \/ conn'[d].state = outcome'[conn'[d].task]
    <3>1. Reporting(d) /\ conn'[d] = conn[d] /\ conn[d].state # "none"
          /\ conn[d].task \in TaskIds
      <4>1. Reporting(d) /\ conn'[d] = conn[d]
        BY <2>1, <2>6 DEF Reporting
      <4>2. conn[d] \in Calls
        BY DEF TypeOK
      <4> QED BY <4>1, <4>2 DEF Reporting, CallInv, CallOK, Idle, Calls
    <3> QED BY <2>1, <2>4, <3>1 DEF TruthInv
  <2>7. ASSUME NEW b \in Agents
        PROVE  /\ pc'[b] = "reporting" => verdict'[b] = outcome'[held'[b]]
               /\ pc'[b] = "executing" => outcome'[held'[b]] = "none" /\ runs'[held'[b]] # 0
    <3>1. CASE b = a
      BY <2>1, <2>4, <3>1
    <3>2. CASE b # a /\ pc[b] \in {"reporting", "executing"}
      <4>1. held[b] \in TaskIds /\ held[b] # t
        BY <2>1, <3>2 DEF AgentInv, AgentOK, CustodyInv, TypeOK
      <4> QED BY <2>1, <2>4, <3>2, <4>1 DEF TruthInv
    <3> QED BY <2>4, <3>1, <3>2
  <2>8. \A u \in TaskIds : runs'[u] = 0 => outcome'[u] = "none"
    BY <2>1, <2>4 DEF TruthInv
  <2> QED BY <2>5, <2>6, <2>7, <2>8 DEF TruthInv
<1> QED BY <1>1, <1>2, <1>3, <1>4, <1>5, <1>6 DEF AgentStep

LEMMA TruthFault ==
    ASSUME EngineInv, TruthInv, Fault
    PROVE  TruthInv'
<1> USE DEF EngineInv, table, agent, history
<1>1. CASE MasterRestart
  <2>1. \A c \in Conns : conn'[c].op # "retry" /\ ~Reporting(c)'
    BY <1>1, RestartCalls DEF Idle, Reporting
  <2> QED BY <1>1, <2>1, TruthKept DEF MasterRestart
<1>2. ASSUME NEW a \in Agents, AttemptFails(a) PROVE TruthInv'
  <2>1. PICK c \in Conns : c = wait[a]
    BY <1>2, OneWaits DEF AttemptFails
  <2>2. (conn' = conn \/ conn' = [conn EXCEPT ![c] = Idle]) /\ UNCHANGED <<state, verdict, runs, outcome>>
    BY <1>2, <2>1 DEF AttemptFails
  <2>3. \A b \in Agents : pc'[b] \in {"reporting", "executing"} => pc'[b] = pc[b] /\ held'[b] = held[b]
    <3>1. pc[a] \in {"claiming", "announcing", "reporting"}
      BY <1>2 DEF AttemptFails, AgentInv, AgentOK
    <3>2. pc'[a] \in {"poll", "ready"} \/ UNCHANGED <<pc, held>>
      BY <1>2, <3>1 DEF AttemptFails, AfterCall, TypeOK
    <3>3. \A b \in Agents : b # a => pc'[b] = pc[b] /\ held'[b] = held[b]
      BY <1>2 DEF AttemptFails, TypeOK
    <3> QED BY <3>2, <3>3
  <2> QED BY <2>2, <2>3, CallGoes, TruthKept DEF Reporting
<1>3. ASSUME NEW a \in Agents, AgentCrash(a) PROVE TruthInv'
  <2>1. UNCHANGED <<state, verdict, runs, outcome>>
    BY <1>3 DEF AgentCrash
  <2>2. \A b \in Agents : pc'[b] \in {"reporting", "executing"} => pc'[b] = pc[b] /\ held'[b] = held[b]
    BY <1>3 DEF AgentCrash, TypeOK
  <2>3. \A d \in Conns : conn'[d] = conn[d] \/ conn'[d] = Idle
    BY <1>3 DEF AgentCrash, TypeOK
  <2> QED BY <2>1, <2>2, <2>3, TruthKept DEF Reporting, Idle
<1> QED BY <1>1, <1>2, <1>3 DEF Fault

LEMMA InitTruth == Init => TruthInv
  BY DEF Init, TruthInv, TruthfulVerdict, Reporting, Idle, Finished

LEMMA NextTruth ==
    ASSUME EngineInv, TruthInv, [Next]_vars
    PROVE  TruthInv'
<1>1. CASE UNCHANGED vars
  BY <1>1 DEF vars, table, agent, budget, history, TruthInv, TruthfulVerdict, Reporting
<1> QED BY <1>1, TruthConsole, TruthHandle, TruthAgent, TruthFault DEF Next

(* Whatever is lost, repeated, late or crashes: a recorded success or      *)
(* failure is the exit status of the only run, and only failed tasks are   *)
(* retried, unless the console sets states itself.                         *)
THEOREM VerdictsAreTrue == Safe => []TruthfulVerdict
<1>1. TruthInv => TruthfulVerdict
  BY DEF TruthInv
<1> QED BY <1>1, InitInv, NextInv, InitTruth, NextTruth, PTL DEF Safe

-----------------------------------------------------------------------------
(* Final verdicts.                                                         *)

(* An undisturbed agent waits while its report is being written.           *)
LEMMA Patient ==
    ASSUME EngineInv, PatienceInv, faults = 0, crashes = 0, NEW c \in Conns, Reporting(c)
    PROVE  /\ conn[c].agent \in Agents /\ wait[conn[c].agent] = c
           /\ pc[conn[c].agent] \in {"announcing", "reporting"}
<1>1. conn[c].agent \in Agents /\ wait[conn[c].agent] = c /\ c # NoConn
  BY EngineAssumption DEF PatienceInv, Reporting, EngineInv, CallInv, CallOK, Idle
<1>2. conn[c].op = "report"
  BY DEF Reporting
<1> QED BY <1>1, <1>2 DEF EngineInv, AgentInv, AgentOK

(* A step that makes no report and moves no agent that waits for one.      *)
LEMMA PatienceKept ==
    ASSUME PatienceInv, UNCHANGED budget,
           \A c \in Conns : conn'[c].phase = "broken" => conn[c].phase = "broken",
           \A c \in Conns : Reporting(c)' => Reporting(c) /\ conn'[c].agent = conn[c].agent
                                             /\ conn'[c].task = conn[c].task
                                             /\ conn'[c].state = conn[c].state,
           faults = 0 /\ crashes = 0 => \A c \in Conns : Reporting(c)' =>
              /\ pc'[conn[c].agent] = pc[conn[c].agent]
              /\ held'[conn[c].agent] = held[conn[c].agent]
              /\ wait'[conn[c].agent] = wait[conn[c].agent]
    PROVE  PatienceInv'
  BY DEF PatienceInv, budget

(* The call on c goes on, ends, or is answered; no other call changes.     *)
LEMMA HandledCalls ==
    ASSUME EngineInv, NEW c \in Conns, Handle(c), NEW d \in Conns
    PROVE  /\ UNCHANGED <<agent, budget>>
           /\ conn'[d].phase = "broken" => conn[d].phase = "broken"
           /\ Reporting(d)' => /\ Reporting(d) /\ conn'[d].agent = conn[d].agent
                               /\ conn'[d].task = conn[d].task /\ conn'[d].state = conn[d].state
<1> USE DEF EngineInv
<1>1. UNCHANGED <<agent, budget>>
  BY DEF Handle, ClaimRejected, ClaimSelect, MarkTaskClaimed, ReportRead, ReportWrite, RetrySave
<1>2. conn[c] \in Calls /\ conn \in [Conns -> Calls]
  BY DEF TypeOK
<1>3. \/ \E t \in TaskIds \cup {NoTask} : Answer(c, t) /\ conn[c].op \in {"claim", "report"}
      \/ conn' = [conn EXCEPT ![c] = Idle]
      \/ /\ conn[c].op = "claim"
         /\ \E t \in TaskIds : conn' = [conn EXCEPT ![c].phase = "chosen", ![c].task = t]
      \/ /\ conn[c].op = "claim"
         /\ conn' = [conn EXCEPT ![c].phase = "again", ![c].task = NoTask,
                                 ![c].tries = conn[c].tries - 1]
      \/ /\ conn[c].op = "report" /\ conn[c].phase = "sent"
         /\ conn' = [conn EXCEPT ![c].phase = "admitted"]
  <2>1. conn[c].task \in TaskIds \cup {NoTask}
    BY <1>2 DEF Calls
  <2>2. CASE ClaimRejected(c)
    BY <2>2 DEF ClaimRejected
  <2>3. CASE ClaimSelect(c)
    BY <2>3 DEF ClaimSelect, Queue
  <2>4. CASE MarkTaskClaimed(c)
    BY <2>1, <2>4 DEF MarkTaskClaimed
  <2>5. CASE ReportRead(c)
    BY <2>5 DEF ReportRead
  <2>6. CASE ReportWrite(c)
    BY <2>6 DEF ReportWrite
  <2>7. CASE RetrySave(c)
    BY <2>7 DEF RetrySave
  <2> QED BY <2>2, <2>3, <2>4, <2>5, <2>6, <2>7 DEF Handle
<1>4. ASSUME NEW t \in TaskIds \cup {NoTask}, Answer(c, t)
      PROVE  /\ conn'[d].phase = "broken" => conn[d].phase = "broken"
             /\ Reporting(d)' => conn'[d] = conn[d]
  <2>1. /\ \A e \in Conns : e # c => conn'[e] = conn[e]
        /\ Answered(c, t)
    BY <1>2, <1>4, AnswerFacts
  <2>2. CASE d = c
    BY <2>1, <2>2 DEF Answered, Reporting, Idle
  <2> QED BY <2>1, <2>2
<1>5. CASE conn' = [conn EXCEPT ![c] = Idle]
  BY <1>1, <1>2, <1>5 DEF Reporting, Idle
<1>6. ASSUME conn[c].op = "claim", NEW t \in TaskIds,
             conn' = [conn EXCEPT ![c].phase = "chosen", ![c].task = t]
      PROVE  /\ conn'[d].phase = "broken" => conn[d].phase = "broken"
             /\ Reporting(d)' => conn'[d] = conn[d]
  <2>1. conn'[c].op = "claim" /\ conn'[c].phase = "chosen"
        /\ \A e \in Conns : e # c => conn'[e] = conn[e]
    BY <1>2, <1>6 DEF Calls
  <2> QED BY <2>1 DEF Reporting
<1>7. ASSUME conn[c].op = "claim",
             conn' = [conn EXCEPT ![c].phase = "again", ![c].task = NoTask,
                                  ![c].tries = conn[c].tries - 1]
      PROVE  /\ conn'[d].phase = "broken" => conn[d].phase = "broken"
             /\ Reporting(d)' => conn'[d] = conn[d]
  <2>1. conn'[c].op = "claim" /\ conn'[c].phase = "again"
        /\ \A e \in Conns : e # c => conn'[e] = conn[e]
    BY <1>2, <1>7 DEF Calls
  <2> QED BY <2>1 DEF Reporting
<1>8. ASSUME conn[c].op = "report", conn[c].phase = "sent",
             conn' = [conn EXCEPT ![c].phase = "admitted"]
      PROVE  /\ conn'[d].phase = "broken" => conn[d].phase = "broken"
             /\ Reporting(d)' => /\ Reporting(d) /\ conn'[d].agent = conn[d].agent
                                 /\ conn'[d].task = conn[d].task /\ conn'[d].state = conn[d].state
  <2>1. /\ conn'[c].phase = "admitted" /\ conn'[c].agent = conn[c].agent
        /\ conn'[c].task = conn[c].task /\ conn'[c].state = conn[c].state
        /\ \A e \in Conns : e # c => conn'[e] = conn[e]
    BY <1>2, <1>8 DEF Calls
  <2>2. Reporting(c)
    BY <1>8 DEF Reporting
  <2>3. CASE d = c
    BY <2>1, <2>2, <2>3
  <2>4. CASE d # c
    BY <2>1, <2>4 DEF Reporting
  <2> QED BY <2>3, <2>4
<1>9. Reporting(d)' /\ conn'[d] = conn[d] => Reporting(d)
  BY DEF Reporting
<1> QED BY <1>1, <1>3, <1>4, <1>5, <1>6, <1>7, <1>8, <1>9

LEMMA NextPatience ==
    ASSUME EngineInv, PatienceInv, [Next]_vars
    PROVE  PatienceInv'
<1> USE DEF EngineInv, agent, history, table
<1>1. CASE Console
  <2>1. UNCHANGED <<agent, budget>>
    BY <1>1 DEF Console, CreateTask, RotateServerToken, DeleteTask, UpdateTaskState, RetryRead
  <2>2. \A d \in Conns : conn'[d] = conn[d] \/ (conn'[d].op = "retry" /\ conn'[d].phase = "chosen")
    <3>1. \/ conn' = conn
          \/ \E c \in Conns, t \in TaskIds : RetryRead(c, t)
      BY <1>1 DEF Console, CreateTask, RotateServerToken, DeleteTask, UpdateTaskState
    <3>2. ASSUME NEW c \in Conns, NEW t \in TaskIds, RetryRead(c, t), NEW d \in Conns
          PROVE  conn'[d] = conn[d] \/ (conn'[d].op = "retry" /\ conn'[d].phase = "chosen")
      BY <3>2, RetryCall
    <3> QED BY <3>1, <3>2
  <2> QED BY <2>1, <2>2, PatienceKept DEF Reporting
<1>2. ASSUME NEW c \in Conns, Handle(c) PROVE PatienceInv'
  BY <1>2, HandledCalls, PatienceKept
<1>3. ASSUME NEW a \in Agents, AgentStep(a) PROVE PatienceInv'
  <2>1. CASE Poll(a) \/ AgentRestart(a) \/ StartScript(a)
             \/ \E v \in {"succeeded", "failed"} : FinishScript(a, v)
    <3>1. /\ UNCHANGED <<conn, budget>> /\ pc[a] \notin {"announcing", "reporting"}
          /\ \A b \in Agents : b # a => pc'[b] = pc[b] /\ held'[b] = held[b] /\ wait'[b] = wait[b]
      BY <2>1 DEF Poll, AgentRestart, StartScript, FinishScript, TypeOK
    <3>2. faults = 0 /\ crashes = 0 => \A c \in Conns : Reporting(c) =>
             conn[c].agent \in Agents /\ conn[c].agent # a
      BY <3>1, Patient
    <3> QED BY <3>1, <3>2, PatienceKept DEF Reporting
  <2>2. ASSUME NEW c \in Conns, Post(a, c) PROVE PatienceInv'
    <3>1. /\ conn' = [conn EXCEPT ![c] = Request(a)] /\ wait' = [wait EXCEPT ![a] = c]
          /\ UNCHANGED <<pc, held, budget>> /\ wait[a] = NoConn
          /\ pc[a] \in {"claiming", "announcing", "reporting"}
      BY <2>2 DEF Post
    <3>2. /\ \A d \in Conns : d # c => conn'[d] = conn[d]
          /\ conn'[c] = Request(a) /\ wait'[a] = c
          /\ \A b \in Agents : b # a => wait'[b] = wait[b]
      BY <3>1 DEF TypeOK
    <3>3. /\ conn'[c].phase = "sent" /\ conn'[c].agent = a
          /\ conn'[c].op = "report" => /\ conn'[c].task = held[a]
                                       /\ conn'[c].state = "running" => pc[a] = "announcing"
      <4>1. CASE pc[a] = "claiming"
        BY <3>2, <4>1 DEF Request, Idle
      <4>2. CASE pc[a] = "announcing"
        BY <3>2, <4>2 DEF Request, Idle
      <4>3. CASE pc[a] = "reporting"
        <5>1. verdict[a] # "running"
          BY DEF TypeOK
        <5> QED BY <3>2, <4>3, <5>1 DEF Request, Idle
      <4> QED BY <3>1, <4>1, <4>2, <4>3
    <3>4. crashes' = 0 => \A d \in Conns : conn'[d].phase # "broken"
      BY <3>1, <3>2, <3>3 DEF PatienceInv, budget
    <3>5. ASSUME faults' = 0, crashes' = 0, NEW d \in Conns, Reporting(d)'
          PROVE  /\ wait'[conn'[d].agent] = d
                 /\ conn'[d].task = held'[conn'[d].agent]
                 /\ conn'[d].state = "running" => pc'[conn'[d].agent] = "announcing"
      <4>1. CASE d = c
        BY <3>1, <3>2, <3>3, <3>5, <4>1 DEF Reporting
      <4>2. CASE d # c
        <5>1. Reporting(d) /\ conn'[d] = conn[d] /\ faults = 0 /\ crashes = 0
          BY <3>1, <3>2, <3>5, <4>2 DEF Reporting, budget
        <5>2. wait[conn[d].agent] = d /\ conn[d].agent \in Agents /\ d # NoConn
          BY <5>1, Patient, EngineAssumption
        <5> QED BY <3>1, <3>2, <5>1, <5>2 DEF PatienceInv
      <4> QED BY <4>1, <4>2
    <3> QED BY <3>4, <3>5 DEF PatienceInv
  <2>3. CASE Receive(a)
    <3>1. PICK c \in Conns : c = wait[a]
      BY <2>3, OneWaits DEF Receive
    <3>2. /\ conn' = [conn EXCEPT ![c] = Idle] /\ UNCHANGED budget
          /\ \A b \in Agents : b # a => pc'[b] = pc[b] /\ held'[b] = held[b] /\ wait'[b] = wait[b]
      BY <2>3, <3>1 DEF Receive, TypeOK
    <3>3. conn'[c] = Idle /\ \A d \in Conns : d # c => conn'[d] = conn[d]
      BY <3>2 DEF TypeOK
    <3>4. \A d \in Conns : Reporting(d)' => d # c /\ Reporting(d) /\ conn'[d] = conn[d]
      BY <3>3 DEF Reporting, Idle
    <3>5. faults = 0 /\ crashes = 0 => \A d \in Conns : Reporting(d)' =>
             conn[d].agent \in Agents /\ conn[d].agent # a
      BY <3>1, <3>4, Patient
    <3> QED BY <3>2, <3>3, <3>4, <3>5, PatienceKept DEF Idle
  <2> QED BY <1>3, <2>1, <2>2, <2>3 DEF AgentStep
<1>4. CASE Fault
  <2>1. CASE MasterRestart \/ \E a \in Agents : AgentCrash(a)
    BY <2>1 DEF MasterRestart, AgentCrash, PatienceInv, TypeOK
  <2>2. ASSUME NEW a \in Agents, AttemptFails(a) PROVE PatienceInv'
    <3>1. PICK c \in Conns : c = wait[a]
      BY <2>2, OneWaits DEF AttemptFails
    <3>2. /\ conn' = [conn EXCEPT ![c] = Idle] \/ conn' = conn
          /\ conn[c].phase # "broken" => faults' = faults + 1
          /\ crashes' = crashes
      BY <2>2, <3>1 DEF AttemptFails
    <3>3. crashes = 0 => faults' # 0
      BY <3>2, EngineAssumption DEF PatienceInv, TypeOK
    <3>4. \A d \in Conns : conn'[d].phase = "broken" => conn[d].phase = "broken"
      BY <3>2 DEF TypeOK, Idle
    <3> QED BY <3>2, <3>3, <3>4 DEF PatienceInv
  <2> QED BY <1>4, <2>1, <2>2 DEF Fault
<1>5. CASE UNCHANGED vars
  BY <1>5 DEF vars, budget, PatienceInv, Reporting
<1> QED BY <1>1, <1>2, <1>3, <1>4, <1>5 DEF Next

LEMMA InitPatience == Init => PatienceInv
  BY DEF Init, PatienceInv, Reporting, Idle

(* No report that is written takes a final state back.                     *)
LEMMA FinalWrite ==
    ASSUME EngineInv, TruthInv, PatienceInv, NEW c \in Conns, ReportWrite(c),
           "update" \notin ConsoleOps, faults = 0, crashes = 0, NEW t \in TaskIds,
           state[t] \in Finished
    PROVE  state'[t] = state[t]
<1> DEFINE u == conn[c].task
           a == conn[c].agent
<1> USE DEF EngineInv
<1>1. Reporting(c)
  BY DEF ReportWrite, Reporting
<1>2. CASE t # u
  BY <1>2 DEF ReportWrite, WriteState, TypeOK
<1>3. CASE t = u
  <2>1. outcome[u] = state[t] /\ outcome[u] # "none"
    BY <1>3 DEF TruthInv, TruthfulVerdict, Finished
  <2>2. a \in Agents /\ u = held[a] /\ (conn[c].state = "running" => pc[a] = "announcing")
    BY <1>1, Patient DEF PatienceInv
  <2>3. pc[a] = "announcing" => runs[u] = 0
    BY <2>2 DEF CustodyInv
  <2>4. conn[c].state # "running"
    BY <1>3, <2>1, <2>2, <2>3 DEF TruthInv
  <2>5. conn[c].state = state[t]
    BY <1>1, <2>1, <2>4 DEF TruthInv
  <2> QED BY <1>3, <2>5 DEF ReportWrite, WriteState, TypeOK
<1> QED BY <1>2, <1>3

LEMMA FinalStep ==
    ASSUME EngineInv, TruthInv, PatienceInv, [Next]_vars
    PROVE  "update" \notin ConsoleOps /\ faults' = 0 /\ crashes' = 0 =>
              \A t \in TaskIds : state[t] \in Finished => state'[t] \in {state[t], "absent"}
<1> SUFFICES ASSUME "update" \notin ConsoleOps, faults' = 0, crashes' = 0,
                    NEW t \in TaskIds, state[t] \in Finished
             PROVE  state'[t] \in {state[t], "absent"}
  OBVIOUS
<1> USE DEF EngineInv, table
<1>1. \A s \in Servers \cup {NoServer} : InsertRow(s) => state'[t] = state[t]
  <2>1. lastId < MaxTasks => lastId + 1 \in TaskIds /\ ~(lastId + 1 <= lastId)
    BY EngineAssumption DEF TypeOK, TaskIds
  <2>2. lastId < MaxTasks => t # lastId + 1
    BY <2>1 DEF TableInv, Finished
  <2> QED BY <2>2 DEF InsertRow, TypeOK
<1>2. CASE Console
  BY <1>1, <1>2 DEF Console, CreateTask, RotateServerToken, DeleteTask, ManualStates, RetryRead, TypeOK
<1>3. ASSUME NEW c \in Conns, Handle(c) PROVE state'[t] = state[t]
  <2>1. UNCHANGED budget
    BY <1>3, HandledCalls
  <2>2. CASE ClaimRejected(c) \/ ClaimSelect(c) \/ ReportRead(c)
    BY <2>2 DEF ClaimRejected, ClaimSelect, ReportRead
  <2>3. CASE MarkTaskClaimed(c)
    BY <2>3 DEF MarkTaskClaimed, StillClaimable, Finished, TypeOK
  <2>4. CASE ReportWrite(c)
    BY <2>1, <2>4, FinalWrite DEF budget
  <2>5. CASE RetrySave(c)
    <3>1. RetryServer(conn[c].task) \in Servers \cup {NoServer}
      <4>1. conn[c].task \in 1..lastId /\ lastId \in 0..MaxTasks
        BY <2>5 DEF RetrySave, CallInv, CallOK, Idle, TypeOK
      <4>2. conn[c].task \in TaskIds
        BY <4>1, EngineAssumption DEF TaskIds
      <4> QED BY <4>2 DEF RetryServer, TypeOK
    <3> QED BY <1>1, <2>5, <3>1 DEF RetrySave
  <2> QED BY <1>3, <2>2, <2>3, <2>4, <2>5 DEF Handle
<1>4. CASE Fault \/ \E a \in Agents : AgentStep(a)
  BY <1>4 DEF Fault, MasterRestart, AttemptFails, AgentCrash, AgentStep, Poll, Post, Receive,
              StartScript, FinishScript, AgentRestart
<1>5. CASE UNCHANGED vars
  BY <1>5 DEF vars
<1> QED BY <1>2, <1>3, <1>4, <1>5 DEF Next

(* As long as nothing is lost and nothing crashes, a final state stays,    *)
(* although no handler and no agent guards against a later report.         *)
THEOREM VerdictsAreFinal == Safe => VerdictIsFinal
<1>1. Safe => [](EngineInv /\ TruthInv /\ PatienceInv)
  BY InitInv, NextInv, InitTruth, NextTruth, InitPatience, NextPatience, PTL DEF Safe
<1>2. EngineInv /\ TruthInv /\ PatienceInv /\ [Next]_vars =>
         ["update" \notin ConsoleOps /\ faults' = 0 /\ crashes' = 0 =>
             \A t \in TaskIds : state[t] \in Finished => state'[t] \in {state[t], "absent"}]_vars
  BY FinalStep
<1> QED BY <1>1, <1>2, PTL DEF Safe, VerdictIsFinal

-----------------------------------------------------------------------------
(* The engine implements TaskDispatch.                                     *)

(* A row of the queue was never handed out; one that was has an owner.     *)
LEMMA RowFacts ==
    ASSUME EngineInv, NEW t \in TaskIds
    PROVE  /\ t \in Nat /\ t # NoTask /\ 0 < t /\ lastId \in Nat /\ claims[t] \in Nat
           /\ state[t] = "generated" => t <= lastId /\ claims[t] = 0
           /\ claims[t] > 0 => t <= lastId /\ server[t] \in Servers /\ state[t] # "generated"
<1>1. t \in Nat /\ t # NoTask /\ 0 < t /\ lastId \in Nat /\ claims[t] \in Nat
  BY EngineAssumption DEF EngineInv, TypeOK, TaskIds, NoTask
<1> QED BY <1>1 DEF EngineInv, TableInv, CustodyInv

(* A step that adds no row and hands nothing out.                          *)
LEMMA OrderKept ==
    ASSUME OrderInv, UNCHANGED <<server, claims, lastRun>>,
           \A t \in TaskIds : state'[t] = "generated" => state[t] = "generated",
           \A c \in Conns : conn'[c].op = "claim" /\ conn'[c].phase = "chosen" => conn'[c] = conn[c],
           \A c \in Conns : Handed(c)' => /\ conn'[c] = conn[c]
                                          /\ wait'[conn[c].agent] = wait[conn[c].agent],
           \A a \in Agents : held'[a] # NoTask => held'[a] = held[a],
           \A a \in Agents : pc'[a] \in {"announcing", "ready"} =>
              pc[a] \in {"announcing", "ready"} /\ held'[a] = held[a]
    PROVE  OrderInv'
<1>1. \A t, u \in TaskIds :
         state'[t] = "generated" /\ claims'[u] > 0 /\ server'[u] = server'[t] => u < t
  BY DEF OrderInv
<1>2. ASSUME NEW c \in Conns, conn'[c].op = "claim", conn'[c].phase = "chosen"
      PROVE  \A u \in TaskIds : state'[u] = "generated" /\ server'[u] = Home[conn'[c].agent] =>
                conn'[c].task <= u
  BY <1>2 DEF OrderInv
<1>3. ASSUME NEW c \in Conns, Handed(c)'
      PROVE  /\ wait'[conn'[c].agent] = c
             /\ server'[conn'[c].task] = Home[conn'[c].agent]
             /\ lastRun'[conn'[c].agent] < conn'[c].task
  BY <1>3 DEF OrderInv, Handed
<1>4. ASSUME NEW a \in Agents
      PROVE  /\ held'[a] # NoTask => server'[held'[a]] = Home[a]
             /\ pc'[a] \in {"announcing", "ready"} => lastRun'[a] < held'[a]
             /\ lastRun'[a] # NoTask => claims'[lastRun'[a]] > 0 /\ server'[lastRun'[a]] = Home[a]
  BY DEF OrderInv
<1> QED BY <1>1, <1>2, <1>3, <1>4 DEF OrderInv

(* A row that is added is younger than everything handed out.              *)
LEMMA OrderInsert ==
    ASSUME EngineInv, OrderInv, NEW s, InsertRow(s),
           UNCHANGED <<agent, history>>,
           \A c \in Conns : conn'[c].op = "claim" => conn'[c] = conn[c]
    PROVE  OrderInv'
<1> USE DEF agent, history
<1>1. /\ lastId + 1 \in TaskIds /\ \A t \in TaskIds : t <= lastId => t < lastId + 1
      /\ lastId + 1 # NoTask
  BY EngineAssumption DEF InsertRow, EngineInv, TypeOK, TaskIds, NoTask
<1>2. PICK n \in TaskIds : n = lastId + 1
  BY <1>1
<1>3. /\ \A t \in TaskIds : t # n => state'[t] = state[t] /\ server'[t] = server[t]
      /\ \A t \in TaskIds : claims[t] > 0 => t # n /\ t < n
      /\ \A t \in TaskIds : t <= lastId => t < n /\ t <= n
  <2>1. \A t \in TaskIds : t # n => state'[t] = state[t] /\ server'[t] = server[t]
    BY <1>2 DEF InsertRow, EngineInv, TypeOK
  <2>2. \A t \in TaskIds : t <= lastId => t < n /\ t # n /\ t <= n
    BY <1>2, RowFacts
  <2> QED BY <2>1, <2>2, RowFacts
<1>4. \A t, u \in TaskIds :
         state'[t] = "generated" /\ claims'[u] > 0 /\ server'[u] = server'[t] => u < t
  BY <1>3 DEF OrderInv
<1>5. ASSUME NEW c \in Conns, conn'[c].op = "claim", conn'[c].phase = "chosen"
      PROVE  \A u \in TaskIds : state'[u] = "generated" /\ server'[u] = Home[conn'[c].agent] =>
                conn'[c].task <= u
  <2>1. conn'[c] = conn[c]
    BY <1>5
  <2>2. conn[c].task \in 1..lastId
    BY <1>5, <2>1 DEF EngineInv, CallInv, CallOK, Idle
  <2>3. conn[c].task \in TaskIds /\ conn[c].task <= lastId
    BY <2>2, <1>1, EngineAssumption DEF TaskIds, EngineInv, TypeOK
  <2> QED BY <1>3, <1>5, <2>1, <2>3 DEF OrderInv
<1>6. ASSUME NEW c \in Conns, Handed(c)'
      PROVE  /\ wait'[conn'[c].agent] = c
             /\ server'[conn'[c].task] = Home[conn'[c].agent]
             /\ lastRun'[conn'[c].agent] < conn'[c].task
  <2>1. conn'[c] = conn[c] /\ Handed(c)
    BY <1>6 DEF Handed
  <2>2. conn[c].task \in TaskIds /\ claims[conn[c].task] > 0
    BY <2>1 DEF Handed, EngineInv, CustodyInv, TypeOK, Calls
  <2> QED BY <1>3, <2>1, <2>2 DEF OrderInv
<1>7. ASSUME NEW a \in Agents
      PROVE  /\ held'[a] # NoTask => server'[held'[a]] = Home[a]
             /\ pc'[a] \in {"announcing", "ready"} => lastRun'[a] < held'[a]
             /\ lastRun'[a] # NoTask => claims'[lastRun'[a]] > 0 /\ server'[lastRun'[a]] = Home[a]
  <2>1. held[a] # NoTask => held[a] \in TaskIds /\ claims[held[a]] > 0
    BY DEF EngineInv, AgentInv, AgentOK, TypeOK
  <2>2. lastRun[a] # NoTask => lastRun[a] \in TaskIds /\ claims[lastRun[a]] > 0
    BY DEF OrderInv, EngineInv, TypeOK
  <2> QED BY <1>3, <2>1, <2>2 DEF OrderInv
<1> QED BY <1>4, <1>5, <1>6, <1>7 DEF OrderInv

LEMMA OrderConsole ==
    ASSUME EngineInv, OrderInv, Console
    PROVE  OrderInv'
<1>1. ASSUME NEW s \in Servers, CreateTask(s) PROVE OrderInv'
  BY <1>1, OrderInsert DEF CreateTask
<1>2. ASSUME NEW s \in Servers, RotateServerToken(s) PROVE OrderInv'
  BY <1>2, OrderKept DEF RotateServerToken, table, agent, history, Handed
<1>3. ASSUME NEW t \in TaskIds, DeleteTask(t) PROVE OrderInv'
  <2>1. \A u \in TaskIds : state'[u] = "generated" => state[u] = "generated"
    BY <1>3 DEF DeleteTask, EngineInv, TypeOK
  <2> QED BY <1>3, <2>1, OrderKept DEF DeleteTask, agent, history, Handed
<1>4. ASSUME NEW t \in TaskIds, NEW v \in ManualStates, UpdateTaskState(t, v) PROVE OrderInv'
  <2>1. \A u \in TaskIds : state'[u] = "generated" => state[u] = "generated"
    BY <1>4 DEF UpdateTaskState, WriteState, ManualStates, Reportable, EngineInv, TypeOK
  <2> QED BY <1>4, <2>1, OrderKept DEF UpdateTaskState, agent, history, Handed
<1>5. ASSUME NEW c \in Conns, NEW t \in TaskIds, RetryRead(c, t) PROVE OrderInv'
  <2>1. UNCHANGED <<table, agent, history>>
    BY <1>5 DEF RetryRead
  <2>2. \A d \in Conns : conn'[d] = conn[d] \/ conn'[d].op = "retry"
    BY <1>5, RetryCall DEF EngineInv
  <2> QED BY <2>1, <2>2, OrderKept DEF table, agent, history, Handed
<1> QED BY <1>1, <1>2, <1>3, <1>4, <1>5 DEF Console

(* A handler that answers "nothing", or goes on, hands nothing out.        *)
LEMMA OrderAnswer ==
    ASSUME EngineInv, OrderInv, NEW c \in Conns, Answer(c, NoTask),
           UNCHANGED <<server, agent, history>>,
           \A t \in TaskIds : state'[t] = "generated" => state[t] = "generated"
    PROVE  OrderInv'
<1>1. /\ \A d \in Conns : d # c => conn'[d] = conn[d]
      /\ Answered(c, NoTask)
  BY AnswerFacts DEF EngineInv, TypeOK
<1>2. conn'[c].phase # "chosen" /\ ~Handed(c)'
  BY <1>1 DEF Answered, Idle, Handed
<1>3. \A d \in Conns : conn'[d].op = "claim" /\ conn'[d].phase = "chosen" => conn'[d] = conn[d]
  BY <1>1, <1>2
<1>4. \A d \in Conns : Handed(d)' => conn'[d] = conn[d]
  BY <1>1, <1>2
<1> QED BY <1>3, <1>4, OrderKept DEF agent, history

(* The row that a claim takes.                                             *)
Claimed(c) ==
    /\ conn[c].op = "claim" /\ conn[c].phase = "chosen"
    /\ conn[c].agent \in Agents /\ conn[c].task \in TaskIds
    /\ state[conn[c].task] = "generated"
    /\ server[conn[c].task] = Home[conn[c].agent]
    /\ state' = [state EXCEPT ![conn[c].task] = "claimed"]
    /\ claims' = [claims EXCEPT ![conn[c].task] = claims[conn[c].task] + 1]
    /\ Answer(c, conn[c].task)
    /\ UNCHANGED <<lastId, server, agent, runs, outcome, lastRun>>

LEMMA MarkCases ==
    ASSUME EngineInv, NEW c \in Conns, MarkTaskClaimed(c)
    PROVE  \/ Claimed(c)
           \/ UNCHANGED <<table, agent, history>> /\ Answer(c, NoTask)
           \/ /\ UNCHANGED <<table, agent, history>>
              /\ conn'[c].op = "claim" /\ conn'[c].phase = "again"
              /\ \A d \in Conns : d # c => conn'[d] = conn[d]
<1> DEFINE t == conn[c].task
<1>1. conn[c] \in Calls /\ conn[c].op = "claim" /\ conn[c].phase = "chosen" /\ conn[c] # Idle
  BY DEF EngineInv, TypeOK, MarkTaskClaimed, Idle
<1>2. t \in 1..lastId /\ conn[c].agent \in Agents /\ lastId \in 0..MaxTasks
  BY <1>1 DEF EngineInv, CallInv, CallOK, TypeOK
<1>3. t \in TaskIds
  BY <1>2, EngineAssumption DEF TaskIds
<1>4. CASE StillClaimable(t, Home[conn[c].agent])
  BY <1>1, <1>2, <1>3, <1>4 DEF MarkTaskClaimed, StillClaimable, Claimed
<1>5. CASE ~StillClaimable(t, Home[conn[c].agent])
  <2>1. UNCHANGED <<table, agent, history>>
    BY <1>5 DEF MarkTaskClaimed, table, history
  <2>2. CASE conn[c].tries = 1
    BY <1>5, <2>1, <2>2 DEF MarkTaskClaimed
  <2>3. CASE conn[c].tries # 1
    <3>1. conn' = [conn EXCEPT ![c].phase = "again", ![c].task = NoTask,
                               ![c].tries = conn[c].tries - 1]
      BY <1>5, <2>3 DEF MarkTaskClaimed
    <3>2. conn'[c].op = "claim" /\ conn'[c].phase = "again"
          /\ \A d \in Conns : d # c => conn'[d] = conn[d]
      BY <1>1, <3>1 DEF EngineInv, TypeOK, Calls
    <3> QED BY <2>1, <3>2
  <2> QED BY <2>2, <2>3
<1> QED BY <1>4, <1>5

LEMMA OrderClaimed ==
    ASSUME EngineInv, OrderInv, NEW c \in Conns, Claimed(c)
    PROVE  OrderInv'
<1> DEFINE t == conn[c].task
           a == conn[c].agent
<1>1. /\ t \in TaskIds /\ a \in Agents /\ server[t] = Home[a] /\ state[t] = "generated"
      /\ \A u \in TaskIds : u # t => state'[u] = state[u] /\ claims'[u] = claims[u]
      /\ state'[t] # "generated"
      /\ UNCHANGED <<server, pc, held, wait, lastRun>>
  BY DEF Claimed, EngineInv, TypeOK, agent
<1>2. /\ \A d \in Conns : d # c => conn'[d] = conn[d]
      /\ Answered(c, t)
      /\ (\A b \in Agents : wait[b] # c) \/ wait[a] = c
  <2>1. Answer(c, t) /\ conn \in [Conns -> Calls] /\ t \in TaskIds \cup {NoTask}
    BY <1>1 DEF Claimed, EngineInv, TypeOK
  <2>2. ASSUME NEW b \in Agents, wait[b] = c PROVE b = a
    BY <2>2, EngineAssumption DEF EngineInv, AgentInv, AgentOK
  <2> QED BY <2>1, <2>2, AnswerFacts
<1>3. claims'[t] > 0
  BY <1>1 DEF Claimed, EngineInv, TypeOK
<1>4. \A u \in TaskIds : claims[u] > 0 => u # t /\ claims'[u] > 0
  BY <1>1, RowFacts
<1>5. ASSUME NEW u, NEW w, u \in TaskIds, w \in TaskIds,
             state'[u] = "generated", claims'[w] > 0, server[w] = server[u]
      PROVE  w < u
  <2>1. u # t /\ state[u] = "generated"
    BY <1>1, <1>5
  <2>2. CASE w = t
    <3>2. t <= u
      BY <1>1, <1>5, <2>1, <2>2 DEF OrderInv, Claimed
    <3> QED BY <1>1, <1>5, <2>1, <2>2, <3>2, RowFacts
  <2>3. CASE w # t
    BY <1>1, <1>5, <2>1, <2>3 DEF OrderInv
  <2> QED BY <2>2, <2>3
<1>6. ASSUME NEW d \in Conns, conn'[d].op = "claim", conn'[d].phase = "chosen"
      PROVE  \A u \in TaskIds : state'[u] = "generated" /\ server'[u] = Home[conn'[d].agent] =>
                conn'[d].task <= u
  <2>1. conn'[d] = conn[d]
    BY <1>2, <1>6 DEF Answered, Idle
  <2> QED BY <1>1, <1>6, <2>1 DEF OrderInv
<1>7. ASSUME NEW d \in Conns, Handed(d)'
      PROVE  /\ wait'[conn'[d].agent] = d
             /\ server'[conn'[d].task] = Home[conn'[d].agent]
             /\ lastRun'[conn'[d].agent] < conn'[d].task
  <2>1. CASE d # c
    <3>1. conn'[d] = conn[d] /\ Handed(d)
      BY <1>2, <1>7, <2>1 DEF Handed
    <3> QED BY <1>1, <3>1 DEF OrderInv
  <2>2. CASE d = c
    <3>1. conn'[c].phase = "answered" /\ conn'[c].task = t /\ conn'[c].agent = a
          /\ \E b \in Agents : wait[b] = c
      <4>1. conn'[c] # Idle
        BY <1>7, <2>2 DEF Handed, Idle
      <4>2. Awaited(c)
        BY <4>1 DEF Claimed, Answer, EngineInv, TypeOK
      <4> QED BY <1>2, <4>1, <4>2 DEF Answered, Awaited
    <3>2. wait[a] = c
      BY <1>2, <3>1
    <3>3. lastRun[a] \in TaskIds \cup {NoTask}
      BY <1>1 DEF EngineInv, TypeOK
    <3>4. lastRun[a] < t
      <4>1. CASE lastRun[a] = NoTask
        BY <1>1, <4>1, RowFacts DEF NoTask
      <4>2. CASE lastRun[a] # NoTask
        BY <1>1, <3>3, <4>2 DEF OrderInv
      <4> QED BY <4>1, <4>2
    <3> QED BY <1>1, <2>2, <3>1, <3>2, <3>4
  <2> QED BY <2>1, <2>2
<1>8. ASSUME NEW b \in Agents
      PROVE  /\ held'[b] # NoTask => server'[held'[b]] = Home[b]
             /\ pc'[b] \in {"announcing", "ready"} => lastRun'[b] < held'[b]
             /\ lastRun'[b] # NoTask => claims'[lastRun'[b]] > 0 /\ server'[lastRun'[b]] = Home[b]
  <2>1. lastRun[b] # NoTask => lastRun[b] \in TaskIds /\ claims[lastRun[b]] > 0
    BY DEF OrderInv, EngineInv, TypeOK
  <2> QED BY <1>1, <1>4, <2>1 DEF OrderInv
<1> QED BY <1>1, <1>5, <1>6, <1>7, <1>8 DEF OrderInv

LEMMA OrderHandle ==
    ASSUME EngineInv, OrderInv, NEW c \in Conns, Handle(c)
    PROVE  OrderInv'
<1>1. CASE ClaimRejected(c)
  BY <1>1, OrderAnswer DEF ClaimRejected, table
<1>2. CASE ClaimSelect(c)
  <2>1. UNCHANGED <<table, agent, history>> /\ conn[c].op = "claim"
    BY <1>2 DEF ClaimSelect
  <2>2. CASE Answer(c, NoTask)
    BY <2>1, <2>2, OrderAnswer DEF table
  <2>3. ASSUME NEW t \in Queue(Home[conn[c].agent]), Oldest(t, Queue(Home[conn[c].agent])),
               conn' = [conn EXCEPT ![c].phase = "chosen", ![c].task = t]
        PROVE  OrderInv'
    <3>1. /\ conn'[c].phase = "chosen" /\ conn'[c].task = t /\ conn'[c].agent = conn[c].agent
          /\ \A d \in Conns : d # c => conn'[d] = conn[d]
      BY <2>3 DEF EngineInv, TypeOK, Calls
    <3>2. ASSUME NEW d \in Conns, conn'[d].op = "claim", conn'[d].phase = "chosen"
          PROVE  \A u \in TaskIds : state'[u] = "generated" /\ server'[u] = Home[conn'[d].agent] =>
                conn'[d].task <= u
      <4>1. CASE d = c
        BY <2>1, <2>3, <3>1, <4>1 DEF Oldest, Queue, table
      <4>2. CASE d # c
        BY <2>1, <3>1, <3>2, <4>2 DEF OrderInv, table
      <4> QED BY <4>1, <4>2
    <3>3. \A d \in Conns : Handed(d)' => conn'[d] = conn[d] /\ Handed(d)
      BY <3>1 DEF Handed
    <3> QED BY <2>1, <3>2, <3>3 DEF OrderInv, table, agent, history
  <2> QED BY <1>2, <2>2, <2>3 DEF ClaimSelect
<1>3. CASE MarkTaskClaimed(c)
  <2>1. CASE UNCHANGED <<table, agent, history>> /\ Answer(c, NoTask)
    BY <2>1, OrderAnswer DEF table
  <2>2. CASE /\ UNCHANGED <<table, agent, history>>
             /\ conn'[c].op = "claim" /\ conn'[c].phase = "again"
             /\ \A d \in Conns : d # c => conn'[d] = conn[d]
    BY <2>2, OrderKept DEF table, agent, history, Handed
  <2> QED BY <1>3, <2>1, <2>2, MarkCases, OrderClaimed
<1>4. CASE ReportRead(c)
  <2>1. UNCHANGED <<table, agent, history>> /\ conn[c].op = "report"
    BY <1>4 DEF ReportRead
  <2>2. CASE Answer(c, NoTask)
    BY <2>1, <2>2, OrderAnswer DEF table
  <2>3. CASE conn' = [conn EXCEPT ![c].phase = "admitted"]
    <3>1. conn'[c].phase = "admitted" /\ \A d \in Conns : d # c => conn'[d] = conn[d]
      BY <2>3 DEF EngineInv, TypeOK, Calls
    <3> QED BY <2>1, <3>1, OrderKept DEF table, agent, history, Handed
  <2> QED BY <1>4, <2>2, <2>3 DEF ReportRead
<1>5. CASE ReportWrite(c)
  <2>1. conn[c].state \in Reportable
    BY <1>5 DEF ReportWrite, EngineInv, CallInv, CallOK, TypeOK, Calls, Idle
  <2>2. \A t \in TaskIds : state'[t] = "generated" => state[t] = "generated"
    BY <1>5, <2>1 DEF ReportWrite, WriteState, Reportable, EngineInv, TypeOK
  <2> QED BY <1>5, <2>2, OrderAnswer DEF ReportWrite
<1>6. CASE RetrySave(c)
  <2>1. UNCHANGED <<agent, history>> /\ conn' = [conn EXCEPT ![c] = Idle]
    BY <1>6 DEF RetrySave
  <2>2. \A d \in Conns : conn'[d] = conn[d] \/ conn'[d] = Idle
    BY <2>1 DEF EngineInv, TypeOK
  <2>3. CASE InsertRow(RetryServer(conn[c].task))
    BY <2>1, <2>2, <2>3, OrderInsert DEF Idle
  <2>4. CASE UNCHANGED table
    BY <2>1, <2>2, <2>4, OrderKept DEF Idle, table, agent, history, Handed
  <2> QED BY <1>6, <2>3, <2>4 DEF RetrySave
<1> QED BY <1>1, <1>2, <1>3, <1>4, <1>5, <1>6 DEF Handle

(* An agent that has been handed a task waits for that answer.             *)
LEMMA HandedFacts ==
    ASSUME EngineInv, OrderInv, NEW c \in Conns, Handed(c)
    PROVE  /\ conn[c].agent \in Agents /\ wait[conn[c].agent] = c /\ c # NoConn
           /\ pc[conn[c].agent] = "claiming"
           /\ conn[c].task \in TaskIds /\ conn[c].task # NoTask
<1>1. wait[conn[c].agent] = c /\ c # NoConn
  BY EngineAssumption DEF OrderInv
<1>2. conn[c].agent \in Agents /\ conn[c].op = "claim"
  BY DEF Handed, EngineInv, CallInv, CallOK, Idle
<1>3. pc[conn[c].agent] = "claiming"
  BY <1>1, <1>2 DEF EngineInv, AgentInv, AgentOK
<1>4. conn[c].task \in TaskIds /\ conn[c].task # NoTask
  BY DEF Handed, EngineInv, TypeOK, Calls
<1> QED BY <1>1, <1>2, <1>3, <1>4

LEMMA OrderAgent ==
    ASSUME EngineInv, OrderInv, NEW a \in Agents, AgentStep(a)
    PROVE  OrderInv'
<1> USE DEF table, history
<1>1. CASE Poll(a) \/ AgentRestart(a) \/ \E v \in {"succeeded", "failed"} : FinishScript(a, v)
  <2>1. /\ UNCHANGED <<state, server, conn, held, wait, claims, lastRun>>
        /\ \A b \in Agents : pc'[b] \in {"announcing", "ready"} => pc'[b] = pc[b]
    BY <1>1 DEF Poll, AgentRestart, FinishScript, EngineInv, TypeOK
  <2> QED BY <2>1, OrderKept DEF Handed
<1>2. ASSUME NEW c \in Conns, Post(a, c) PROVE OrderInv'
  <2>1. /\ conn' = [conn EXCEPT ![c] = Request(a)] /\ wait' = [wait EXCEPT ![a] = c]
        /\ UNCHANGED <<state, server, pc, held, claims, lastRun>> /\ wait[a] = NoConn
        /\ pc[a] \in {"claiming", "announcing", "reporting"}
    BY <1>2 DEF Post
  <2>2. /\ \A d \in Conns : d # c => conn'[d] = conn[d]
        /\ conn'[c] = Request(a)
        /\ \A b \in Agents : b # a => wait'[b] = wait[b]
    BY <2>1 DEF EngineInv, TypeOK
  <2>3. conn'[c].phase = "sent"
    <3>1. CASE pc[a] = "claiming"
      BY <2>2, <3>1 DEF Request, Idle
    <3>2. CASE pc[a] = "announcing"
      BY <2>2, <3>2 DEF Request, Idle
    <3>3. CASE pc[a] = "reporting"
      BY <2>2, <3>3 DEF Request, Idle
    <3> QED BY <2>1, <3>1, <3>2, <3>3
  <2>4. \A d \in Conns : Handed(d)' => conn'[d] = conn[d] /\ Handed(d)
    BY <2>2, <2>3 DEF Handed
  <2>5. \A d \in Conns : Handed(d)' => wait'[conn[d].agent] = wait[conn[d].agent]
    BY <2>1, <2>2, <2>4, HandedFacts
  <2> QED BY <2>1, <2>2, <2>3, <2>4, <2>5, OrderKept
<1>3. CASE Receive(a)
  <2>1. PICK c \in Conns : c = wait[a]
    BY <1>3, OneWaits DEF Receive
  <2>2. /\ UNCHANGED <<state, server, claims, lastRun>>
        /\ \A d \in Conns : conn'[d] = IF d = c THEN Idle ELSE conn[d]
        /\ \A b \in Agents : b # a => pc'[b] = pc[b] /\ held'[b] = held[b] /\ wait'[b] = wait[b]
    BY <1>3, <2>1 DEF Receive, EngineInv, TypeOK
  <2>3. \/ /\ conn[c].op = "claim" /\ conn[c].phase = "answered" /\ conn[c].task # NoTask
           /\ conn[c].agent = a
           /\ held'[a] = conn[c].task /\ pc'[a] = "announcing"
        \/ /\ pc'[a] \notin {"announcing", "ready"} /\ held'[a] \in {held[a], NoTask}
        \/ /\ pc'[a] = "ready" /\ pc[a] = "announcing" /\ held'[a] = held[a]
    <3>1. /\ conn[c].phase = "answered" /\ conn[c].agent = a
          /\ \/ pc[a] = "claiming" /\ conn[c].op = "claim"
             \/ pc[a] \in {"announcing", "reporting"}
      BY <1>3, <2>1 DEF Receive, EngineInv, AgentInv, AgentOK
    <3>2. CASE pc[a] = "claiming" /\ conn[c].task # NoTask
      BY <1>3, <2>1, <3>1, <3>2 DEF Receive, EngineInv, TypeOK
    <3>3. CASE pc[a] = "claiming" /\ conn[c].task = NoTask
      BY <1>3, <2>1, <3>3 DEF Receive, AfterCall, HeldAfter, EngineInv, TypeOK
    <3>4. CASE pc[a] = "announcing"
      BY <1>3, <2>1, <3>4 DEF Receive, AfterCall, HeldAfter, EngineInv, TypeOK
    <3>5. CASE pc[a] = "reporting"
      BY <1>3, <2>1, <3>5 DEF Receive, AfterCall, HeldAfter, EngineInv, TypeOK
    <3> QED BY <3>1, <3>2, <3>3, <3>4, <3>5
  <2>4. ASSUME NEW d \in Conns, Handed(d)'
        PROVE  conn'[d] = conn[d] /\ wait'[conn[d].agent] = wait[conn[d].agent]
    <3>1. d # c /\ conn'[d] = conn[d]
      BY <2>2, <2>4 DEF Handed, Idle
    <3>2. Handed(d)
      BY <2>4, <3>1 DEF Handed
    <3>3. conn[d].agent \in Agents /\ conn[d].agent # a
      BY <2>1, <3>1, <3>2, HandedFacts
    <3> QED BY <2>2, <3>1, <3>3
  <2>5. ASSUME NEW d \in Conns, conn'[d].op = "claim", conn'[d].phase = "chosen"
        PROVE  conn'[d] = conn[d]
    BY <2>2, <2>5 DEF Idle
  <2>6. CASE Handed(c) /\ conn[c].agent = a /\ held'[a] = conn[c].task /\ pc'[a] = "announcing"
    <3>1. server[held'[a]] = Home[a] /\ lastRun[a] < held'[a]
      BY <2>6 DEF OrderInv
    <3>2. ASSUME NEW b \in Agents
          PROVE  /\ held'[b] # NoTask => server[held'[b]] = Home[b]
                 /\ pc'[b] \in {"announcing", "ready"} => lastRun[b] < held'[b]
      BY <2>2, <3>1 DEF OrderInv
    <3>3. ASSUME NEW d \in Conns, Handed(d)'
          PROVE  /\ wait'[conn'[d].agent] = d
                 /\ server[conn'[d].task] = Home[conn'[d].agent]
                 /\ lastRun[conn'[d].agent] < conn'[d].task
      BY <2>4, <3>3 DEF OrderInv, Handed
    <3>4. ASSUME NEW d \in Conns, conn'[d].op = "claim", conn'[d].phase = "chosen"
          PROVE  \A u \in TaskIds : state[u] = "generated" /\ server[u] = Home[conn'[d].agent] =>
                    conn'[d].task <= u
      BY <2>5, <3>4 DEF OrderInv
    <3> QED BY <2>2, <3>2, <3>3, <3>4 DEF OrderInv
  <2>7. CASE /\ pc'[a] \in {"announcing", "ready"} => pc[a] \in {"announcing", "ready"} /\ held'[a] = held[a]
             /\ held'[a] # NoTask => held'[a] = held[a]
    BY <2>2, <2>4, <2>5, <2>7, OrderKept
  <2> QED BY <2>3, <2>6, <2>7 DEF Handed
<1>4. CASE StartScript(a)
  <2>1. /\ UNCHANGED <<state, server, conn, held, wait, claims>>
        /\ pc[a] = "ready" /\ held[a] # NoTask /\ claims[held[a]] > 0
        /\ pc'[a] = "executing" /\ lastRun'[a] = held[a]
        /\ \A b \in Agents : b # a => pc'[b] = pc[b] /\ lastRun'[b] = lastRun[b]
    BY <1>4 DEF StartScript, EngineInv, AgentInv, AgentOK, TypeOK
  <2>2. ASSUME NEW d \in Conns, Handed(d)'
        PROVE  /\ wait'[conn'[d].agent] = d
               /\ server'[conn'[d].task] = Home[conn'[d].agent]
               /\ lastRun'[conn'[d].agent] < conn'[d].task
    <3>1. Handed(d)
      BY <2>1, <2>2 DEF Handed
    <3>2. conn[d].agent \in Agents /\ conn[d].agent # a
      BY <2>1, <3>1, HandedFacts
    <3> QED BY <2>1, <3>1, <3>2 DEF OrderInv
  <2>3. ASSUME NEW b \in Agents
        PROVE  /\ held'[b] # NoTask => server'[held'[b]] = Home[b]
               /\ pc'[b] \in {"announcing", "ready"} => lastRun'[b] < held'[b]
               /\ lastRun'[b] # NoTask => claims'[lastRun'[b]] > 0 /\ server'[lastRun'[b]] = Home[b]
    BY <2>1 DEF OrderInv
  <2> QED BY <2>1, <2>2, <2>3 DEF OrderInv
<1> QED BY <1>1, <1>2, <1>3, <1>4 DEF AgentStep

(* A call that fails takes its answer with it.                             *)
LEMMA OrderFault ==
    ASSUME EngineInv, OrderInv, Fault
    PROVE  OrderInv'
<1> USE DEF table, agent, history
<1>1. CASE MasterRestart
  <2>1. \A c \in Conns : conn'[c].phase # "chosen" /\ ~Handed(c)'
    BY <1>1, RestartCalls DEF Idle, Handed
  <2> QED BY <1>1, <2>1, OrderKept DEF MasterRestart
<1>2. ASSUME NEW a \in Agents, AttemptFails(a) \/ AgentCrash(a) PROVE OrderInv'
  <2>1. /\ UNCHANGED <<state, server, claims, lastRun>>
        /\ \A b \in Agents : b # a => pc'[b] = pc[b] /\ held'[b] = held[b] /\ wait'[b] = wait[b]
        /\ \A d \in Conns : conn'[d] = conn[d] \/ conn'[d] = Idle
        /\ wait[a] \in Conns => (conn'[wait[a]] = Idle \/ conn'[wait[a]].phase # "answered")
    <3>1. conn \in [Conns -> Calls] /\ pc \in [Agents -> AgentSteps] /\ held \in [Agents -> TaskIds \cup {NoTask}]
          /\ wait \in [Agents -> Conns \cup {NoConn}]
      BY DEF EngineInv, TypeOK
    <3>2. CASE AttemptFails(a)
      <4>1. UNCHANGED <<state, server, claims, lastRun>>
        BY <3>2 DEF AttemptFails
      <4>2. \A b \in Agents : b # a => pc'[b] = pc[b] /\ held'[b] = held[b] /\ wait'[b] = wait[b]
        BY <3>1, <3>2 DEF AttemptFails
      <4>3. PICK c \in Conns : c = wait[a]
        BY <3>1, <3>2 DEF AttemptFails
      <4>4. \/ conn' = [conn EXCEPT ![c] = Idle]
            \/ conn[c].phase \notin {"answered", "broken"} /\ UNCHANGED conn
        BY <3>2, <4>3 DEF AttemptFails
      <4>5. \A d \in Conns : conn'[d] = conn[d] \/ conn'[d] = Idle
        BY <3>1, <4>4
      <4>6. conn'[c] = Idle \/ conn'[c].phase # "answered"
        BY <3>1, <4>4
      <4> QED BY <4>1, <4>2, <4>3, <4>5, <4>6
    <3>3. CASE AgentCrash(a)
      <4>1. UNCHANGED <<state, server, claims, lastRun>>
        BY <3>3 DEF AgentCrash
      <4>2. \A b \in Agents : b # a => pc'[b] = pc[b] /\ held'[b] = held[b] /\ wait'[b] = wait[b]
        BY <3>1, <3>3 DEF AgentCrash
      <4>3. \/ wait[a] # NoConn /\ conn' = [conn EXCEPT ![wait[a]] = Idle]
            \/ (wait[a] # NoConn => conn[wait[a]].phase \notin {"answered", "broken"}) /\ UNCHANGED conn
        BY <3>3 DEF AgentCrash
      <4>4. \A d \in Conns : conn'[d] = conn[d] \/ conn'[d] = Idle
        BY <3>1, <4>3
      <4>5. wait[a] \in Conns => (conn'[wait[a]] = Idle \/ conn'[wait[a]].phase # "answered")
        BY <3>1, <4>3, EngineAssumption
      <4> QED BY <4>1, <4>2, <4>4, <4>5
    <3> QED BY <1>2, <3>2, <3>3
  <2>2. /\ pc'[a] \in {"announcing", "ready"} => pc[a] \in {"announcing", "ready"} /\ held'[a] = held[a]
        /\ held'[a] # NoTask => held'[a] = held[a]
    <3>1. CASE AttemptFails(a)
      <4>1. pc[a] \in {"claiming", "announcing", "reporting"}
        BY <3>1 DEF AttemptFails, EngineInv, AgentInv, AgentOK
      <4> QED BY <3>1, <4>1 DEF AttemptFails, AfterCall, HeldAfter, EngineInv, TypeOK
    <3>2. CASE AgentCrash(a)
      BY <3>2 DEF AgentCrash, EngineInv, TypeOK
    <3> QED BY <1>2, <3>1, <3>2
  <2>3. ASSUME NEW d \in Conns, Handed(d)'
        PROVE  conn'[d] = conn[d] /\ wait'[conn[d].agent] = wait[conn[d].agent]
    <3>1. conn'[d] = conn[d] /\ Handed(d)
      BY <2>1, <2>3 DEF Handed, Idle
    <3>2. conn[d].agent \in Agents /\ wait[conn[d].agent] = d
      BY <3>1, HandedFacts
    <3>3. conn[d].agent # a
      BY <2>1, <2>3, <3>2 DEF Handed, Idle
    <3> QED BY <2>1, <3>1, <3>2, <3>3
  <2>4. \A d \in Conns : conn'[d].op = "claim" /\ conn'[d].phase = "chosen" => conn'[d] = conn[d]
    BY <2>1 DEF Idle
  <2> QED BY <2>1, <2>2, <2>3, <2>4, OrderKept
<1> QED BY <1>1, <1>2 DEF Fault

LEMMA InitOrder == Init => OrderInv
  BY EngineAssumption DEF Init, OrderInv, Handed, Idle, NoTask, TaskIds

LEMMA NextOrder ==
    ASSUME EngineInv, OrderInv, [Next]_vars
    PROVE  OrderInv'
<1>1. CASE UNCHANGED vars
  BY <1>1, OrderKept DEF vars, table, agent, history, Handed
<1> QED BY <1>1, OrderConsole, OrderHandle, OrderAgent, OrderFault DEF Next

-----------------------------------------------------------------------------
(* The queue, and the tasks that have left it for an agent.                 *)
Waiting == {t \in TaskIds : state[t] = "generated"}
HandedOut == {t \in TaskIds : claims[t] > 0}

(* A row that is added is a task submitted.                                *)
LEMMA InsertSubmits ==
    ASSUME EngineInv, NEW s \in Servers, InsertRow(s), UNCHANGED history
    PROVE  Dispatch!Next
<1>1. PICK n \in TaskIds : n = lastId + 1
  BY EngineAssumption DEF InsertRow, EngineInv, TypeOK, TaskIds
<1>2. /\ lastId < MaxTasks /\ lastId' = n
      /\ state' = [state EXCEPT ![n] = "generated"]
      /\ server' = [server EXCEPT ![n] = s]
  BY <1>1 DEF InsertRow
<1>3. Waiting' = Waiting \cup {n}
  BY <1>2 DEF Waiting, EngineInv, TypeOK
<1>4. Dispatch!Submit(s)
  BY <1>1, <1>2, <1>3 DEF Dispatch!Submit, Waiting, history
<1> QED BY <1>4 DEF Dispatch!Next

(* A state that is overwritten, or a row that is deleted, is at most a task*)
(* withdrawn.                                                              *)
LEMMA WriteWithdraws ==
    ASSUME EngineInv, NEW t \in TaskIds, NEW v \in TaskStates \ {"generated"},
           state' = [state EXCEPT ![t] = v], UNCHANGED <<lastId, server, history>>
    PROVE  [Dispatch!Next]_Dispatch!vars
<1>1. CASE state[t] = "generated"
  <2>1. Waiting' = Waiting \ {t} /\ t \in Waiting
    BY <1>1 DEF Waiting, EngineInv, TypeOK
  <2>2. Dispatch!Withdraw(t)
    BY <2>1 DEF Dispatch!Withdraw, Waiting, history
  <2> QED BY <2>2 DEF Dispatch!Next, Dispatch!Ids, TaskIds
<1>2. CASE state[t] # "generated"
  <2>1. Waiting' = Waiting
    BY <1>2 DEF Waiting, EngineInv, TypeOK
  <2> QED BY <2>1 DEF Dispatch!vars, Waiting, history
<1> QED BY <1>1, <1>2

(* A claim takes the oldest task of its server.                            *)
LEMMA ClaimDispatches ==
    ASSUME EngineInv, OrderInv, NEW c \in Conns, Claimed(c)
    PROVE  Dispatch!Next
<1>1. PICK t \in TaskIds, s \in Servers : t = conn[c].task /\ s = Home[conn[c].agent]
  BY EngineAssumption DEF Claimed
<1>2. /\ state[t] = "generated" /\ server[t] = s
      /\ state' = [state EXCEPT ![t] = "claimed"]
      /\ claims' = [claims EXCEPT ![t] = claims[t] + 1]
      /\ UNCHANGED <<lastId, server, runs, lastRun>>
  BY <1>1 DEF Claimed
<1>3. \A u \in Waiting : server[u] = s => t <= u
  BY <1>1 DEF OrderInv, Claimed, Waiting
<1>4. Waiting' = Waiting \ {t} /\ t \in Waiting
  BY <1>2 DEF Waiting, EngineInv, TypeOK
<1>5. HandedOut' = HandedOut \cup {t}
  <2>1. claims'[t] > 0 /\ \A u \in TaskIds : u # t => claims'[u] = claims[u]
    BY <1>2 DEF EngineInv, TypeOK
  <2> QED BY <1>2, <2>1 DEF HandedOut
<1>6. t \in Dispatch!QueueOf(s) /\ \A u \in Dispatch!QueueOf(s) : t <= u
  BY <1>2, <1>3, <1>4 DEF Dispatch!QueueOf, Waiting
<1>7. Dispatch!Dispatch(s)
  <2>1. {u \in TaskIds : state[u] = "generated"}' = {u \in TaskIds : state[u] = "generated"} \ {t}
    BY <1>4 DEF Waiting
  <2>2. {u \in TaskIds : claims[u] > 0}' = {u \in TaskIds : claims[u] > 0} \cup {t}
    BY <1>5 DEF HandedOut
  <2> QED BY <1>2, <1>6, <2>1, <2>2 DEF Dispatch!Dispatch
<1> QED BY <1>7 DEF Dispatch!Next

LEMMA ScriptStarts ==
    ASSUME EngineInv, OrderInv, NEW a \in Agents, StartScript(a)
    PROVE  Dispatch!Next
<1> DEFINE t == held[a]
<1>1. /\ t \in TaskIds /\ claims[t] > 0 /\ runs[t] = 0
      /\ server[t] = Home[a] /\ lastRun[a] < t
  BY DEF StartScript, OrderInv, EngineInv, AgentInv, AgentOK, CustodyInv, TypeOK
<1>2. /\ runs' = [runs EXCEPT ![t] = 1] /\ lastRun' = [lastRun EXCEPT ![a] = t]
      /\ UNCHANGED <<lastId, state, server, claims>>
  BY <1>1 DEF StartScript, table, EngineInv, TypeOK
<1>3. Dispatch!Start(a, t)
  BY <1>1, <1>2 DEF Dispatch!Start
<1> QED BY <1>1, <1>3 DEF Dispatch!Next, Dispatch!Ids, TaskIds

LEMMA StepDispatches ==
    ASSUME EngineInv, OrderInv, [Next]_vars
    PROVE  [Dispatch!Next]_Dispatch!vars
<1> USE DEF table, history
<1>1. ASSUME UNCHANGED <<lastId, server, claims, runs, lastRun>>, Waiting' = Waiting
      PROVE  UNCHANGED Dispatch!vars
  BY <1>1 DEF Dispatch!vars, Waiting
<1>2. ASSUME UNCHANGED <<table, claims, runs, lastRun>> PROVE UNCHANGED Dispatch!vars
  BY <1>1, <1>2 DEF Waiting
<1>3. CASE Console
  <2>1. ASSUME NEW s \in Servers, CreateTask(s) PROVE Dispatch!Next
    BY <2>1, InsertSubmits DEF CreateTask
  <2>2. ASSUME NEW t \in TaskIds, DeleteTask(t) PROVE [Dispatch!Next]_Dispatch!vars
    BY <2>2, WriteWithdraws DEF DeleteTask, TaskStates
  <2>3. ASSUME NEW t \in TaskIds, NEW v \in ManualStates, UpdateTaskState(t, v)
        PROVE  [Dispatch!Next]_Dispatch!vars
    <3>1. v \in TaskStates \ {"generated"} /\ state' = [state EXCEPT ![t] = v]
          /\ UNCHANGED <<lastId, server, history>>
      BY <2>3 DEF UpdateTaskState, WriteState, ManualStates, Reportable, TaskStates, EngineInv, TypeOK
    <3> QED BY <3>1, WriteWithdraws
  <2>4. (\E s \in Servers : RotateServerToken(s)) \/ (\E c \in Conns, t \in TaskIds : RetryRead(c, t))
           => UNCHANGED Dispatch!vars
    BY <1>2 DEF RotateServerToken, RetryRead
  <2> QED BY <1>3, <2>1, <2>2, <2>3, <2>4 DEF Console
<1>4. ASSUME NEW c \in Conns, Handle(c) PROVE [Dispatch!Next]_Dispatch!vars
  <2>1. CASE ClaimRejected(c) \/ ClaimSelect(c) \/ ReportRead(c)
    BY <1>2, <2>1 DEF ClaimRejected, ClaimSelect, ReportRead
  <2>2. CASE MarkTaskClaimed(c)
    BY <1>2, <2>2, MarkCases, ClaimDispatches
  <2>3. CASE ReportWrite(c)
    <3>1. conn[c].state \in Reportable /\ conn[c].task \in TaskIds /\ claims[conn[c].task] > 0
      BY <2>3 DEF ReportWrite, EngineInv, CallInv, CallOK, TypeOK, Calls, Idle
    <3>2. state[conn[c].task] # "generated"
      BY <3>1, RowFacts
    <3>3. Waiting' = Waiting
      BY <2>3, <3>1, <3>2 DEF ReportWrite, WriteState, Waiting, Reportable, EngineInv, TypeOK
    <3> QED BY <1>1, <2>3, <3>3 DEF ReportWrite
  <2>4. CASE RetrySave(c)
    <3>1. conn[c].task \in 1..lastId /\ lastId \in 0..MaxTasks
      BY <2>4 DEF RetrySave, EngineInv, CallInv, CallOK, Idle, TypeOK
    <3>2. conn[c].task \in TaskIds /\ conn[c].task <= lastId
      BY <3>1, EngineAssumption DEF TaskIds
    <3>3. RetryServer(conn[c].task) \in Servers
      BY <3>2 DEF RetryServer, EngineInv, TableInv
    <3> QED BY <1>2, <2>4, <3>3, InsertSubmits DEF RetrySave
  <2> QED BY <1>4, <2>1, <2>2, <2>3, <2>4 DEF Handle
<1>5. ASSUME NEW a \in Agents, AgentStep(a) PROVE [Dispatch!Next]_Dispatch!vars
  <2>1. CASE StartScript(a)
    BY <2>1, ScriptStarts
  <2>2. CASE \/ Poll(a) \/ Receive(a) \/ AgentRestart(a) \/ \E c \in Conns : Post(a, c)
             \/ \E v \in {"succeeded", "failed"} : FinishScript(a, v)
    BY <1>2, <2>2 DEF Poll, Receive, AgentRestart, Post, FinishScript
  <2> QED BY <1>5, <2>1, <2>2 DEF AgentStep
<1>6. CASE Fault
  BY <1>2, <1>6 DEF Fault, MasterRestart, AttemptFails, AgentCrash
<1>7. CASE UNCHANGED vars
  BY <1>2, <1>7 DEF vars
<1> QED BY <1>3, <1>4, <1>5, <1>6, <1>7 DEF Next

LEMMA InitDispatches == Init => Dispatch!Init
  BY DEF Init, Dispatch!Init, Dispatch!Ids, TaskIds, NoTask

(* The engine implements the safety part of TaskDispatch: tasks leave the  *)
(* queue of their server oldest first and once, and every agent starts its *)
(* scripts in the order the tasks were created.                            *)
THEOREM EngineDispatches == Safe => DispatchSafe
<1>1. Safe => [](EngineInv /\ OrderInv)
  BY InitInv, NextInv, InitOrder, NextOrder, PTL DEF Safe
<1> QED BY <1>1, InitDispatches, StepDispatches, PTL DEF Safe, DispatchSafe, Dispatch!Safe
=============================================================================
