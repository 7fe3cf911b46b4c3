------------------------------ MODULE MCMaster ------------------------------
(* The node service and the task engine under fairness.  The two share no    *)
(* state here, so that one of them runs in half of the behaviours and the    *)
(* other in the rest.                                                        *)
EXTENDS ProtocolNodes, TLC

CONSTANTS a1, s1, c1, c2, n1, p1, p2, h1, h2, NoServer, NoAgent

VARIABLES
    part,                                        \* who runs
    lastId, state, server, trusted, conn,        \* the engine and its agent
    enginePc, engineHeld, engineWait, attempt, verdict, claims, runs, ended,
    lastRun, engineFaults, engineCrashes

engineVars == <<lastId, state, server, trusted, conn, enginePc, engineHeld, engineWait,
                attempt, verdict, claims, runs, ended, lastRun, engineFaults,
                engineCrashes>>
allVars    == <<part, vars, engineVars>>

OneRow      == {n1}
TwoPorts    == {p1, p2}
TwoRequests == {h1, h2}
OneConn     == {c1}

Engine == INSTANCE TaskEngine WITH
    Servers <- {s1}, Agents <- {a1}, Home <- [a \in {a1} |-> s1],
    Conns   <- {c1, c2},
    MaxTasks <- 2, MaxAttempts <- 2, ClaimTries <- 2, MaxFaults <- 1, MaxCrashes <- 1,
    ConsoleOps <- {"delete"},
    pc <- enginePc, held <- engineHeld, wait <- engineWait, outcome <- ended,
    faults <- engineFaults, crashes <- engineCrashes

MCInit == Init /\ Engine!Init /\ part \in {"engine", "nodes"}

Tasks(A) == part = "engine" /\ A /\ UNCHANGED <<part, vars>>
Nodes(A) == part = "nodes" /\ A /\ UNCHANGED <<part, engineVars>>

MCNext ==
    \/ Tasks(Engine!Next)
    \/ Nodes(Next)

\* The fairness of TaskEngine and of ProtocolNodes.  As "part" never changes,
\* fairness of a disjunction is fairness of each side in its own behaviours.
MCFairness ==
    /\ WF_allVars(Tasks(Engine!Handle(c1)) \/ Nodes(HandleRequest(h1)))
    /\ WF_allVars(Tasks(Engine!Handle(c2)) \/ Nodes(HandleRequest(h2)))
    /\ WF_allVars(Tasks(Engine!AgentStep(a1)) \/ Nodes(AgentStep))
    /\ WF_allVars(Tasks(Engine!AttemptFails(a1) /\ UNCHANGED engineFaults)
                   \/ Nodes(AttemptFails /\ UNCHANGED faults))
    /\ WF_allVars(Nodes(HandleReport(c1)))

MCSpec == MCInit /\ [][MCNext]_allVars /\ MCFairness

(* What TaskEngine says: the engine does what TaskDispatch promises, the     *)
(* agent's loop comes round, and what is claimed is reported.                *)
DispatchSpec          == Engine!DispatchSpec
AgentComesRound       == Engine!AgentComesRound
UndisturbedIsReported == Engine!UndisturbedIsReported
=============================================================================
