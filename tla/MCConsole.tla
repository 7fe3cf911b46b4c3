----------------------------- MODULE MCConsole -----------------------------
(* What the console does to the server registry, and what it does to tasks:  *)
(* two servers that join, and, in the other half of the behaviours, two      *)
(* servers with an agent each while the console uses every operation of the  *)
(* task service.                                                             *)
EXTENDS AgentJoin, TLC

CONSTANTS e1, e2, a1, a2, NoAgent, NoConn

VARIABLES
    part,                                                      \* who runs
    lastId, state, server, trusted, conn, pc, held, wait,      \* the engine
    attempt, verdict, faults, crashes, claims, runs, outcome, lastRun

Engine == INSTANCE TaskEngine WITH
    Servers      <- {e1, e2},
    Agents       <- {a1, a2},
    Home         <- (a1 :> e1) @@ (a2 :> e2),
    MaxTasks     <- 2,
    MaxAttempts  <- 1,
    ClaimTries   <- 1,
    MaxFaults    <- 0,
    MaxCrashes   <- 0,
    ConsoleOps   <- {"update", "retry", "delete", "rotate"}

engineVars == <<lastId, state, server, trusted, conn, pc, held, wait, attempt,
                verdict, faults, crashes, claims, runs, outcome, lastRun>>

MCInit == Init /\ Engine!Init /\ part \in {"join", "tasks"}

MCNext ==
    \/ part = "join" /\ Next /\ UNCHANGED <<part, engineVars>>
    \/ part = "tasks" /\ Engine!Next /\ UNCHANGED <<part, vars>>

MCSpec == MCInit /\ [][MCNext]_<<part, vars, engineVars>>

(* Whatever the console does to tasks, they still behave as TaskDispatch     *)
(* allows: no change of a state puts a task back into a queue.               *)
DispatchSafe == Engine!DispatchSafe

Interchangeable ==
    Permutations(Servers) \cup Permutations(Machines) \cup Permutations(Conns)
=============================================================================
