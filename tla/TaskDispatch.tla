---------------------------- MODULE TaskDispatch ----------------------------
(***************************************************************************)
(* What the task engine promises the operator, whatever the network does.  *)
(* A task is submitted for one server and waits there.  It leaves the      *)
(* queue exactly once: dispatched to an agent, oldest first, or withdrawn  *)
(* by the console.  Only a dispatched task is ever started, at most once,  *)
(* and every agent starts its tasks in the order they were submitted.      *)
(* Nothing is promised about a task being started after its dispatch: the  *)
(* answer of the claim may be lost.                                        *)
(***************************************************************************)
EXTENDS Naturals

CONSTANTS
    Servers,   \* server records of the control center
    NoServer,  \* the server of a task that was never submitted
    Agents,    \* agent processes
    Home,      \* Home[a]: the server the agent process a was installed for
    MaxTasks   \* bound: task ids are 1..MaxTasks

Ids == 1..MaxTasks

VARIABLES
    top,         \* largest id ever given to a task
    home,        \* home[t]: the server t was submitted for
    pending,     \* tasks waiting in the queue
    dispatched,  \* tasks handed to an agent
    runs,        \* runs[t]: how often the script of t was started
    last         \* last[a]: the task agent a started last, 0 for none

vars == <<top, home, pending, dispatched, runs, last>>

Init ==
    /\ top = 0
    /\ home = [t \in Ids |-> NoServer]
    /\ pending = {}
    /\ dispatched = {}
    /\ runs = [t \in Ids |-> 0]
    /\ last = [a \in Agents |-> 0]

Submit(s) ==
    /\ top < MaxTasks
    /\ top' = top + 1
    /\ home' = [home EXCEPT ![top + 1] = s]
    /\ pending' = pending \cup {top + 1}
    /\ UNCHANGED <<dispatched, runs, last>>

QueueOf(s) == {t \in pending : home[t] = s}

Dispatch(s) ==
    \E t \in QueueOf(s) :
        /\ \A u \in QueueOf(s) : t <= u
        /\ pending' = pending \ {t}
        /\ dispatched' = dispatched \cup {t}
        /\ UNCHANGED <<top, home, runs, last>>

Withdraw(t) ==
    /\ t \in pending
    /\ pending' = pending \ {t}
    /\ UNCHANGED <<top, home, dispatched, runs, last>>

Start(a, t) ==
    /\ t \in dispatched
    /\ home[t] = Home[a]
    /\ runs[t] = 0
    /\ last[a] < t
    /\ runs' = [runs EXCEPT ![t] = 1]
    /\ last' = [last EXCEPT ![a] = t]
    /\ UNCHANGED <<top, home, pending, dispatched>>

Next ==
    \/ \E s \in Servers : Submit(s) \/ Dispatch(s)
    \/ \E t \in Ids : Withdraw(t)
    \/ \E a \in Agents, t \in Ids : Start(a, t)

Safe == Init /\ [][Next]_vars

\* A server somebody runs an agent for does not leave its queue alone.
Fairness == \A a \in Agents : WF_vars(Dispatch(Home[a]))

Spec == Safe /\ Fairness
=============================================================================
