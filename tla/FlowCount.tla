----------------------------- MODULE FlowCount ------------------------------
(***************************************************************************)
(* The traffic of one user, from the byte counters of its services on the  *)
(* node to the user's quota on the master.                                 *)
(*                                                                         *)
(* Connections add to a service's counter.  Every few seconds the service  *)
(* posts the counter to the master and, when the answer is "ok", subtracts *)
(* what it has posted.  The master adds it to the user's total and, when   *)
(* that exceeds the user's limit, pauses the reporting service and marks   *)
(* all the user's forwards as paused.                                      *)
(***************************************************************************)
EXTENDS Integers, FiniteSets

CONSTANTS
    Services,     \* the user's services, one per forward
    Posts,        \* identities of requests at the master
    None,         \* no request
    Limit,        \* the user's quota
    MaxBytes,     \* bound: bytes in a counter
    MaxFailures   \* bound: requests lost or timed out, pauses that do not arrive

ASSUME FlowAssumption ==
    /\ {Limit, MaxFailures} \subseteq Nat
    /\ MaxBytes \in Nat \ {0}
    /\ None \notin Posts

VARIABLES
    bytes,     \* service -> its counter
    updated,   \* service -> the counter has changed since it was last looked at
    reporter,  \* service -> [pc, amount, post, added] of its observeStats goroutine
    posts,     \* request -> [pc, svc, amount] at the master
    total,     \* the user's traffic (bound: Limit + 1 stands for all above)
    running,   \* the services that accept connections
    active,    \* the forwards whose row says running
    debt,      \* history: service -> bytes carried and neither counted nor in bytes
    raced,     \* history: bytes were added while the counter was being reset
    failures,
    failed     \* history: a request was lost or timed out

vars == <<bytes, updated, reporter, posts, total, running, active, debt, raced,
          failures, failed>>

Idle == [pc |-> "idle", amount |-> 0, post |-> None, added |-> FALSE]
Done == [pc |-> "none", svc |-> None, amount |-> 0]

Init ==
    /\ bytes = [s \in Services |-> 0]
    /\ updated = [s \in Services |-> FALSE]
    /\ reporter = [s \in Services |-> Idle]
    /\ posts = [p \in Posts |-> Done]
    /\ total = 0
    /\ running = Services
    /\ active = Services
    /\ debt = [s \in Services |-> 0]
    /\ raced = FALSE
    /\ failures = 0
    /\ failed = FALSE

(* Bound: a debt is known up to MaxDebt either way.                        *)
MaxDebt == 2 * MaxBytes
Owes(s, n) ==
    LET d == debt[s] + n IN
    debt' = [debt EXCEPT ![s] = IF d > MaxDebt THEN MaxDebt
                                ELSE IF d < -MaxDebt THEN -MaxDebt ELSE d]

-----------------------------------------------------------------------------
(* A connection of the service reads or writes: Stats.Add.                 *)
Add(s) ==
    /\ s \in running
    /\ bytes[s] < MaxBytes
    /\ bytes' = [bytes EXCEPT ![s] = @ + 1]
    /\ updated' = [updated EXCEPT ![s] = TRUE]
    /\ reporter' = [reporter EXCEPT ![s].added = (reporter[s].pc = "store")]
    /\ UNCHANGED <<posts, total, running, active, debt, raced, failures, failed>>

(* A tick of observeStats takes the flag down and posts the counter.       *)
Report(s) ==
    /\ reporter[s] = Idle
    /\ updated[s]
    /\ updated' = [updated EXCEPT ![s] = FALSE]
    /\ IF bytes[s] = 0 THEN UNCHANGED <<reporter, posts>>
       ELSE \E p \in Posts :
              /\ posts[p] = Done
              /\ posts' = [posts EXCEPT ![p] =
                             [pc |-> "count", svc |-> s, amount |-> bytes[s]]]
              /\ reporter' = [reporter EXCEPT ![s] =
                                [Idle EXCEPT !.pc = "posted", !.amount = bytes[s],
                                             !.post = p]]
    /\ UNCHANGED <<bytes, total, running, active, debt, raced, failures, failed>>

(* The request does not arrive, or no answer comes in five seconds: the    *)
(* counter stays as it is, and so does the flag that is down.              *)
GiveUp(s) ==
    /\ reporter[s].pc = "posted"
    /\ failures < MaxFailures
    /\ failures' = failures + 1
    /\ failed' = TRUE
    /\ reporter' = [reporter EXCEPT ![s] = Idle]
    /\ posts' \in {posts, IF posts[reporter[s].post].pc = "count"
                          THEN [posts EXCEPT ![reporter[s].post] = Done] ELSE posts}
    /\ UNCHANGED <<bytes, updated, total, running, active, debt, raced>>

(* Mutant: the counter is set to zero, whatever came since the report.     *)
Load_Nothing(s) ==
    /\ reporter[s].pc = "ok"
    /\ reporter' = [reporter EXCEPT ![s].pc = "store", ![s].amount = 0]
    /\ UNCHANGED <<bytes, updated, posts, total, running, active, debt, raced,
                   failures, failed>>

(* Mutant: the operands of the difference are swapped.                     *)
Load_Swapped(s) ==
    /\ reporter[s].pc = "ok"
    /\ reporter' = [reporter EXCEPT ![s].pc = "store",
                                    ![s].amount = reporter[s].amount - bytes[s]]
    /\ UNCHANGED <<bytes, updated, posts, total, running, active, debt, raced,
                   failures, failed>>

(* ResetTraffic(Get() - reported): a load, then a store of the difference. *)
Load(s) ==
    /\ reporter[s].pc = "ok"
    /\ reporter' = [reporter EXCEPT ![s].pc = "store",
                                    ![s].amount = bytes[s] - reporter[s].amount]
    /\ UNCHANGED <<bytes, updated, posts, total, running, active, debt, raced,
                   failures, failed>>

Store(s) ==
    /\ reporter[s].pc = "store"
    /\ bytes' = [bytes EXCEPT ![s] = reporter[s].amount]
    /\ Owes(s, bytes[s] - reporter[s].amount)
    /\ raced' = (raced \/ reporter[s].added)
    /\ reporter' = [reporter EXCEPT ![s] = Idle]
    /\ UNCHANGED <<updated, posts, total, running, active, failures, failed>>

-----------------------------------------------------------------------------
(* processFlowData: the totals grow, then the user is read again.          *)
Capped(n) == IF n > Limit + 1 THEN Limit + 1 ELSE n

Count(p) ==
    /\ posts[p].pc = "count"
    /\ total' = Capped(total + posts[p].amount)
    /\ Owes(posts[p].svc, -posts[p].amount)
    /\ posts' = [posts EXCEPT ![p].pc = "check"]
    /\ UNCHANGED <<bytes, updated, reporter, running, active, raced, failures, failed>>

(* Mutant: only the forward that is not yet marked as paused is paused.    *)
Check_Once(p) ==
    /\ posts[p].pc = "check"
    /\ IF total > Limit /\ active # {}
       THEN /\ active' = {}
            /\ \/ running' = running \ {posts[p].svc} /\ UNCHANGED failures
               \/ /\ failures < MaxFailures
                  /\ failures' = failures + 1
                  /\ UNCHANGED running
       ELSE UNCHANGED <<active, running, failures>>
    /\ posts' = [posts EXCEPT ![p].pc = "answer"]
    /\ UNCHANGED <<bytes, updated, reporter, total, debt, raced, failed>>

(* pauseAllUserServices walks through the forwards of the user: it sends   *)
(* the pause of the reporting service, once per forward, and marks the     *)
(* forward.  A pause that does not arrive is not noticed.                  *)
Check(p) ==
    /\ posts[p].pc = "check"
    /\ IF total > Limit
       THEN /\ active' = {}
            /\ \/ running' = running \ {posts[p].svc} /\ UNCHANGED failures
               \/ /\ failures < MaxFailures
                  /\ failures' = failures + 1
                  /\ UNCHANGED running
       ELSE UNCHANGED <<active, running, failures>>
    /\ posts' = [posts EXCEPT ![p].pc = "answer"]
    /\ UNCHANGED <<bytes, updated, reporter, total, debt, raced, failed>>

Reply(p) ==
    /\ posts[p].pc = "answer"
    /\ posts' = [posts EXCEPT ![p] = Done]
    /\ reporter' = [s \in Services |->
                      IF reporter[s].post = p
                      THEN [reporter[s] EXCEPT !.pc = "ok", !.post = None]
                      ELSE reporter[s]]
    /\ UNCHANGED <<bytes, updated, total, running, active, debt, raced, failures, failed>>

-----------------------------------------------------------------------------
Reporter(s) == Report(s) \/ Load(s) \/ Store(s)
Handler(p) == Count(p) \/ Check(p) \/ Reply(p)

Next ==
    \/ \E s \in Services : Add(s) \/ Reporter(s) \/ GiveUp(s)
    \/ \E p \in Posts : Handler(p)

(* Ticks come, and the master's threads run.                               *)
Fairness ==
    /\ \A s \in Services : WF_vars(Reporter(s))
    /\ \A p \in Posts : WF_vars(Handler(p))

Spec == Init /\ [][Next]_vars /\ Fairness

-----------------------------------------------------------------------------
TypeOK ==
    /\ bytes \in [Services -> 0..MaxBytes]
    /\ updated \in [Services -> BOOLEAN]
    /\ reporter \in [Services -> [pc : {"idle", "posted", "ok", "store"},
                                  amount : 0..MaxBytes, post : Posts \cup {None},
                                  added : BOOLEAN]]
    /\ posts \in [Posts -> [pc : {"none", "count", "check", "answer"},
                            svc : Services \cup {None}, amount : 0..MaxBytes]]
    /\ total \in 0..(Limit + 1)
    /\ running \subseteq Services /\ active \subseteq Services
    /\ debt \in [Services -> (-MaxDebt)..MaxDebt]
    /\ {raced, failed} \subseteq BOOLEAN
    /\ failures \in 0..MaxFailures

(* Between reports, no byte has been charged twice unless a post timed out *)
(* or was lost, and none has been forgotten unless traffic went on while   *)
(* the counter was being reset.                                            *)
BilledOnce ==
    \A s \in Services : reporter[s].pc = "idle" =>
        /\ ~failed => debt[s] >= 0
        /\ ~raced => debt[s] <= 0

Enforced ==
    \A s \in Services :
        (total > Limit /\ \E p \in Posts : posts[p].pc = "check" /\ posts[p].svc = s)
            => s \notin running

(* A service that keeps reporting traffic of a user over the limit gets    *)
(* paused, although pauses can get lost.                                   *)
OverLimitIsPaused == <>[]Enforced
=============================================================================
