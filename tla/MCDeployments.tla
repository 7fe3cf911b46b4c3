---------------------------- MODULE MCDeployments ----------------------------
(* A small instance of the two services that deploy rows: the rows are Snell *)
(* nodes in one half of the behaviours and forward rules in the other.       *)
EXTENDS ProtocolNodes, TLC

CONSTANTS n1, p1, h1, h2, c1, c2

VARIABLE service

Rules == INSTANCE ForwardRules

OneRow      == {n1}
OnePort     == {p1}
TwoRequests == {h1, h2}
TwoConns    == {c1, c2}

MCInit == Init /\ service \in {"nodes", "rules"}

MCNext ==
    /\ \/ service = "nodes" /\ Next
       \/ service = "rules" /\ Rules!Next
    /\ UNCHANGED service

MCSpec == MCInit /\ [][MCNext]_<<vars, service>>

(* Bound: of a row's history either one call is lost or one process dies.    *)
OneMishap == faults + crashes <= 1

Interchangeable == Permutations(Requests) \cup Permutations(Conns)
=============================================================================
