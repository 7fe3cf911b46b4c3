---------------------------- MODULE MCTaskEngine ----------------------------
(***************************************************************************)
(* Small instances of TaskEngine.  Two agents of one server compete for    *)
(* its queue (a machine restored from an image keeps server id and token); *)
(* two agents of two servers must not.                                     *)
(***************************************************************************)
EXTENDS TaskEngine, TLC

CONSTANTS a1, a2, s1, s2, c1, c2, c3

OneServer   == {s1}
TwoServers  == {s1, s2}
OneAgent    == {a1}
TwoAgents   == {a1, a2}
SoloHome    == [a \in OneAgent |-> s1]
SharedHome  == [a \in TwoAgents |-> s1]
SplitHome   == (a1 :> s1) @@ (a2 :> s2)
TwoConns    == {c1, c2}
ThreeConns  == {c1, c2, c3}

Interchangeable == Permutations(Conns)
=============================================================================
