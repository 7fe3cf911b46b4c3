------------------------------- MODULE MCNode -------------------------------
(* What a node keeps: its services and its other objects.  The two share no  *)
(* state at this level of detail, so that each has its part of the           *)
(* behaviours.                                                               *)
EXTENDS NodeServices

CONSTANTS
    a, b, x, y, socket1, rest1, hup,
    o                                               \* objects

VARIABLES
    part,                                           \* who runs
    play, objects, described, form, keeping, objectJob, objectCommands,
    objectOverlap, aborted

objectVars  == <<play, objects, described, form, keeping, objectJob, objectCommands,
                 objectOverlap, aborted>>

TwoNames   == {a, b}
TwoAddrs   == {x, y}
OneSocket  == {socket1}
OneRequest == {rest1}
OneSignal  == {hup}

Objects == INSTANCE NodeObjects WITH
    Names <- {o}, Sockets <- {socket1}, Requests <- {rest1}, Reloaders <- {hup},
    Focus <- {{"auther", "hop"}, {"chain"}},
    MaxObjects <- 3, MaxCommands <- 3, MaxFile <- 2,
    registry <- objects, config <- described, running <- keeping,
    job <- objectJob, commands <- objectCommands, overlap <- objectOverlap

ASSUME Objects!ObjectsAssumption

MCInit == part \in {"services", "objects"} /\ Init /\ Objects!Init

MCNext ==
    /\ \/ part = "services" /\ Next /\ UNCHANGED objectVars
       \/ part = "objects" /\ Objects!Next /\ UNCHANGED vars
    /\ UNCHANGED part

MCSpec == MCInit /\ [][MCNext]_<<part, vars, objectVars>>

(* Bound: commands overlap among the first two.                              *)
OverlapBound == overlap => commands <= 2

(* Every variable keeps its type; those of the part that does not run keep   *)
(* their values.                                                             *)
TypesOK == TypeOK /\ Objects!TypeOK

(* The objects described are those in use, and nothing else keeps anything.  *)
ObjectsAreInUse == part = "objects" => Objects!ConfigIsInUse /\ Objects!NothingLeaks
=============================================================================
