----------------------------- MODULE MCTunnels -----------------------------
(* What leads to a node: the pool of tunnels that visitors come through, and *)
(* the link to its master over which commands come.  The two share no state, *)
(* so that each has its part of the behaviours.                              *)
EXTENDS TunnelPool, Sequences, TLC

CONSTANTS
    n1, n2, n3, c1, c2,                             \* tunnels
    LinkConns, Receivers, Commands, NoConn, MaxLost \* link

VARIABLES
    part,                                           \* who runs
    conn, connected, main, recv, open, works, down, sending, executed, lost,
    alive, session, online, est, found, clo, req, upset

linkVars == <<conn, connected, main, recv, open, works, down, sending, executed,
              lost, alive, session, online, est, found, clo, req, upset>>

Link == INSTANCE NodeLink WITH
    Conns <- LinkConns, Requests <- Commands, None <- NoConn, MaxLosses <- MaxLost,
    up <- sending, losses <- lost

ASSUME LinkAssumption == Link!Node!ReporterAssumption

Three == {n1, n2, n3}
Both  == {c1, c2}
Tcp   == [net |-> "tcp", top |-> FALSE]
Udp   == [net |-> "udp", top |-> FALSE]
Two   == {Tcp, Udp}

(* As nodes and connectors have no names in TunnelPool, the first connector  *)
(* can be one of the first node; the second differs from it in one thing,    *)
(* and the third node has visitors only.  The first may have no entry point. *)
MCInit ==
    /\ part \in {"tunnels", "link"}
    /\ Init /\ home[c1] = n1 /\ kind[c1] = Tcp
    /\ home[c2] = n1 \/ (home[c2] = n2 /\ kind[c2] = Tcp)
    /\ entry = Nodes \/ (entry = Nodes \ {n1} /\ home[c2] = n2)
    /\ part # "tunnels" => home[c2] = n1 /\ kind[c2] = Tcp /\ entry = Nodes
    /\ Link!Init

MCNext ==
    /\ \/ part = "tunnels" /\ Next /\ UNCHANGED linkVars
       \/ part = "link" /\ Link!Next /\ UNCHANGED vars
    /\ UNCHANGED part

MCSpec == MCInit /\ [][MCNext]_<<part, vars, linkVars>>

Interchangeable == Permutations(Receivers)

(* Every variable keeps its type; those of the part that does not run keep   *)
(* their values.                                                             *)
TypesOK == TypeOK /\ Link!TypeOK

(* The master's session is the node's connection, and no command runs twice. *)
LinkIsRight == part = "link" => Link!SettledIsReachable /\ Link!ExecutedOnce
=============================================================================
