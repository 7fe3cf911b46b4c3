---------------------------- MODULE MCAgentJoin ----------------------------
(***************************************************************************)
(* Small instances of AgentJoin.  Machines and connections are             *)
(* interchangeable, and so are the servers.                                *)
(***************************************************************************)
EXTENDS AgentJoin, TLC

Interchangeable ==
    Permutations(Servers) \cup Permutations(Machines) \cup Permutations(Conns)
=============================================================================
