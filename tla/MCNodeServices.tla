--------------------------- MODULE MCNodeServices ---------------------------
(* One service of a node that is paused over its REST interface.             *)
EXTENDS NodeServices

CONSTANTS a, x, rest1

OneName    == {a}
OneAddr    == {x}
OneRequest == {rest1}
=============================================================================
