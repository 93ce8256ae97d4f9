--------------------------- MODULE MCDocumentQueue ---------------------------
(* Small instances of DocumentQueue: a runner that raises, an operator that *)
(* re-opens, two daemons.                                                   *)
EXTENDS DocumentQueue

CONSTANTS p1, p2, w1, w2, runner, operator
=============================================================================
