--------------------------- MODULE MCProjectionSync ---------------------------
(* Lots do not touch each other's rows: one is enough, with two syncs.      *)
EXTENDS ProjectionSync

CONSTANTS lot, timer, operator
=============================================================================
