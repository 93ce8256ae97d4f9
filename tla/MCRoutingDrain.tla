--------------------------- MODULE MCRoutingDrain ---------------------------
(* TLC instances of RoutingDrain: the procurements are model values.       *)
EXTENDS RoutingDrain

CONSTANTS p1
=============================================================================
