------------------------ MODULE MCRoutingAssessment ------------------------
(* TLC instances of RoutingAssessment: the procurements are model values.  *)
EXTENDS RoutingAssessment

CONSTANTS p1
=============================================================================
