--------------------------- MODULE MCAnalyticsCache ---------------------------
(* The timer and the button; one page, which changes nothing.               *)
EXTENDS AnalyticsCache

CONSTANTS timer, button
=============================================================================
