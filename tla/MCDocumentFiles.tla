--------------------------- MODULE MCDocumentFiles ---------------------------
(* Two files of one tender: in the first the keyword is on every page, in   *)
(* the second on the last one only.  Two pages of the first show the same.  *)
EXTENDS DocumentFiles

CONSTANTS estimate, notice

Found == [f \in {estimate, notice} |-> IF f = estimate THEN 1..Pages ELSE {Pages}]

Texts == [f \in {estimate, notice} |-> [p \in 1..Pages |-> IF f = estimate /\ p > 1 THEN 2 ELSE 1]]
=============================================================================
