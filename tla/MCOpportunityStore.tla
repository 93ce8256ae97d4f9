-------------------------- MODULE MCOpportunityStore --------------------------
(* Small instances: two procurements that may be one purchase seen twice,   *)
(* and opportunities with and without subcategory.                          *)
EXTENDS OpportunityStore

CONSTANTS first, second, unnamed, indoor, one, other

(* Nothing tells one sync from another. *)
SyncSymmetry == Permutations({one, other})

Opp(proc, sub, track) == [proc |-> proc, cat |-> "lighting", sub |-> sub, track |-> track]

TwinIdentity == [x \in {first, second} |-> first]
PairKeys ==
    {Opp(first, unnamed, "DIRECT_SUPPLY"), Opp(first, indoor, "DIRECT_SUPPLY"), Opp(second, unnamed, "EMBEDDED_MATERIAL")}
OwnIdentity == [x \in {first} |-> x]
LineKeys == {Opp(first, unnamed, "DIRECT_SUPPLY"), Opp(first, indoor, "DIRECT_SUPPLY")}
=============================================================================
