----------------------------- MODULE MCSessions ------------------------------
(* Sessions for TLC: alice writes more than bob, so that the limit of skipped *)
(* keys is reached with MAX_SKIP = 1.                                         *)
EXTENDS Sessions

CONSTANTS alice, bob

MCParties == {alice, bob}
MCMaxSent == [p \in Parties |-> IF p = alice THEN 4 ELSE 1]
MCMaxFetches == [p \in Parties |-> IF p = alice THEN 2 ELSE 1]
=============================================================================
