----------------------------- MODULE MCDelivery -----------------------------
(* Instances of Delivery for TLC. *)
EXTENDS Delivery, TLC

CONSTANTS a, b, m1, m2, a1, a2, b1, b2

MCUsers  == {a, b}
MCOpens  == {<<a, b>>}
MCOwner  == [c \in Conns |-> IF c \in {a1, a2} THEN a ELSE b]

\* Both messages go from a to b.
OneWayFrom == [m \in Msgs |-> a]
OneWayTo   == [m \in Msgs |-> b]

Drops(x, y) == [u \in Users |-> IF u = a THEN x ELSE y]
Drops00 == Drops(0, 0)
Drops01 == Drops(0, 1)
Drops10 == Drops(1, 0)
Drops11 == Drops(1, 1)
Drops20 == Drops(2, 0)

\* Connections of one user are alike.
Symmetry == Permutations({a1, a2}) \cup Permutations({b1, b2})
=============================================================================
