------------------------------ MODULE Outboxes ------------------------------
(* An outbox of crypto.db: items in the order they were saved, each removed *)
(* by its identifier when the relay has answered it.                        *)
EXTENDS Integers, Sequences, Functions

\* Mutant: the item after it is removed.
DeleteAfter(s, k) == SubSeq(s, 1, k) \o SubSeq(s, k + 2, Len(s))

\* The outbox s without item f: the item at its position is removed.
DeleteAt(s, k) == SubSeq(s, 1, k - 1) \o SubSeq(s, k + 1, Len(s))
Without(s, f) ==
  IF f \in Range(s) THEN DeleteAt(s, CHOOSE k \in DOMAIN s : s[k] = f) ELSE s

=============================================================================
