---------------------------- MODULE MCConnections ----------------------------
(* Two people with the same name; the first has two connections and may *)
(* start the client twice.                                               *)
EXTENDS Connections

CONSTANTS u1, u2, a1, a2, b1

MCOwner == [c \in Conns |-> IF c = b1 THEN u2 ELSE u1]
MCStarts == [u \in Clients |-> IF u = u2 THEN 1 ELSE 2]

=============================================================================
