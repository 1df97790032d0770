--------------------------- MODULE MCConversations ---------------------------
(* peer1 writes two messages, with a new identity key in the second; peer2 *)
(* writes one that needs a session.                                        *)
EXTENDS Conversations

CONSTANTS peer1, peer2, k1, k2, k3, m1, m2, n1, t1

MCFrom   == [m \in Msgs |-> IF m = n1 THEN peer2 ELSE peer1]
MCKeyOf  == [m \in Msgs |-> CASE m = m1 -> k1 [] m = m2 -> k2 [] m = n1 -> None]
MCBundle == [u \in Peers |-> IF u = peer1 THEN k1 ELSE k3]
MCPages  == {<<m1, m2>>, <<m1, n1>>}

=============================================================================
