------------------------------- MODULE Mailbox -------------------------------
(***************************************************************************)
(* What sending a message promises, without outboxes, queues or            *)
(* connections: a submitted message stays in flight until it is in the     *)
(* recipient's history, or the sender is told that the relay refused it,   *)
(* or it has waited for 30 days.  A refused message is never delivered, and *)
(* nothing is delivered that was not submitted.                            *)
(***************************************************************************)
CONSTANT Msgs

VARIABLE status

Status == {"unsent", "inflight", "delivered", "refused", "expired"}

Init == status = [m \in Msgs |-> "unsent"]

Move(m, from, to) ==
  /\ status[m] \in from
  /\ status' = [status EXCEPT ![m] = to]

Submit(m)  == Move(m, {"unsent"}, "inflight")
Refuse(m)  == Move(m, {"inflight"}, "refused")
Expire(m)  == Move(m, {"inflight"}, "expired")

\* A copy that was already on its way may still arrive after the expiry.
Deposit(m) == Move(m, {"inflight", "expired"}, "delivered")

Next == \E m \in Msgs : Submit(m) \/ Refuse(m) \/ Expire(m) \/ Deposit(m)

Spec == Init /\ [][Next]_status
=============================================================================
