----------------------------- MODULE MCReceipts -----------------------------
(***************************************************************************)
(* Bounded instance of Receipts: messages are interchangeable.              *)
(***************************************************************************)
EXTENDS Receipts, TLC

Symmetry == Permutations(Msgs)
=============================================================================
