------------------------------ MODULE MCPrekeys ------------------------------
(* Instances of Prekeys for TLC. *)
EXTENDS Prekeys, TLC

Symmetry == Permutations(Requesters)
=============================================================================
