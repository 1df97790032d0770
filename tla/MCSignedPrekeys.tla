--------------------------- MODULE MCSignedPrekeys ---------------------------
(* SignedPrekeys for TLC.  A rotation is due every second unit of time, and *)
(* a queued message is collected after two.                                 *)
EXTENDS SignedPrekeys
=============================================================================
