----------------------------- MODULE MCGroupSync -----------------------------
(* GroupSync for TLC: two shapes are one that is revoked and one that stays. *)
EXTENDS GroupSync
=============================================================================
