-------------------------- MODULE MCRecoveryMarker --------------------------
(* Instances of RecoveryMarker for TLC. *)
EXTENDS RecoveryMarker

CONSTANTS f, u, w

=============================================================================
