-------------------------- MODULE MCRepackedStore --------------------------
(* An instance of RepackedStore for TLC: names are interchangeable. *)
EXTENDS RepackedStore, TLC

NameSymmetry == Permutations(Names)
=============================================================================
