------------------------- MODULE MCMutationJournal -------------------------
(* Instances of MutationJournal for TLC. *)
EXTENDS MutationJournal, TLC

CONSTANTS a, b

\* The entities are interchangeable.
Symmetry == Permutations(Entities)
=============================================================================
