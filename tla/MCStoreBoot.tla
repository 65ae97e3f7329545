---------------------------- MODULE MCStoreBoot ----------------------------
EXTENDS StoreBoot, TLC

ContextSymmetry == Permutations(Contexts)
=============================================================================
