------------------------- MODULE MCEnginePlacement -------------------------
EXTENDS EnginePlacement, TLC
CONSTANTS a, b, c1, c2
\* The second page makes the calls.
Owners == [c \in Calls |-> b]
AllMutations == [c \in Calls |-> "mutation"]
=============================================================================
