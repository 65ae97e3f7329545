----------------------------- MODULE MCEventLane -----------------------------
(* Instances of EventLane for TLC: one stream, a long-lived runner and a host   *)
(* that drains on a schedule.                                                   *)
EXTENDS EventLane

CONSTANTS e1, e2, a, p1, p2

OneStream == [e \in Events |-> a]
Caps == [s \in {a} |-> 2]
LoopAndDrain == [p \in {p1, p2} |-> [mode |-> IF p = p1 THEN "loop" ELSE "drain", streams |-> {a}]]
=============================================================================
