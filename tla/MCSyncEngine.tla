---------------------------- MODULE MCSyncEngine ----------------------------
(* Instances of SyncEngine for TLC. *)
EXTENDS SyncEngine

CONSTANTS s1, s2, k1, k2, k3

\* Two scopes of one table, with two rows and one.
Names == <<s1, s2>>
OneTable == [s \in {s1, s2} |-> "t"]
Homes == [k \in {k1, k2, k3} |-> IF k = k3 THEN s2 ELSE s1]

\* One shape with two rows.
OneName == <<s1>>
ItsTable == [s \in {s1} |-> "t"]
OneHome == [k \in {k1, k2} |-> s1]
=============================================================================
