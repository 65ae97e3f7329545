----------------------------- MODULE GroupReplica -----------------------------
(***************************************************************************)
(* What the read path promises about one consistency group: at every       *)
(* instant, whatever was lost, retried or restarted, the local rows are    *)
(* those of one position in every shape's stream, the position that is     *)
(* recorded beside them.  Positions only move forward on a stream, and a   *)
(* stream that was replaced is never gone back to.                         *)
(*                                                                         *)
(* SyncEngine is shown to implement this specification.                    *)
(***************************************************************************)
EXTENDS Naturals, Sequences, SequencesExt

CONSTANTS Shapes, TableOf

VARIABLES
    streams,   \* shape -> the logs of its streams, one per handle, oldest first
    cursor,    \* <<>>, or shape -> the handle and the offset the rows stand for
    rows       \* the local rows of the group

Start(s) == [handle |-> 1, offset |-> 0]
NoCursor == [s \in Shapes |-> Start(s)]

\* One change applied to the rows, in stream order: the reference the bulk
\* appliers are compared with.  `own` is the local-only column: an upsert of a
\* row that exists keeps it.
OrderedApply(R, t, s, c) ==
    LET others == {r \in R : ~(r.table = t /\ r.key = c.key)}
    IN  IF c.op = "delete" THEN others
        ELSE others \cup {[table |-> t, key |-> c.key, val |-> c.val, scope |-> s,
                           own |-> \E r \in R : r.table = t /\ r.key = c.key /\ r.own]}

OrderedApplyAll(R, t, s, changes) ==
    FoldLeft(LAMBDA acc, c : OrderedApply(acc, t, s, c), R, changes)

Prefix(s, at) == SubSeq(streams[s][at.handle], 1, at.offset)

\* The rows a cursor stands for.
Shown(cur) ==
    UNION {OrderedApplyAll({}, TableOf[s], s, Prefix(s, cur[s])) : s \in Shapes}

Later(old, new) ==
    \/ new.handle = old.handle /\ new.offset >= old.offset
    \/ new.handle > old.handle

Init ==
    /\ streams = [s \in Shapes |-> <<<<>>>>]
    /\ cursor = NoCursor
    /\ rows = {}

\* The sync server appends to streams and replaces them (external).
Serve ==
    /\ \A s \in Shapes :
        /\ Len(streams'[s]) >= Len(streams[s])
        /\ \A h \in DOMAIN streams[s] : IsPrefix(streams[s][h], streams'[s][h])
    /\ UNCHANGED <<cursor, rows>>

\* One transaction of the group.
Commit ==
    /\ \A s \in Shapes : Later(cursor[s], cursor'[s])
    /\ rows' = Shown(cursor')
    /\ UNCHANGED streams

\* desync(): the group is forgotten with its rows.
Forget ==
    /\ cursor' = NoCursor
    /\ rows' = {}
    /\ UNCHANGED streams

Next == Serve \/ Commit \/ Forget
vars == <<streams, cursor, rows>>
Spec == Init /\ [][Next]_vars
=============================================================================
