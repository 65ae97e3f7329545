----------------------- MODULE MutationJournalProofs -----------------------
(***************************************************************************)
(* Proofs about MutationJournal, for every set of entities, batch size,    *)
(* retry limit and number of writes, foreign writes and faults:            *)
(*   OrderTheorem    only a unit's row overtakes on the way to the server; *)
(*   OwedTheorem     no owed write is dropped;                             *)
(*   OverlayTheorem  no orphaned overlay;                                  *)
(*   ReadTheorem     read your writes;                                     *)
(*   ServerTheorem   what replaces a later write at the server;            *)
(*   ChainTheorem    a chained write is not made stale by its own chain.   *)
(* Each rests on the invariants of the ones before it.                     *)
(***************************************************************************)
EXTENDS MutationJournal, WellFoundedInduction, TLAPS

IsRow(r) ==
    /\ DOMAIN r = {"ent", "kind", "mode", "status", "base", "ver", "attempts"}
    /\ r.ent \in Entities
    /\ r.mode \in Modes
    /\ r.kind \in Kinds

Replies == {"acks", "failed", "rejected", "invalid"}
IsLane(f) ==
    /\ DOMAIN f = {"pc", "batch", "reply"}
    /\ f.pc = "replied" => f.reply.kind \in Replies

LaneShape ==
    /\ lane = [l \in Lanes |-> lane[l]]
    /\ \A l \in Lanes : IsLane(lane[l])

Shape ==
    /\ issued \in Nat
    /\ DOMAIN journal \subseteq 1 .. issued
    /\ \A s \in DOMAIN journal : IsRow(journal[s])
    /\ LaneShape

\* What a flush holds: rows of its own lane, not yet settled.
LaneRow(l, s) ==
    /\ s \in DOMAIN journal
    /\ (journal[s].mode = "optimistic") <=> (l = "batch")
    /\ lane[l].pc \in {"read", "sent", "replied"}
    /\ lane[l].pc = "read" => journal[s].status \in {"pending", "failed"}
    /\ lane[l].pc # "read" => journal[s].status = "sending"

LaneRows == \A l \in Lanes : \A s \in DOMAIN lane[l].batch : LaneRow(l, s)

\* No earlier row of the same entity is unresolved.
First(s) == \A t \in DOMAIN journal :
    t < s /\ journal[t].ent = journal[s].ent => journal[t].status \notin Unresolved

BatchFirst == \A s \in DOMAIN lane["batch"].batch : First(s)
SendingFirst == \A s \in DOMAIN journal :
    journal[s].status = "sending" /\ journal[s].mode = "optimistic" => First(s)

(***************************************************************************)
(* The inductive invariant.  OnlyUnitsOvertake alone is not inductive:     *)
(* that the unit lane never marks an optimistic row sending, and that a    *)
(* row handed to a flush is still unsettled when the answer is applied, is *)
(* LaneRows.                                                               *)
(***************************************************************************)
OrderInv == Shape /\ LaneRows /\ BatchFirst /\ SendingFirst

\* A step that settles rows: none is added or handed to another entity, and
\* a resolved row never becomes unresolved again.
Settles ==
    /\ DOMAIN journal' \subseteq DOMAIN journal
    /\ \A s \in DOMAIN journal' :
         /\ IsRow(journal'[s])
         /\ journal'[s].ent = journal[s].ent
         /\ journal'[s].mode = journal[s].mode
         /\ journal'[s].status \in Unresolved => journal[s].status \in Unresolved

\* Settling keeps the entity's first unresolved row the first.
LEMMA SettlesKeepsFirst ==
    ASSUME Settles, NEW s \in DOMAIN journal', First(s)
    PROVE  First(s)'
  BY DEF Settles, First

\* The initial state.
LEMMA InitOrder == Init => OrderInv
<1> SUFFICES ASSUME Init PROVE OrderInv
  OBVIOUS
<1>1. DOMAIN journal = {} /\ issued = 0
  BY DEF Init
<1>2. \A l \in Lanes : lane[l] = Idle
  BY DEF Init
<1>3. DOMAIN Idle.batch = {} /\ IsLane(Idle)
  BY DEF Idle, IsLane
<1>4. Shape
  BY <1>1, <1>2, <1>3 DEF Init, Shape, LaneShape
<1> QED BY <1>1, <1>2, <1>3, <1>4 DEF OrderInv, LaneRows, BatchFirst, SendingFirst, Lanes

\* What is left to show for a step that settles rows.
LEMMA SettlesKeepsOrder ==
    ASSUME OrderInv, Settles, issued' = issued, LaneShape', LaneRows',
           DOMAIN lane'["batch"].batch \subseteq DOMAIN lane["batch"].batch,
           \A s \in DOMAIN journal' :
               journal'[s].status = "sending" /\ journal'[s].mode = "optimistic"
                   => journal[s].status = "sending" \/ s \in DOMAIN lane["batch"].batch
    PROVE  OrderInv'
<1>1. Shape'
  BY DEF OrderInv, Shape, LaneShape, Settles
<1>2. \A s \in DOMAIN lane'["batch"].batch : s \in DOMAIN journal' /\ First(s)
  BY DEF OrderInv, LaneRows, LaneRow, BatchFirst, Lanes
<1>3. BatchFirst'
  BY <1>2, SettlesKeepsFirst DEF BatchFirst
<1>4. SendingFirst'
  <2> SUFFICES ASSUME NEW s \in DOMAIN journal', journal'[s].status = "sending",
                      journal'[s].mode = "optimistic"
               PROVE  First(s)'
    BY DEF SendingFirst
  <2>1. s \in DOMAIN journal /\ journal[s].mode = "optimistic"
    BY DEF Settles
  <2>2. First(s)
    BY <2>1 DEF OrderInv, SendingFirst, BatchFirst
  <2> QED BY <2>2, SettlesKeepsFirst
<1> QED BY <1>1, <1>3, <1>4 DEF OrderInv

\* A step that drops only resolved rows, changes no other row, and leaves a
\* lane alone or empties it.
Clears ==
    /\ DOMAIN journal' \subseteq DOMAIN journal
    /\ \A s \in DOMAIN journal' : journal'[s] = journal[s]
    /\ \A s \in DOMAIN journal \ DOMAIN journal' : journal[s].status \notin Owed

\* Dropping resolved rows never puts an unresolved row before a sent one.
LEMMA ClearsKeepsOrder ==
    ASSUME OrderInv, Clears, issued' = issued, LaneShape',
           \A l \in Lanes : lane'[l] = lane[l] \/ DOMAIN lane'[l].batch = {}
    PROVE  OrderInv'
<1>1. Settles
  BY DEF Clears, Settles, OrderInv, Shape
<1>2. ASSUME NEW l \in Lanes, NEW s \in DOMAIN lane'[l].batch
      PROVE  LaneRow(l, s)'
  <2>1. lane'[l] = lane[l] /\ LaneRow(l, s)
    BY <1>2 DEF OrderInv, LaneRows
  <2>2. s \in DOMAIN journal'
    BY <2>1 DEF LaneRow, Clears, Owed
  <2> QED BY <2>1, <2>2 DEF LaneRow, Clears
<1>3. DOMAIN lane'["batch"].batch \subseteq DOMAIN lane["batch"].batch
  BY DEF Lanes
<1> QED BY <1>1, <1>2, <1>3, SettlesKeepsOrder DEF Clears, LaneRows

\* The rows a trigger, a reconcile or a discard drops are never owed.
LEMMA TriggerClears ==
    ASSUME NEW j, NEW e, NEW ver
    PROVE  LET k == TriggerJournal(j, e, ver)
           IN  /\ DOMAIN k \subseteq DOMAIN j
               /\ \A s \in DOMAIN k : k[s] = j[s]
               /\ \A s \in DOMAIN j \ DOMAIN k : j[s].status \in {"acked", "conflicted"}
<1> DEFINE kept == Drop(j, Superseded(j, e))
           gone == {s \in WithStatus(kept, e, {"acked"}) :
                      IF ver = 0 THEN kept[s].kind = "delete"
                      ELSE kept[s].kind # "delete" /\ kept[s].ver > 0 /\ Barrier(kept[s], ver)}
<1>1. /\ DOMAIN kept = DOMAIN j \ Superseded(j, e)
      /\ \A s \in DOMAIN kept : kept[s] = j[s]
  BY DEF Drop, Restrict
<1>2. \A s \in Superseded(j, e) : j[s].status = "conflicted"
  BY DEF Superseded, WithStatus
<1>3. \A s \in gone : s \in DOMAIN kept /\ kept[s].status = "acked"
  BY DEF WithStatus, RowsOf
<1>4. /\ DOMAIN TriggerJournal(j, e, ver) = DOMAIN kept \ gone
      /\ \A s \in DOMAIN kept \ gone : TriggerJournal(j, e, ver)[s] = kept[s]
  BY DEF Drop, Restrict, TriggerJournal
<1> HIDE DEF kept, gone
<1> QED BY <1>1, <1>2, <1>3, <1>4

\* The trigger drops acked rows and retired conflicts only.
LEMMA EchoClears ==
    ASSUME NEW e \in Entities, Echo(e)
    PROVE  Clears
<1>1. PICK n \in 1 .. Len(feed[e]) :
        LET run == SubSeq(feed[e], 1, n)
            net == run[n]
            deletes == \E i \in 1 .. n : run[i].ver = 0
            j1 == IF deletes /\ synced[e].ver > 0 THEN TriggerJournal(journal, e, 0) ELSE journal
        IN  journal' = IF net.ver > 0 THEN TriggerJournal(j1, e, net.ver) ELSE j1
  BY DEF Echo
<1> DEFINE net == SubSeq(feed[e], 1, n)[n]
           first == (\E i \in 1 .. n : SubSeq(feed[e], 1, n)[i].ver = 0) /\ synced[e].ver > 0
           j1 == IF first THEN TriggerJournal(journal, e, 0) ELSE journal
<1>2. journal' = IF net.ver > 0 THEN TriggerJournal(j1, e, net.ver) ELSE j1
  BY <1>1
<1> HIDE DEF net, first
<1>3. /\ DOMAIN j1 \subseteq DOMAIN journal
      /\ \A s \in DOMAIN j1 : j1[s] = journal[s]
      /\ \A s \in DOMAIN journal \ DOMAIN j1 : journal[s].status \in {"acked", "conflicted"}
  BY TriggerClears
<1> HIDE DEF j1
<1>4. /\ DOMAIN journal' \subseteq DOMAIN j1
      /\ \A s \in DOMAIN journal' : journal'[s] = j1[s]
      /\ \A s \in DOMAIN j1 \ DOMAIN journal' : j1[s].status \in {"acked", "conflicted"}
  BY <1>2, TriggerClears
<1> QED BY <1>3, <1>4 DEF Clears, Owed

\* reconcileTable drops acked rows and retired conflicts only.
LEMMA ReconcileClears == ReconcileTable => Clears
<1> SUFFICES ASSUME ReconcileTable PROVE Clears
  OBVIOUS
<1> DEFINE j0 == RetireConflicts(journal)
           j1 == RetireBlind(j0)
           j2 == Drop(j1, UNION {Landed(j1, e) : e \in Entities})
           j3 == Drop(j2, UNION {DeletesDone(j2, e) : e \in Entities})
<1>1. journal' = j3
  BY DEF ReconcileTable
<1>2. /\ DOMAIN j0 \subseteq DOMAIN journal
      /\ \A s \in DOMAIN j0 : j0[s] = journal[s]
      /\ \A s \in DOMAIN journal \ DOMAIN j0 : journal[s].status = "conflicted"
  BY DEF Drop, Restrict, RetireConflicts, Superseded, WithStatus
<1>3. /\ DOMAIN j1 \subseteq DOMAIN j0
      /\ \A s \in DOMAIN j1 : j1[s] = j0[s]
      /\ \A s \in DOMAIN j0 \ DOMAIN j1 : j0[s].status = "acked"
  BY DEF Drop, Restrict, RetireBlind
<1>4. /\ DOMAIN j2 \subseteq DOMAIN j1
      /\ \A s \in DOMAIN j2 : j2[s] = j1[s]
      /\ \A s \in DOMAIN j1 \ DOMAIN j2 : j1[s].status = "acked"
  BY DEF Drop, Restrict, Landed, WithStatus
<1>5. /\ DOMAIN j3 \subseteq DOMAIN j2
      /\ \A s \in DOMAIN j3 : j3[s] = j2[s]
      /\ \A s \in DOMAIN j2 \ DOMAIN j3 : j2[s].status = "acked"
  BY DEF Drop, Restrict, DeletesDone, WithStatus
<1> HIDE DEF j0, j1, j2, j3
<1> QED BY <1>1, <1>2, <1>3, <1>4, <1>5 DEF Clears, Owed

\* A discard drops rows of the one terminal status it was asked for.
LEMMA DiscardClears ==
    ASSUME NEW e \in Entities, NEW st \in {"conflicted", "quarantined"}, Discard(e, st)
    PROVE  Clears
<1>1. journal' = Drop(journal, TerminalRows(e, st))
  BY DEF Discard
<1>2. \A s \in TerminalRows(e, st) : journal[s].status = st
  BY DEF TerminalRows, WithStatus
<1> QED BY <1>1, <1>2 DEF Drop, Restrict, Clears, Owed

-----------------------------------------------------------------------------
\* A local write: the new row comes after every other one.
LEMMA EnqueueKeepsOrder ==
    ASSUME OrderInv, NEW e \in Entities, NEW k \in WriteKinds, NEW m \in Modes, Enqueue(e, k, m)
    PROVE  OrderInv'
<1> DEFINE n == issued + 1
<1>1. /\ issued' = n /\ issued \in Nat
      /\ DOMAIN journal' = DOMAIN journal \cup {n}
      /\ \A s \in DOMAIN journal : s \in 1 .. issued /\ journal'[s] = journal[s]
      /\ lane' = lane
  BY DEF Enqueue, OrderInv, Shape
<1>2. journal'[n].status = "pending" /\ IsRow(journal'[n])
  BY KindsAssumption DEF Enqueue, IsRow, Kinds
<1>3. Shape'
  BY <1>1, <1>2 DEF OrderInv, Shape, LaneShape
<1>4. LaneRows'
  BY <1>1 DEF OrderInv, LaneRows, LaneRow
<1>5. ASSUME NEW s \in DOMAIN journal, First(s) PROVE First(s)'
  BY <1>1, <1>5 DEF First
<1>6. BatchFirst'
  BY <1>1, <1>5 DEF OrderInv, BatchFirst, LaneRows, LaneRow, Lanes
<1>7. SendingFirst'
  BY <1>1, <1>2, <1>5 DEF OrderInv, SendingFirst
<1> QED BY <1>3, <1>4, <1>6, <1>7 DEF OrderInv

\* A flush reads its batch: the rows no earlier unresolved row precedes.
LEMMA ReadBatchKeepsOrder ==
    ASSUME OrderInv, ReadBatch
    PROVE  OrderInv'
<1>0. PICK notDue : 
        LET rows == FirstOf(Eligible(journal) \ notDue)
        IN  /\ lane' = [lane EXCEPT !["batch"].pc = "read",
                          !["batch"].batch = [s \in rows |-> ResolvedBase(journal, s)]]
            /\ journal' = journal /\ issued' = issued
  BY DEF ReadBatch, local
<1> DEFINE rows == FirstOf(Eligible(journal) \ notDue)
<1>1. /\ lane' = [lane EXCEPT !["batch"].pc = "read",
                      !["batch"].batch = [s \in rows |-> ResolvedBase(journal, s)]]
      /\ journal' = journal /\ issued' = issued
      /\ rows \subseteq Eligible(journal)
  BY <1>0 DEF FirstOf
<1> HIDE DEF rows
<1>2. /\ LaneShape'
      /\ lane'["batch"].pc = "read"
      /\ DOMAIN lane'["batch"].batch = rows
      /\ lane'["unit"] = lane["unit"]
  BY <1>1 DEF OrderInv, Shape, LaneShape, IsLane, Lanes
<1>3. \A s \in rows : /\ s \in DOMAIN journal
                      /\ journal[s].status \in {"pending", "failed"}
                      /\ journal[s].mode = "optimistic"
                      /\ First(s)
  BY <1>1 DEF Eligible, Blocking, WithStatus, RowsOf, First
<1>4. Shape'
  BY <1>1, <1>2 DEF OrderInv, Shape, LaneShape
<1>5. LaneRows'
  BY <1>1, <1>2, <1>3 DEF OrderInv, LaneRows, LaneRow, Lanes
<1>6. BatchFirst' /\ SendingFirst'
  BY <1>1, <1>2, <1>3 DEF OrderInv, BatchFirst, SendingFirst, First
<1> QED BY <1>4, <1>5, <1>6 DEF OrderInv

\* A unit flush reads its own row, which is not optimistic.
LEMMA ReadUnitKeepsOrder ==
    ASSUME OrderInv, ReadUnit
    PROVE  OrderInv'
<1>1. PICK s \in DOMAIN journal :
        /\ journal[s].mode # "optimistic"
        /\ journal[s].status \in {"pending", "failed"}
        /\ lane' = [lane EXCEPT !["unit"].pc = "read",
                      !["unit"].batch = [t \in {s} |-> ResolvedBase(journal, t)]]
        /\ journal' = journal /\ issued' = issued
  BY DEF ReadUnit, local
<1>2. /\ LaneShape'
      /\ lane'["unit"].pc = "read"
      /\ DOMAIN lane'["unit"].batch = {s}
      /\ lane'["batch"] = lane["batch"]
  BY <1>1 DEF OrderInv, Shape, LaneShape, IsLane, Lanes
<1>3. Settles
  BY <1>1 DEF Settles, OrderInv, Shape
<1>4. LaneRows'
  BY <1>1, <1>2 DEF OrderInv, LaneRows, LaneRow, Lanes
<1> QED BY <1>1, <1>2, <1>3, <1>4, SettlesKeepsOrder

\* The rows of a batch are marked sending.
LEMMA MarkSendingKeepsOrder ==
    ASSUME OrderInv, NEW l \in Lanes, MarkSending(l)
    PROVE  OrderInv' /\ Settles
<1>1. /\ lane[l].pc = "read"
      /\ DOMAIN journal' = DOMAIN journal
      /\ \A s \in DOMAIN journal : s \notin DOMAIN lane[l].batch => journal'[s] = journal[s]
      /\ lane' = [lane EXCEPT ![l].pc = "sent"]
      /\ issued' = issued
  BY DEF MarkSending
<1>2. \A s \in DOMAIN lane[l].batch : LaneRow(l, s)
  BY DEF OrderInv, LaneRows
<1>3. ASSUME NEW s \in DOMAIN lane[l].batch
      PROVE  /\ journal'[s].status = "sending"
             /\ journal'[s].ent = journal[s].ent
             /\ journal'[s].mode = journal[s].mode
             /\ IsRow(journal'[s])
  <2>1. s \in DOMAIN journal /\ IsRow(journal[s])
    BY <1>2 DEF LaneRow, OrderInv, Shape
  <2>2. journal'[s] = [journal[s] EXCEPT !.status = "sending", !.base = lane[l].batch[s],
                                         !.attempts = @ + 1]
    BY <2>1 DEF MarkSending
  <2> QED BY <2>1, <2>2 DEF IsRow
<1>4. Settles
  BY <1>1, <1>2, <1>3 DEF Settles, LaneRow, Unresolved, OrderInv, Shape
<1>5. /\ LaneShape'
      /\ lane'[l].pc = "sent"
      /\ \A i \in Lanes : lane'[i].batch = lane[i].batch
      /\ \A i \in Lanes \ {l} : lane'[i] = lane[i]
  BY <1>1 DEF OrderInv, Shape, LaneShape, IsLane, Lanes
<1>6. ASSUME NEW i \in Lanes, NEW s \in DOMAIN lane'[i].batch
      PROVE  LaneRow(i, s)'
  <2>1. LaneRow(i, s)
    BY <1>5, <1>6 DEF OrderInv, LaneRows
  <2>2. CASE i = l
    BY <1>1, <1>3, <1>5, <2>1, <2>2 DEF LaneRow
  <2>3. CASE i # l
    <3>1. s \notin DOMAIN lane[l].batch
      BY <1>2, <2>1, <2>3 DEF LaneRow, Lanes
    <3> QED BY <1>1, <1>5, <2>1, <2>3, <3>1 DEF LaneRow
  <2> QED BY <2>2, <2>3
<1>7. \A s \in DOMAIN journal' :
        journal'[s].status = "sending" /\ journal'[s].mode = "optimistic"
            => journal[s].status = "sending" \/ s \in DOMAIN lane["batch"].batch
  BY <1>1, <1>2, <1>3, <1>4 DEF LaneRow, Settles
<1> QED BY <1>1, <1>4, <1>5, <1>6, <1>7, SettlesKeepsOrder DEF LaneRows, Lanes

\* A request is answered, lost or declined: only the reply changes.
LEMMA ReplyKeepsOrder ==
    ASSUME OrderInv, NEW l \in Lanes, NEW r, lane[l].pc \in {"sent", "replied"}, Reply(l, r),
           UNCHANGED local, r.kind \in Replies
    PROVE  OrderInv'
<1>1. /\ LaneShape'
      /\ lane'[l].pc = "replied"
      /\ \A i \in Lanes : lane'[i].batch = lane[i].batch
      /\ \A i \in Lanes \ {l} : lane'[i] = lane[i]
  BY DEF Reply, OrderInv, Shape, LaneShape, IsLane, Lanes
<1>2. Settles /\ issued' = issued /\ journal' = journal
  BY DEF local, Settles, OrderInv, Shape
<1>3. LaneRows'
  BY <1>1, <1>2 DEF OrderInv, LaneRows, LaneRow
<1> QED BY <1>1, <1>2, <1>3, SettlesKeepsOrder DEF Lanes

\* The answer is applied: every row of the batch is settled.
LEMMA SettleKeepsOrder ==
    ASSUME OrderInv, NEW l \in Lanes, Settle(l)
    PROVE  OrderInv' /\ Settles
<1>1. /\ lane[l].pc = "replied"
      /\ journal' = [s \in DOMAIN journal |->
                       IF s \in DOMAIN lane[l].batch
                       THEN Outcome(journal[s], s, lane[l].reply) ELSE journal[s]]
      /\ lane' = [lane EXCEPT ![l] = AfterSettle(l)]
      /\ issued' = issued
  BY DEF Settle
<1>2. /\ LaneShape'
      /\ DOMAIN lane'[l].batch = {}
      /\ \A i \in Lanes \ {l} : lane'[i] = lane[i]
  <2>1. IsLane(AfterSettle(l)) /\ DOMAIN AfterSettle(l).batch = {}
    BY DEF AfterSettle, IsLane, Idle
  <2> QED BY <1>1, <2>1 DEF OrderInv, Shape, LaneShape, Lanes
<1>3. \A s \in DOMAIN lane[l].batch : LaneRow(l, s) /\ journal[s].status = "sending"
  BY <1>1 DEF OrderInv, LaneRows, LaneRow
<1>4. ASSUME NEW s \in DOMAIN lane[l].batch
      PROVE  /\ IsRow(journal'[s])
             /\ journal'[s].ent = journal[s].ent
             /\ journal'[s].mode = journal[s].mode
  <2>1. s \in DOMAIN journal /\ IsRow(journal[s])
    BY <1>3 DEF LaneRow, OrderInv, Shape
  <2>2. lane[l].reply.kind \in Replies
    BY <1>1 DEF OrderInv, Shape, LaneShape, IsLane
  <2>3. journal'[s] = Outcome(journal[s], s, lane[l].reply)
    BY <1>1, <2>1
  <2> QED BY <2>1, <2>2, <2>3 DEF Outcome, IsRow, Replies
<1>5. Settles
  BY <1>1, <1>3, <1>4 DEF Settles, Unresolved, OrderInv, Shape
<1>6. ASSUME NEW i \in Lanes, NEW s \in DOMAIN lane'[i].batch
      PROVE  LaneRow(i, s)'
  <2>1. i # l /\ lane'[i] = lane[i] /\ LaneRow(i, s)
    BY <1>2, <1>6 DEF OrderInv, LaneRows
  <2>2. s \in DOMAIN journal /\ s \notin DOMAIN lane[l].batch
    BY <1>3, <2>1 DEF LaneRow, Lanes
  <2>3. journal'[s] = journal[s] /\ s \in DOMAIN journal'
    BY <1>1, <2>2
  <2> QED BY <2>1, <2>3 DEF LaneRow
<1>7. \A s \in DOMAIN journal' :
        journal'[s].status = "sending" => journal[s].status = "sending"
  BY <1>1, <1>3
<1>8. DOMAIN lane'["batch"].batch \subseteq DOMAIN lane["batch"].batch
  BY <1>2 DEF Lanes
<1> QED BY <1>1, <1>2, <1>5, <1>6, <1>7, <1>8, SettlesKeepsOrder DEF LaneRows

\* A crash and the boot after it.
LEMMA RestartKeepsOrder ==
    ASSUME OrderInv, Restart
    PROVE  OrderInv' /\ Settles
<1>1. /\ LaneShape'
      /\ \A l \in Lanes : DOMAIN lane'[l].batch = {}
      /\ issued' = issued
  BY DEF Restart, LaneShape, IsLane, Idle
<1>2. \/ journal' = [s \in DOMAIN journal |->
           IF journal[s].status \in Recovered THEN [journal[s] EXCEPT !.status = "pending"] ELSE journal[s]]
      \/ journal' = [s \in DOMAIN journal |->
           IF journal[s].status \in Owed THEN [journal[s] EXCEPT !.status = "quarantined"] ELSE journal[s]]
  BY DEF Restart, Move
<1>3. Settles /\ \A s \in DOMAIN journal' :
        journal'[s].status = "sending" => journal[s].status = "sending"
  BY <1>2 DEF Settles, OrderInv, Shape, IsRow, Recovered, Owed, Unresolved
<1> QED BY <1>1, <1>3, SettlesKeepsOrder DEF LaneRows, Lanes

\* retryFailed moves a failed row to pending: unresolved before and after.
LEMMA RetryFailedKeepsOrder ==
    ASSUME OrderInv, RetryFailed
    PROVE  OrderInv' /\ Settles
<1>1. /\ journal' = [s \in DOMAIN journal |->
           IF journal[s].status \in {"failed"} THEN [journal[s] EXCEPT !.status = "pending"] ELSE journal[s]]
      /\ lane' = lane /\ issued' = issued
  BY DEF RetryFailed, Move
<1>2. Settles /\ \A s \in DOMAIN journal' :
        journal'[s].status = "sending" => journal[s].status = "sending"
  BY <1>1 DEF Settles, OrderInv, Shape, IsRow, Unresolved
<1>3. ASSUME NEW l \in Lanes, NEW s \in DOMAIN lane'[l].batch
      PROVE  LaneRow(l, s)'
  <2>1. LaneRow(l, s) /\ IsRow(journal[s])
    BY <1>1 DEF OrderInv, LaneRows, Shape, LaneRow
  <2> QED BY <1>1, <2>1 DEF LaneRow, IsRow
<1>4. LaneShape'
  BY <1>1 DEF OrderInv, Shape, LaneShape
<1> QED BY <1>1, <1>2, <1>3, <1>4, SettlesKeepsOrder DEF LaneRows

\* The steps that leave the journal and the lanes alone, or only clear.
LEMMA QuietKeepsOrder ==
    ASSUME OrderInv, UNCHANGED <<journal, issued, lane>>
    PROVE  OrderInv'
  BY DEF OrderInv, Shape, LaneShape, LaneRows, LaneRow, BatchFirst, SendingFirst, First

\* The end of a flush: its lane is emptied and the table reconciled.
LEMMA FinishKeepsOrder ==
    ASSUME OrderInv, NEW l \in Lanes, FinishFlush(l)
    PROVE  OrderInv'
<1>1. Clears /\ issued' = issued
  BY ReconcileClears DEF FinishFlush, ReconcileTable
<1>2. lane' = [lane EXCEPT ![l] = Idle]
  BY DEF FinishFlush
<1>3. IsLane(Idle) /\ DOMAIN Idle.batch = {}
  BY DEF IsLane, Idle
<1>4. LaneShape' /\ \A i \in Lanes : lane'[i] = lane[i] \/ DOMAIN lane'[i].batch = {}
  BY <1>2, <1>3 DEF OrderInv, Shape, LaneShape
<1> QED BY <1>1, <1>4, ClearsKeepsOrder

\* A request names its rows; the answer to mutation s of it.
Answer(l, s) == Apply(server[journal[s].ent], journal[s].kind, lane[l].batch[s], s, clock + 1)

LEMMA RequestRows ==
    ASSUME NEW l
    PROVE  /\ DOMAIN Request(l) = DOMAIN lane[l].batch
           /\ \A s \in DOMAIN lane[l].batch :
                /\ Request(l)[s].ent = journal[s].ent /\ Request(l)[s].kind = journal[s].kind
                /\ Request(l)[s].base = lane[l].batch[s]
           /\ Answers(Request(l)) = [s \in DOMAIN lane[l].batch |-> Answer(l, s)]
<1>1. /\ DOMAIN Request(l) = DOMAIN lane[l].batch
      /\ \A s \in DOMAIN lane[l].batch :
           /\ Request(l)[s].ent = journal[s].ent /\ Request(l)[s].kind = journal[s].kind
           /\ Request(l)[s].base = lane[l].batch[s]
  BY DEF Request
<1> QED BY <1>1 DEF Answers, Answer

\* A request is refused as a whole, or each of its mutations is answered.
LEMMA ServerApplyForm ==
    ASSUME NEW l \in Lanes, ServerApply(l)
    PROVE  \/ /\ Reply(l, IF l = "unit" THEN [kind |-> "rejected"] ELSE [kind |-> "failed"])
              /\ UNCHANGED remote
           \/ /\ \A s \in DOMAIN lane[l].batch : Answer(l, s).st # "error"
              /\ Reply(l, [kind |-> "acks", acks |-> [s \in DOMAIN lane[l].batch |-> Answer(l, s)]])
              /\ Commit(Request(l))
<1>1. \/ /\ Reply(l, IF l = "unit" THEN [kind |-> "rejected"] ELSE [kind |-> "failed"])
         /\ UNCHANGED remote
      \/ /\ ~Errs(Request(l))
         /\ Reply(l, [kind |-> "acks", acks |-> Answers(Request(l))])
         /\ Commit(Request(l))
  BY DEF ServerApply
<1>2. ~Errs(Request(l)) => \A s \in DOMAIN lane[l].batch : Answer(l, s).st # "error"
  BY RequestRows DEF Errs
<1> QED BY <1>1, <1>2, RequestRows

\* The server changes nothing in the journal.
LEMMA ServerApplyKeepsOrder ==
    ASSUME OrderInv, NEW l \in Lanes, ServerApply(l)
    PROVE  OrderInv'
<1>1. lane[l].pc = "sent" /\ UNCHANGED local
  BY DEF ServerApply
<1> DEFINE acks == [s \in DOMAIN lane[l].batch |-> Answer(l, s)]
<1>2. \/ Reply(l, [kind |-> "rejected"])
      \/ Reply(l, [kind |-> "failed"])
      \/ Reply(l, [kind |-> "acks", acks |-> acks])
  BY ServerApplyForm
<1> HIDE DEF acks
<1>3. /\ [kind |-> "rejected"].kind \in Replies
      /\ [kind |-> "failed"].kind \in Replies
      /\ [kind |-> "acks", acks |-> acks].kind \in Replies
  BY DEF Replies
<1>4. CASE Reply(l, [kind |-> "rejected"])
  BY <1>1, <1>3, <1>4, ReplyKeepsOrder
<1>5. CASE Reply(l, [kind |-> "failed"])
  BY <1>1, <1>3, <1>5, ReplyKeepsOrder
<1>6. CASE Reply(l, [kind |-> "acks", acks |-> acks])
  BY <1>1, <1>3, <1>6, ReplyKeepsOrder
<1> QED BY <1>2, <1>4, <1>5, <1>6

\* A lost request, a lost answer or a rejection only changes the reply.
LEMMA FaultKeepsOrder ==
    ASSUME OrderInv, NEW l \in Lanes, LoseRequest(l) \/ LoseAnswer(l) \/ Decline(l)
    PROVE  OrderInv'
<1>1. lane[l].pc \in {"sent", "replied"} /\ UNCHANGED local
  BY DEF LoseRequest, LoseAnswer, Decline
<1>2. CASE Reply(l, [kind |-> "failed"])
  <2>1. [kind |-> "failed"].kind \in Replies
    BY DEF Replies
  <2> QED BY <1>1, <1>2, <2>1, ReplyKeepsOrder
<1>3. CASE Reply(l, [kind |-> "rejected"])
  <2>1. [kind |-> "rejected"].kind \in Replies
    BY DEF Replies
  <2> QED BY <1>1, <1>3, <2>1, ReplyKeepsOrder
<1>4. ASSUME NEW named, Reply(l, [kind |-> "invalid", named |-> named]) PROVE OrderInv'
  <2>1. [kind |-> "invalid", named |-> named].kind \in Replies
    BY DEF Replies
  <2> QED BY <1>1, <1>4, <2>1, ReplyKeepsOrder
<1> QED BY <1>2, <1>3, <1>4 DEF LoseRequest, LoseAnswer, Decline

\* Every step preserves the order invariant.
LEMMA NextKeepsOrder ==
    ASSUME OrderInv, [Next]_vars
    PROVE  OrderInv'
<1>1. ASSUME NEW e \in Entities, Echo(e) PROVE OrderInv'
  <2>1. UNCHANGED <<issued, lane>>
    BY <1>1 DEF Echo
  <2> QED BY <1>1, <2>1, EchoClears, ClearsKeepsOrder DEF OrderInv, Shape, LaneShape
<1>2. ASSUME Reconcile PROVE OrderInv'
  <2>1. Clears /\ UNCHANGED <<issued, lane>>
    BY <1>2, ReconcileClears DEF Reconcile, ReconcileTable
  <2> QED BY <2>1, ClearsKeepsOrder DEF OrderInv, Shape, LaneShape
<1>3. ASSUME NEW e \in Entities, NEW st \in {"conflicted", "quarantined"}, Discard(e, st)
      PROVE  OrderInv'
  <2>1. UNCHANGED <<issued, lane>>
    BY <1>3 DEF Discard
  <2> QED BY <1>3, <2>1, DiscardClears, ClearsKeepsOrder DEF OrderInv, Shape, LaneShape
<1>4. ASSUME NEW e \in Entities, NEW k \in ForeignKinds, ForeignWrite(e, k) PROVE OrderInv'
  BY <1>4, QuietKeepsOrder DEF ForeignWrite, local
<1>5. ASSUME NEW l \in Lanes, Flush(l) PROVE OrderInv'
  BY <1>5, MarkSendingKeepsOrder, ServerApplyKeepsOrder, SettleKeepsOrder, FinishKeepsOrder DEF Flush
<1>6. CASE LateApply \/ UNCHANGED vars
  BY <1>6, QuietKeepsOrder DEF LateApply, local, vars
<1> QED BY <1>1, <1>2, <1>3, <1>4, <1>5, <1>6, EnqueueKeepsOrder, ReadBatchKeepsOrder,
           ReadUnitKeepsOrder, FaultKeepsOrder, RetryFailedKeepsOrder, RestartKeepsOrder DEF Next

(***************************************************************************)
(* Only a unit ever goes out before an earlier unresolved write of its     *)
(* entity: whatever is enqueued, retried, lost, recovered or discarded     *)
(* meanwhile, the batch on the wire and every optimistic `sending` row is  *)
(* the first unresolved write of its entity (readPendingBatchRows).        *)
(***************************************************************************)
THEOREM OrderTheorem == Spec => []OnlyUnitsOvertake
<1>1. Init => OrderInv
  BY InitOrder
<1>2. OrderInv /\ [Next]_vars => OrderInv'
  BY NextKeepsOrder
<1>3. ASSUME OrderInv PROVE OnlyUnitsOvertake
  <2>1. ASSUME NEW s \in DOMAIN journal, GoesOut(s), journal[s].mode = "optimistic"
        PROVE  First(s)
    <3>1. CASE journal[s].status = "sending"
      BY <1>3, <2>1, <3>1 DEF OrderInv, SendingFirst
    <3>2. ASSUME NEW l \in Lanes, s \in DOMAIN lane[l].batch PROVE First(s)
      <4>1. l = "batch"
        BY <1>3, <2>1, <3>2 DEF OrderInv, LaneRows, LaneRow
      <4> QED BY <1>3, <3>2, <4>1 DEF OrderInv, BatchFirst
    <3> QED BY <2>1, <3>1, <3>2 DEF GoesOut
  <2> QED BY <2>1 DEF OnlyUnitsOvertake, First, WithStatus, RowsOf
<1>4. OrderInv => OnlyUnitsOvertake
  BY <1>3
<1> QED BY <1>1, <1>2, <1>4, PTL DEF Spec

(***************************************************************************)
(* No owed mutation is ever dropped: the rows the trigger, reconcileTable, *)
(* a discard or a restart removes from the journal were all resolved.      *)
(***************************************************************************)
THEOREM OwedTheorem == Spec => OwedRowsStay
<1> DEFINE Kept == \A s \in DOMAIN journal \ DOMAIN journal' : journal[s].status \notin Owed
<1>1. ASSUME OrderInv, [Next]_vars PROVE Kept
  <2>1. ASSUME NEW e \in Entities, NEW k \in WriteKinds, NEW m \in Modes, Enqueue(e, k, m) PROVE Kept
    BY <2>1 DEF Enqueue
  <2>2. ASSUME NEW e \in Entities, Echo(e) PROVE Kept
    BY <2>2, EchoClears DEF Clears
  <2>3. CASE Reconcile \/ \E l \in Lanes : FinishFlush(l)
    BY <2>3, ReconcileClears DEF Reconcile, FinishFlush, Clears
  <2>4. CASE ReadBatch \/ ReadUnit
    BY <2>4 DEF ReadBatch, ReadUnit, local
  <2>5. ASSUME NEW l \in Lanes, MarkSending(l) \/ Settle(l) PROVE Kept
    BY <2>5 DEF MarkSending, Settle
  <2>6. ASSUME NEW l \in Lanes, ServerApply(l) \/ LoseRequest(l) \/ LoseAnswer(l) \/ Decline(l)
        PROVE  Kept
    BY <2>6 DEF ServerApply, LoseRequest, LoseAnswer, Decline, local
  <2>7. ASSUME NEW e \in Entities, NEW st \in {"conflicted", "quarantined"}, Discard(e, st)
        PROVE  Kept
    BY <2>7, DiscardClears DEF Clears
  <2>8. CASE RetryFailed \/ Restart
    BY <2>8 DEF RetryFailed, Restart, Move
  <2>9. ASSUME NEW e \in Entities, NEW k \in ForeignKinds, ForeignWrite(e, k) PROVE Kept
    BY <2>9 DEF ForeignWrite, local
  <2>10. CASE LateApply \/ UNCHANGED vars
    BY <2>10 DEF LateApply, local, vars
  <2> HIDE DEF Kept
  <2> QED BY <1>1, <2>1, <2>2, <2>3, <2>4, <2>5, <2>6, <2>7, <2>8, <2>9, <2>10 DEF Next, Flush
<1>2. Init => OrderInv
  BY InitOrder
<1>3. OrderInv /\ [Next]_vars => OrderInv'
  BY NextKeepsOrder
<1>4. OrderInv /\ [Next]_vars => Kept
  BY <1>1
<1> QED BY <1>2, <1>3, <1>4, PTL DEF Spec, OwedRowsStay

-----------------------------------------------------------------------------
(***************************************************************************)
(* Author order at the server, for a table whose writes are all            *)
(* optimistic.                                                             *)
(***************************************************************************)
ServerShape ==
    /\ clock \in Nat
    /\ server = [e \in Entities |-> server[e]]
    /\ \A e \in Entities : server[e].ver \in Nat /\ server[e].val \in 0 .. issued

\* Nothing that may still be sent was authored before the server's row.
NothingOlder == \A s \in DOMAIN journal :
    journal[s].status \in Unresolved => server[journal[s].ent].val <= s

\* A request carries writes of this client.
IsRequest(req) == \A s \in DOMAIN req :
    s \in 1 .. issued /\ req[s].ent \in Entities /\ req[s].kind \in Kinds

\* No write of the entity before s may still be sent.
NoneBefore(e, s) == \A t \in DOMAIN journal :
    t < s /\ journal[t].ent = e => journal[t].status \notin Unresolved

\* A request that may still arrive was the first of its entities when it was sent.
OrphanRows == \A req \in orphans :
    IsRequest(req.rows) /\ \A s \in DOMAIN req.rows : NoneBefore(req.rows[s].ent, s)

ServerInv == OrderInv /\ ServerShape /\ NothingOlder /\ OrphanRows

\* What one mutation leaves: the row as it was, or its own.
LEMMA ApplyRow ==
    ASSUME NEW cur, cur.ver \in Nat, NEW kind \in Kinds, NEW base, NEW s, NEW v \in Nat
    PROVE  LET row == Apply(cur, kind, base, s, v).row
           IN  row = cur \/ (row.val = s /\ row.ver \in {0, v})
<1>1. cur.ver = 0 \/ cur.ver > 0
  OBVIOUS
<1> QED BY <1>1 DEF Apply, Ack, Kinds

\* A row changes to what one of the request's mutations leaves.
LEMMA CommitRows ==
    ASSUME ServerShape, NEW req, IsRequest(req), Commit(req)
    PROVE  /\ clock' = clock + 1 /\ clock' \in Nat
           /\ server' = [e \in Entities |-> server'[e]]
           /\ \A e \in Entities :
                \/ server'[e] = server[e]
                \/ \E s \in DOMAIN req :
                     /\ req[s].ent = e
                     /\ server'[e] = Apply(server[e], req[s].kind, req[s].base, s, clock + 1).row
                     /\ server'[e].val = s /\ server'[e].ver \in {0, clock + 1}
<1> DEFINE answer(s) == Apply(server[req[s].ent], req[s].kind, req[s].base, s, clock + 1)
           acks == [s \in DOMAIN req |-> answer(s)]
           changed == {s \in DOMAIN req : acks[s].row # server[req[s].ent]}
           picked(e) == CHOOSE s \in changed : req[s].ent = e
           new(e) == IF \E s \in changed : req[s].ent = e THEN acks[picked(e)].row ELSE server[e]
<1>1. clock' = clock + 1 /\ server' = [e \in Entities |-> new(e)]
  BY DEF Commit, Answers
<1>2. clock \in Nat /\ clock' \in Nat
  <2> HIDE DEF new
  <2> QED BY <1>1 DEF ServerShape
<1>3. server' = [e \in Entities |-> server'[e]] /\ \A e \in Entities : server'[e] = new(e)
  <2> HIDE DEF new
  <2> QED BY <1>1
<1>4. ASSUME NEW e \in Entities, server'[e] # server[e]
      PROVE  \E s \in DOMAIN req :
                     /\ req[s].ent = e /\ server'[e] = answer(s).row
                     /\ server'[e].val = s /\ server'[e].ver \in {0, clock + 1}
  <2>1. \E s \in changed : req[s].ent = e
    BY <1>3, <1>4
  <2>2. picked(e) \in changed /\ req[picked(e)].ent = e /\ server'[e] = acks[picked(e)].row
    BY <1>3, <2>1
  <2>3. PICK s \in DOMAIN req : req[s].ent = e /\ server'[e] = answer(s).row
    <3> HIDE DEF picked, answer
    <3> QED BY <2>2
  <2>4. server[e].ver \in Nat /\ req[s].kind \in Kinds /\ clock + 1 \in Nat
    BY <1>2 DEF ServerShape, IsRequest
  <2>5. answer(s).row = server[e] \/ (answer(s).row.val = s /\ answer(s).row.ver \in {0, clock + 1})
    BY <2>3, <2>4, ApplyRow
  <2> HIDE DEF answer
  <2> QED BY <1>4, <2>3, <2>5
<1>5. ASSUME NEW e \in Entities, NEW s \in DOMAIN req, req[s].ent = e
      PROVE  answer(s) = Apply(server[e], req[s].kind, req[s].base, s, clock + 1)
  BY <1>5
<1> HIDE DEF answer, new, acks, changed, picked
<1> QED BY <1>1, <1>2, <1>3, <1>4, <1>5

\* What is on the wire comes first.
LEMMA SentRows ==
    ASSUME OrderInv, Modes = {"optimistic"}, NEW l \in Lanes, lane[l].pc = "sent"
    PROVE  /\ IsRequest(Request(l))
           /\ \A s \in DOMAIN Request(l) :
                /\ l = "batch" /\ s \in DOMAIN lane["batch"].batch /\ s \in DOMAIN journal
                /\ journal[s].ent = Request(l)[s].ent /\ journal[s].status = "sending"
                /\ Request(l)[s].base = lane["batch"].batch[s]
                /\ NoneBefore(Request(l)[s].ent, s)
<1> SUFFICES ASSUME NEW s \in DOMAIN Request(l)
             PROVE  /\ s \in 1 .. issued /\ Request(l)[s].ent \in Entities /\ Request(l)[s].kind \in Kinds
                    /\ l = "batch" /\ s \in DOMAIN lane["batch"].batch /\ s \in DOMAIN journal
                    /\ journal[s].ent = Request(l)[s].ent /\ journal[s].status = "sending"
                    /\ Request(l)[s].base = lane["batch"].batch[s]
                    /\ NoneBefore(Request(l)[s].ent, s)
  BY DEF IsRequest
<1>1. /\ s \in DOMAIN lane[l].batch
      /\ Request(l)[s].ent = journal[s].ent /\ Request(l)[s].kind = journal[s].kind
      /\ Request(l)[s].base = lane[l].batch[s]
  BY RequestRows
<1>2. LaneRow(l, s) /\ s \in DOMAIN journal /\ s \in 1 .. issued /\ IsRow(journal[s])
  BY <1>1 DEF OrderInv, LaneRows, LaneRow, Shape
<1>3. l = "batch" /\ journal[s].status = "sending"
  BY <1>2 DEF LaneRow, IsRow
<1>4. First(s)
  BY <1>1, <1>3 DEF OrderInv, BatchFirst
<1> QED BY <1>1, <1>2, <1>3, <1>4 DEF First, NoneBefore, IsRow

\* A request whose rows came first leaves nothing older to be sent.
LEMMA CommitKeepsServer ==
    ASSUME OrderInv, ServerShape, NothingOlder, UNCHANGED <<journal, issued>>,
           NEW req, IsRequest(req), \A s \in DOMAIN req : NoneBefore(req[s].ent, s),
           UNCHANGED remote \/ Commit(req)
    PROVE  ServerShape' /\ NothingOlder'
<1>1. CASE UNCHANGED remote
  BY <1>1 DEF remote, ServerShape, NothingOlder
<1>2. CASE Commit(req)
  <2>1. issued \in Nat /\ \A s \in DOMAIN journal : s \in 1 .. issued /\ journal[s].ent \in Entities
    BY DEF OrderInv, Shape, IsRow
  <2>2. /\ clock' \in Nat /\ server' = [e \in Entities |-> server'[e]]
        /\ \A e \in Entities :
             \/ server'[e] = server[e]
             \/ \E s \in DOMAIN req : /\ req[s].ent = e /\ s \in 1 .. issued /\ NoneBefore(e, s)
                                      /\ server'[e].val = s /\ server'[e].ver \in Nat
    <3>1. clock + 1 \in Nat
      BY DEF ServerShape
    <3> QED BY <1>2, <3>1, CommitRows DEF IsRequest
  <2>3. ServerShape'
    BY <2>1, <2>2 DEF ServerShape
  <2>4. ASSUME NEW s \in DOMAIN journal, journal[s].status \in Unresolved
        PROVE  server'[journal[s].ent].val <= s
    <3>1. CASE server'[journal[s].ent] = server[journal[s].ent]
      BY <2>4, <3>1 DEF NothingOlder
    <3>2. CASE server'[journal[s].ent] # server[journal[s].ent]
      <4>1. PICK t \in 1 .. issued : NoneBefore(journal[s].ent, t) /\ server'[journal[s].ent].val = t
        BY <2>1, <2>2, <3>2
      <4>2. ~(s < t)
        BY <2>4, <4>1 DEF NoneBefore
      <4> QED BY <2>1, <4>1, <4>2
    <3> QED BY <3>1, <3>2
  <2> QED BY <2>3, <2>4 DEF NothingOlder
<1> QED BY <1>1, <1>2

\* The server applies what is on the wire.
LEMMA ServerApplyKeepsServer ==
    ASSUME ServerInv, Modes = {"optimistic"}, NEW l \in Lanes, ServerApply(l)
    PROVE  ServerShape' /\ NothingOlder'
<1>1. UNCHANGED <<journal, issued>> /\ lane[l].pc = "sent"
  BY DEF ServerApply, local
<1>2. UNCHANGED remote \/ Commit(Request(l))
  BY ServerApplyForm
<1>3. IsRequest(Request(l)) /\ \A s \in DOMAIN Request(l) : NoneBefore(Request(l)[s].ent, s)
  BY <1>1, SentRows DEF ServerInv
<1> QED BY <1>1, <1>2, <1>3, CommitKeepsServer DEF ServerInv

\* It applies what arrives late.
LEMMA LateApplyKeepsServer ==
    ASSUME ServerInv, LateApply
    PROVE  ServerShape' /\ NothingOlder'
<1>1. PICK req \in orphans : UNCHANGED remote \/ Commit(req.rows)
  BY DEF LateApply
<1>2. UNCHANGED <<journal, issued>>
  BY DEF LateApply, local
<1>3. IsRequest(req.rows) /\ \A s \in DOMAIN req.rows : NoneBefore(req.rows[s].ent, s)
  BY DEF ServerInv, OrphanRows
<1> QED BY <1>1, <1>2, <1>3, CommitKeepsServer DEF ServerInv

\* A step that leaves the server alone and settles rows or adds a new one.
LEMMA LocalKeepsServer ==
    ASSUME ServerInv, UNCHANGED <<server, clock>>, Settles, issued' = issued
    PROVE  ServerShape' /\ NothingOlder'
  BY DEF ServerInv, ServerShape, NothingOlder, Settles

\* A new write has a number no server row has yet.
LEMMA EnqueueKeepsServer ==
    ASSUME ServerInv, NEW e \in Entities, NEW k \in WriteKinds, NEW m \in Modes, Enqueue(e, k, m)
    PROVE  ServerShape' /\ NothingOlder'
<1>1. /\ issued' = issued + 1 /\ issued \in Nat
      /\ DOMAIN journal' = DOMAIN journal \cup {issued + 1}
      /\ \A s \in DOMAIN journal : s \in 1 .. issued /\ journal'[s] = journal[s]
      /\ journal'[issued + 1].ent = e
      /\ server' = server /\ clock' = clock
  BY DEF Enqueue, ServerInv, OrderInv, Shape, remote
<1> QED BY <1>1 DEF ServerInv, ServerShape, NothingOlder

\* Another actor's row is older than none of the client's writes.
LEMMA ForeignKeepsServer ==
    ASSUME ServerInv, NEW e \in Entities, NEW k \in ForeignKinds, ForeignWrite(e, k)
    PROVE  ServerShape' /\ NothingOlder'
<1>1. UNCHANGED <<journal, issued>> /\ clock' = clock + 1
  BY DEF ForeignWrite, local
<1>2. server' = [server EXCEPT ![e] =
                    [ver |-> IF k = "delete" THEN 0 ELSE clock + 1, val |-> Foreign]]
  BY DEF ForeignWrite
<1>3. /\ server'[e].val = 0 /\ server'[e].ver \in Nat
      /\ \A i \in Entities \ {e} : server'[i] = server[i]
      /\ server' = [i \in Entities |-> server'[i]]
  BY <1>2 DEF ServerInv, ServerShape, Foreign
<1>4. issued \in Nat /\ \A s \in DOMAIN journal : s \in 1 .. issued /\ journal[s].ent \in Entities
  BY DEF ServerInv, OrderInv, Shape, IsRow
<1> QED BY <1>1, <1>3, <1>4 DEF ServerInv, ServerShape, NothingOlder

\* Every other step settles rows and leaves the server alone.
LEMMA OtherSteps ==
    ASSUME ServerInv, [Next]_vars,
           ~ \E e \in Entities, k \in WriteKinds, m \in Modes : Enqueue(e, k, m),
           ~ \E l \in Lanes : ServerApply(l), ~LateApply,
           ~ \E e \in Entities, k \in ForeignKinds : ForeignWrite(e, k)
    PROVE  UNCHANGED <<server, clock, issued>> /\ Settles
<1> DEFINE Goal == UNCHANGED <<server, clock, issued>> /\ Settles
<1> SUFFICES Goal
  OBVIOUS
<1>0. OrderInv /\ \A s \in DOMAIN journal : IsRow(journal[s])
  BY DEF ServerInv, OrderInv, Shape
<1>1. ASSUME Clears PROVE Settles
  BY <1>0, <1>1 DEF Clears, Settles
<1>2. ASSUME journal' = journal PROVE Settles
  BY <1>0, <1>2 DEF Settles
<1>3. ASSUME NEW e \in Entities, Echo(e) PROVE Goal
  BY <1>1, <1>3, EchoClears DEF Echo
<1>4. CASE Reconcile \/ \E l \in Lanes : FinishFlush(l)
  BY <1>1, <1>4, ReconcileClears DEF Reconcile, FinishFlush, ReconcileTable, remote
<1>5. CASE ReadBatch \/ ReadUnit
  BY <1>2, <1>5 DEF ReadBatch, ReadUnit, local, remote
<1>6. ASSUME NEW l \in Lanes, MarkSending(l) PROVE Goal
  BY <1>0, <1>6, MarkSendingKeepsOrder DEF MarkSending, remote
<1>7. ASSUME NEW l \in Lanes, Settle(l) PROVE Goal
  BY <1>0, <1>7, SettleKeepsOrder DEF Settle, remote
<1>8. ASSUME NEW l \in Lanes, LoseRequest(l) \/ LoseAnswer(l) \/ Decline(l) PROVE Goal
  BY <1>2, <1>8 DEF LoseRequest, LoseAnswer, Decline, local, remote
<1>9. ASSUME NEW e \in Entities, NEW st \in {"conflicted", "quarantined"}, Discard(e, st)
      PROVE  Goal
  BY <1>1, <1>9, DiscardClears DEF Discard, remote
<1>10. CASE RetryFailed
  BY <1>0, <1>10, RetryFailedKeepsOrder DEF RetryFailed, remote
<1>11. CASE Restart
  BY <1>0, <1>11, RestartKeepsOrder DEF Restart, remote
<1>12. CASE UNCHANGED vars
  BY <1>2, <1>12 DEF vars
<1> HIDE DEF Goal
<1> QED
  BY <1>3, <1>4, <1>5, <1>6, <1>7, <1>8, <1>9, <1>10, <1>11, <1>12 DEF Next, Flush

\* A sender that gives up may leave its request behind; nothing else adds one.
LEMMA OrphansStep ==
    ASSUME [Next]_vars
    PROVE  \A req \in orphans' :
             \/ req \in orphans
             \/ /\ UNCHANGED <<server, clock>>
                /\ \E l \in Lanes : lane[l].pc = "sent" /\ req = Orphan(l)
<1> DEFINE Goal == \A req \in orphans' :
             \/ req \in orphans
             \/ /\ UNCHANGED <<server, clock>>
                /\ \E l \in Lanes : lane[l].pc = "sent" /\ req = Orphan(l)
<1> SUFFICES Goal
  OBVIOUS
<1>1. ASSUME orphans' \subseteq orphans PROVE Goal
  BY <1>1
<1>2. ASSUME NEW l \in Lanes, LoseRequest(l) PROVE Goal
  BY <1>2 DEF LoseRequest, remote
<1>3. CASE Restart
  <2>1. PICK out \in SUBSET {l \in Lanes : lane[l].pc = "sent"} :
          orphans' = orphans \cup {Orphan(l) : l \in out}
    BY <1>3 DEF Restart
  <2>2. UNCHANGED <<server, clock>>
    BY <1>3 DEF Restart, remote
  <2> QED BY <2>1, <2>2
<1>4. CASE LateApply
  BY <1>1, <1>4 DEF LateApply
<1>5. ASSUME NEW l \in Lanes, Flush(l) \/ LoseAnswer(l) \/ Decline(l) PROVE orphans' = orphans
  BY <1>5 DEF Flush, MarkSending, ServerApply, Settle, FinishFlush, LoseAnswer, Decline
<1>6. ASSUME \/ \E e \in Entities, k \in WriteKinds, m \in Modes : Enqueue(e, k, m)
             \/ \E e \in Entities : Echo(e)
             \/ \E e \in Entities, st \in {"conflicted", "quarantined"} : Discard(e, st)
             \/ \E e \in Entities, k \in ForeignKinds : ForeignWrite(e, k)
             \/ ReadBatch \/ ReadUnit \/ Reconcile \/ RetryFailed \/ UNCHANGED vars
      PROVE  orphans' = orphans
  BY <1>6 DEF Enqueue, Echo, Discard, ForeignWrite, ReadBatch, ReadUnit, Reconcile, RetryFailed, vars
<1> HIDE DEF Goal
<1> QED BY <1>1, <1>2, <1>3, <1>4, <1>5, <1>6 DEF Next

\* Every step settles rows, or adds one with a new number.
Numbers ==
    \/ Settles /\ issued' = issued
    \/ /\ issued' = issued + 1
       /\ \A t \in DOMAIN journal' : t = issued + 1 \/ (t \in DOMAIN journal /\ journal'[t] = journal[t])

LEMMA NextNumbers ==
    ASSUME ServerInv, [Next]_vars
    PROVE  Numbers
<1>1. \A s \in DOMAIN journal : IsRow(journal[s])
  BY DEF ServerInv, OrderInv, Shape
<1>2. ASSUME UNCHANGED <<journal, issued>> PROVE Numbers
  BY <1>1, <1>2 DEF Numbers, Settles
<1>3. ASSUME NEW e \in Entities, NEW k \in WriteKinds, NEW m \in Modes, Enqueue(e, k, m) PROVE Numbers
  BY <1>3 DEF Enqueue, Numbers
<1>4. ASSUME (\E l \in Lanes : ServerApply(l)) \/ LateApply
             \/ \E e \in Entities, k \in ForeignKinds : ForeignWrite(e, k)
      PROVE  Numbers
  BY <1>2, <1>4 DEF ServerApply, LateApply, ForeignWrite, local
<1> QED BY <1>3, <1>4, OtherSteps DEF Numbers

\* What comes first stays first.
LEMMA NumbersKeepFirst ==
    ASSUME Numbers, issued \in Nat, NEW e, NEW s \in 1 .. issued, NoneBefore(e, s)
    PROVE  NoneBefore(e, s)' /\ s \in 1 .. issued'
<1>1. CASE Settles /\ issued' = issued
  BY <1>1 DEF Settles, NoneBefore
<1>2. CASE issued' = issued + 1
           /\ \A t \in DOMAIN journal' : t = issued + 1 \/ (t \in DOMAIN journal /\ journal'[t] = journal[t])
  BY <1>2 DEF NoneBefore
<1> QED BY <1>1, <1>2 DEF Numbers

LEMMA OrphanRowsStep ==
    ASSUME ServerInv, Modes = {"optimistic"}, [Next]_vars
    PROVE  OrphanRows'
<1>1. Numbers /\ issued \in Nat
  BY NextNumbers DEF ServerInv, OrderInv, Shape
<1>2. ASSUME NEW req \in orphans'
      PROVE  IsRequest(req.rows) /\ \A s \in DOMAIN req.rows : NoneBefore(req.rows[s].ent, s)
  <2>1. CASE req \in orphans
    BY <2>1 DEF ServerInv, OrphanRows
  <2>2. ASSUME NEW l \in Lanes, lane[l].pc = "sent", req = Orphan(l)
        PROVE  IsRequest(req.rows) /\ \A s \in DOMAIN req.rows : NoneBefore(req.rows[s].ent, s)
    <3>1. req.rows = Request(l)
      BY <2>2 DEF Orphan
    <3> QED BY <2>2, <3>1, SentRows DEF ServerInv
  <2> QED BY <2>1, <2>2, OrphansStep
<1>3. ASSUME NEW req \in orphans', NEW s \in DOMAIN req.rows
      PROVE  /\ s \in 1 .. issued' /\ req.rows[s].ent \in Entities /\ req.rows[s].kind \in Kinds
             /\ NoneBefore(req.rows[s].ent, s)'
  BY <1>1, <1>2, <1>3, NumbersKeepFirst DEF IsRequest
<1> QED BY <1>3 DEF OrphanRows, IsRequest

\* Every step preserves the server invariant.
LEMMA NextKeepsServer ==
    ASSUME ServerInv, Modes = {"optimistic"}, [Next]_vars
    PROVE  ServerInv'
<1>1. OrderInv'
  BY NextKeepsOrder DEF ServerInv
<1>2. ServerShape' /\ NothingOlder'
  BY OtherSteps, LocalKeepsServer, EnqueueKeepsServer, ServerApplyKeepsServer,
     LateApplyKeepsServer, ForeignKeepsServer
<1> QED BY <1>1, <1>2, OrphanRowsStep DEF ServerInv

LEMMA ServerInit == Init => ServerInv
<1> SUFFICES ASSUME Init PROVE ServerInv
  OBVIOUS
<1>1. DOMAIN journal = {} /\ issued = 0 /\ clock = 1 /\ orphans = {}
  BY DEF Init
<1>2. ServerShape
  BY <1>1 DEF Init, ServerShape, Absent, Foreign
<1> QED BY <1>1, <1>2, InitOrder DEF ServerInv, NothingOlder, OrphanRows

\* A server row keeps its version unless it is deleted or written anew.
LEMMA ServerRows ==
    ASSUME ServerInv, Modes = {"optimistic"}, [Next]_vars
    PROVE  /\ clock' = clock \/ clock' = clock + 1
           /\ \A e \in Entities :
                \/ server'[e] = server[e]
                \/ clock' = clock + 1 /\ server'[e].ver \in {0, clock + 1}
<1> DEFINE Goal == /\ clock' = clock \/ clock' = clock + 1
                   /\ \A e \in Entities :
                        \/ server'[e] = server[e]
                        \/ clock' = clock + 1 /\ server'[e].ver \in {0, clock + 1}
<1>0. OrderInv /\ ServerShape /\ OrphanRows
  BY DEF ServerInv
<1>1. ASSUME UNCHANGED <<server, clock>> PROVE Goal
  BY <1>1
<1>2. ASSUME NEW req, IsRequest(req), UNCHANGED remote \/ Commit(req) PROVE Goal
  BY <1>0, <1>1, <1>2, CommitRows DEF remote
<1>3. ASSUME NEW l \in Lanes, ServerApply(l) PROVE Goal
  <2>1. lane[l].pc = "sent" /\ (UNCHANGED remote \/ Commit(Request(l)))
    BY <1>3, ServerApplyForm DEF ServerApply
  <2> HIDE DEF Goal
  <2> QED BY <1>0, <1>2, <2>1, SentRows
<1>4. ASSUME LateApply PROVE Goal
  <2>1. PICK req \in orphans : UNCHANGED remote \/ Commit(req.rows)
    BY <1>4 DEF LateApply
  <2> HIDE DEF Goal
  <2> QED BY <1>0, <1>2, <2>1 DEF OrphanRows
<1>5. ASSUME NEW e \in Entities, NEW k \in ForeignKinds, ForeignWrite(e, k) PROVE Goal
  <2>1. /\ clock' = clock + 1
        /\ server' = [server EXCEPT ![e] = [ver |-> IF k = "delete" THEN 0 ELSE clock + 1, val |-> Foreign]]
    BY <1>5 DEF ForeignWrite
  <2>2. server'[e].ver \in {0, clock + 1} /\ \A f \in Entities : f # e => server'[f] = server[f]
    BY <1>0, <2>1 DEF ServerShape
  <2> QED BY <2>1, <2>2
<1>6. ASSUME NEW e \in Entities, NEW k \in WriteKinds, NEW m \in Modes, Enqueue(e, k, m) PROVE Goal
  BY <1>1, <1>6 DEF Enqueue, remote
<1> HIDE DEF Goal
<1>7. Goal
  BY <1>1, <1>3, <1>4, <1>5, <1>6, OtherSteps
<1> QED BY <1>7 DEF Goal

-----------------------------------------------------------------------------
(***************************************************************************)
(* The overlay of a table whose writes are all optimistic.  What the two   *)
(* theorems below rest on is that a write which is no longer owed has no   *)
(* earlier write of its entity that is: dropping it never uncovers one     *)
(* the overlay has already gone past.                                      *)
(***************************************************************************)
\* The answers of the batch endpoint.
BatchReply ==
    lane["batch"].pc = "replied" =>
        /\ lane["batch"].reply.kind \in {"acks", "failed", "invalid"}
        /\ lane["batch"].reply.kind = "acks" =>
             \A s \in DOMAIN lane["batch"].batch :
                 lane["batch"].reply.acks[s].st \in {"acked", "conflicted"}

NoneRejected == \A s \in DOMAIN journal : journal[s].status \in Statuses \ {"rejected"}

\* No earlier write of the same entity is owed.
PastOwed(s) == \A t \in DOMAIN journal :
    t < s /\ journal[t].ent = journal[s].ent => journal[t].status \notin Owed
Resolved == \A s \in DOMAIN journal : journal[s].status \notin Owed => PastOwed(s)

HasRow(e) == \E s \in DOMAIN journal : journal[s].ent = e
OverlayOwned == \A e \in Entities : overlay[e].kind # "none" => HasRow(e)

OverlayInv ==
    /\ ServerInv /\ BatchReply /\ NoneRejected /\ Resolved
    /\ overlay = [e \in Entities |-> overlay[e]]
    /\ OverlayOwned

\* The unit lane has nothing to send.
LEMMA UnitsEmpty ==
    ASSUME OrderInv, Modes = {"optimistic"}
    PROVE  DOMAIN lane["unit"].batch = {}
  BY DEF OrderInv, LaneRows, LaneRow, Lanes, Shape, IsRow

\* A step that drops settled rows, and overlays with them.
ClearsOverlay ==
    /\ Clears
    /\ overlay' = [e \in Entities |-> overlay'[e]]
    /\ \A e \in Entities :
         /\ overlay'[e] = overlay[e] \/ overlay'[e] = NoOverlay
         /\ overlay'[e].kind # "none" /\ HasRow(e) => HasRow(e)'
         /\ overlay'[e] # overlay[e] =>
               \/ \A s \in DOMAIN journal' : journal[s].ent = e => journal[s].status \notin Owed
               \/ DeleteCleared(e)

\* A step that only changes what the rows of the journal stand at.
Restates ==
    /\ overlay' = overlay
    /\ DOMAIN journal' = DOMAIN journal
    /\ \A s \in DOMAIN journal :
         /\ journal'[s].ent = journal[s].ent /\ journal'[s].kind = journal[s].kind
         /\ journal'[s].status \in Statuses \ {"rejected"}
         /\ journal'[s].status \in Owed => journal[s].status \in Owed
         /\ journal'[s].status \notin Owed /\ journal[s].status \in Owed => PastOwed(s)'

LEMMA TriggerOverlays ==
    ASSUME NEW e \in Entities, OverlayInv, Echo(e)
    PROVE  ClearsOverlay
<1>1. PICK n \in 1 .. Len(feed[e]) :
        LET run == SubSeq(feed[e], 1, n)
            net == run[n]
            deletes == \E i \in 1 .. n : run[i].ver = 0
            j1 == IF deletes /\ synced[e].ver > 0 THEN TriggerJournal(journal, e, 0) ELSE journal
            o1 == IF deletes /\ synced[e].ver > 0 THEN TriggerOverlay(j1, overlay[e], e) ELSE overlay[e]
            j2 == IF net.ver > 0 THEN TriggerJournal(j1, e, net.ver) ELSE j1
            o2 == IF net.ver > 0 THEN TriggerOverlay(j2, o1, e) ELSE o1
        IN  journal' = j2 /\ overlay' = [overlay EXCEPT ![e] = o2]
  BY DEF Echo
<1> DEFINE net == SubSeq(feed[e], 1, n)[n]
           first == (\E i \in 1 .. n : SubSeq(feed[e], 1, n)[i].ver = 0) /\ synced[e].ver > 0
           j1 == IF first THEN TriggerJournal(journal, e, 0) ELSE journal
           o1 == IF first THEN TriggerOverlay(j1, overlay[e], e) ELSE overlay[e]
           o2 == IF net.ver > 0 THEN TriggerOverlay(journal', o1, e) ELSE o1
<1>2. /\ journal' = IF net.ver > 0 THEN TriggerJournal(j1, e, net.ver) ELSE j1
      /\ overlay' = [overlay EXCEPT ![e] = o2]
  BY <1>1
<1> HIDE DEF net, first
<1>3. /\ DOMAIN j1 \subseteq DOMAIN journal /\ \A s \in DOMAIN j1 : j1[s] = journal[s]
      /\ ~first => j1 = journal
  BY TriggerClears
<1>4. (first => o1 = IF RowsOf(j1, e) = {} THEN NoOverlay ELSE overlay[e]) /\ (~first => o1 = overlay[e])
  BY DEF TriggerOverlay
<1> HIDE DEF j1, o1
<1>5. /\ DOMAIN journal' \subseteq DOMAIN j1 /\ \A s \in DOMAIN journal' : journal'[s] = j1[s]
      /\ ~(net.ver > 0) => journal' = j1
  BY <1>2, TriggerClears
<1>6. (net.ver > 0 => o2 = IF RowsOf(journal', e) = {} THEN NoOverlay ELSE o1) /\ (~(net.ver > 0) => o2 = o1)
  BY DEF TriggerOverlay
<1>7. overlay'[e] = o2 /\ \A f \in Entities : f # e => overlay'[f] = overlay[f]
  BY <1>2 DEF OverlayInv
<1>8. overlay' = [f \in Entities |-> overlay'[f]]
  BY <1>2 DEF OverlayInv
<1> HIDE DEF o2
<1>9. /\ o2 = overlay[e] \/ (o2 = NoOverlay /\ RowsOf(journal', e) = {})
      /\ RowsOf(journal', e) = {} => o2 = NoOverlay \/ journal' = journal
  BY <1>3, <1>4, <1>5, <1>6 DEF RowsOf
<1>10. \A s \in DOMAIN journal \ DOMAIN journal' : journal[s].ent = e
  <2>1. ASSUME NEW j, NEW ver
        PROVE  \A s \in DOMAIN j \ DOMAIN TriggerJournal(j, e, ver) : j[s].ent = e
    <3> DEFINE kept == Drop(j, Superseded(j, e))
               gone == {s \in WithStatus(kept, e, {"acked"}) :
                          IF ver = 0 THEN kept[s].kind = "delete"
                          ELSE kept[s].kind # "delete" /\ kept[s].ver > 0 /\ Barrier(kept[s], ver)}
    <3>1. /\ DOMAIN kept = DOMAIN j \ Superseded(j, e) /\ \A s \in DOMAIN kept : kept[s] = j[s]
          /\ \A s \in Superseded(j, e) : j[s].ent = e
      BY DEF Drop, Restrict, Superseded, WithStatus, RowsOf
    <3>2. \A s \in gone : s \in DOMAIN kept /\ kept[s].ent = e
      BY DEF WithStatus, RowsOf
    <3>3. DOMAIN TriggerJournal(j, e, ver) = DOMAIN kept \ gone
      BY DEF Drop, Restrict, TriggerJournal
    <3> HIDE DEF kept, gone
    <3> QED BY <3>1, <3>2, <3>3
  <2>2. \A s \in DOMAIN journal \ DOMAIN j1 : journal[s].ent = e
    BY <2>1 DEF j1
  <2>3. \A s \in DOMAIN j1 \ DOMAIN journal' : j1[s].ent = e
    BY <1>2, <2>1
  <2> QED BY <1>3, <2>2, <2>3
<1>11. ASSUME NEW f \in Entities
       PROVE  /\ overlay'[f] = overlay[f] \/ overlay'[f] = NoOverlay
              /\ overlay'[f].kind # "none" /\ HasRow(f) => HasRow(f)'
              /\ overlay'[f] # overlay[f] =>
                    \A s \in DOMAIN journal' : journal[s].ent = f => journal[s].status \notin Owed
  <2>0. \A s \in DOMAIN journal' : s \in DOMAIN journal /\ journal'[s] = journal[s]
    BY <1>3, <1>5
  <2>1. CASE f = e
    BY <1>7, <1>9, <2>0, <2>1 DEF HasRow, RowsOf, NoOverlay
  <2>2. CASE f # e
    BY <1>7, <1>10, <2>0, <2>2 DEF HasRow
  <2> QED BY <2>1, <2>2
<1> QED BY <1>8, <1>11, EchoClears DEF ClearsOverlay

LEMMA ReconcileOverlays ==
    ASSUME OverlayInv, Modes = {"optimistic"}, ReconcileTable
    PROVE  ClearsOverlay
<1> DEFINE j0 == RetireConflicts(journal)
           j1 == RetireBlind(j0)
           j2 == Drop(j1, UNION {Landed(j1, e) : e \in Entities})
           j3 == Drop(j2, UNION {DeletesDone(j2, e) : e \in Entities})
           cleared(e) == OverlayCleared(j1, e) \/ DeletesDone(j2, e) # {}
<1>1. journal' = j3 /\ overlay' = [e \in Entities |-> IF cleared(e) THEN NoOverlay ELSE overlay[e]]
  BY DEF ReconcileTable
<1>2. /\ DOMAIN j0 = DOMAIN journal \ UNION {Superseded(journal, e) : e \in Entities}
      /\ \A s \in DOMAIN j0 : j0[s] = journal[s]
  BY DEF Drop, Restrict, RetireConflicts
<1>3. j1 = j0 /\ DOMAIN j1 = DOMAIN j0
  <2>1. \A s \in DOMAIN j0 : j0[s].mode # "blind"
    BY <1>2 DEF OverlayInv, ServerInv, OrderInv, Shape, IsRow
  <2>2. /\ DOMAIN j1 = DOMAIN j0 /\ j1 = [s \in DOMAIN j0 |-> j0[s]]
    <3> HIDE DEF j0
    <3> QED BY <2>1 DEF RetireBlind, Drop, Restrict
  <2>3. j0 = [s \in DOMAIN j0 |-> j0[s]]
    BY DEF RetireConflicts, Drop, Restrict
  <2> HIDE DEF j0, j1
  <2> QED BY <2>2, <2>3
<1>4. /\ DOMAIN j2 = DOMAIN j1 \ UNION {Landed(j1, e) : e \in Entities}
      /\ \A s \in DOMAIN j2 : j2[s] = j1[s]
  BY DEF Drop, Restrict
<1>5. /\ DOMAIN j3 = DOMAIN j2 \ UNION {DeletesDone(j2, e) : e \in Entities}
      /\ \A s \in DOMAIN j3 : j3[s] = j2[s]
  BY DEF Drop, Restrict
<1>6. \A e \in Entities : \A s \in Landed(j1, e) :
        s \in DOMAIN j1 /\ j1[s].ent = e /\ j1[s].status = "acked"
  BY DEF Landed, WithStatus, RowsOf
<1>7. \A e \in Entities : \A s \in DeletesDone(j2, e) :
        s \in DOMAIN j2 /\ j2[s].ent = e /\ j2[s].status = "acked" /\ j2[s].kind = "delete"
  BY DEF DeletesDone, WithStatus, RowsOf
<1>8. \A e \in Entities : \A s \in Superseded(journal, e) :
        /\ s \in DOMAIN journal /\ journal[s].ent = e /\ journal[s].status = "conflicted"
        /\ \E t \in DOMAIN journal : journal[t].ent = e /\ journal[t].status = "acked"
  BY DEF Superseded, WithStatus, RowsOf
<1>9. \A e \in Entities : OverlayCleared(j1, e) <=>
        Landed(j1, e) # {} /\ \A s \in DOMAIN j1 : j1[s].ent = e => j1[s].status \notin Owed
  BY DEF OverlayCleared, WithStatus, RowsOf
<1>10. \A e \in Entities : overlay'[e] = IF cleared(e) THEN NoOverlay ELSE overlay[e]
  BY <1>1
<1>11. overlay' = [e \in Entities |-> overlay'[e]]
  <2> HIDE DEF cleared
  <2> QED BY <1>1
<1> HIDE DEF j0, j1, j2, j3
<1>12. ASSUME NEW e \in Entities, HasRow(e), ~cleared(e)
       PROVE  HasRow(e)'
  <2>1. PICK s \in DOMAIN journal : journal[s].ent = e
    BY <1>12 DEF HasRow
  <2>2. PICK t \in DOMAIN j1 : j1[t].ent = e
    <3>1. CASE s \in DOMAIN j0
      BY <1>2, <1>3, <2>1, <3>1
    <3>2. CASE s \notin DOMAIN j0
      <4>1. PICK f \in Entities : s \in Superseded(journal, f)
        BY <1>2, <3>2
      <4>2. f = e
        BY <1>8, <2>1, <4>1
      <4>3. PICK u \in DOMAIN journal : journal[u].ent = e /\ journal[u].status = "acked"
        BY <1>8, <4>1, <4>2
      <4>4. u \in DOMAIN j0
        BY <1>2, <1>8, <4>3
      <4> QED BY <1>2, <1>3, <4>3, <4>4
    <3> QED BY <3>1, <3>2
  <2>3. CASE t \in DOMAIN j2
    <3>1. t \in DOMAIN j3
      BY <1>4, <1>5, <1>7, <1>12, <2>2, <2>3 DEF cleared
    <3> QED BY <1>1, <1>4, <1>5, <2>2, <3>1 DEF HasRow
  <2>4. CASE t \notin DOMAIN j2
    <3>1. Landed(j1, e) # {}
      BY <1>4, <1>6, <2>2, <2>4
    <3>2. PICK u \in DOMAIN j1 : j1[u].ent = e /\ j1[u].status \in Owed
      BY <1>9, <1>12, <3>1 DEF cleared
    <3>3. u \in DOMAIN j2
      BY <1>4, <1>6, <3>2 DEF Owed
    <3>4. u \in DOMAIN j3
      BY <1>4, <1>5, <1>7, <3>2, <3>3 DEF Owed
    <3> QED BY <1>1, <1>4, <1>5, <3>2, <3>4 DEF HasRow
  <2> QED BY <2>3, <2>4
<1>13. ASSUME NEW e \in Entities, cleared(e)
       PROVE  \/ \A s \in DOMAIN journal' : journal[s].ent = e => journal[s].status \notin Owed
              \/ DeleteCleared(e)
  <2>1. \A s \in DOMAIN j2 : s \in DOMAIN j1 /\ j2[s] = j1[s] /\ s \in DOMAIN journal /\ j1[s] = journal[s]
    BY <1>2, <1>3, <1>4
  <2>2. CASE OverlayCleared(j1, e)
    BY <1>1, <1>5, <1>9, <2>1, <2>2
  <2>3. CASE DeletesDone(j2, e) # {}
    <3>1. PICK s : s \in DeletesDone(j2, e)
      BY <2>3
    <3>2. s \notin DOMAIN journal'
      BY <1>1, <1>5, <3>1
    <3> QED BY <1>7, <2>1, <3>1, <3>2 DEF DeleteCleared, RowsOf
  <2> QED BY <1>13, <2>2, <2>3 DEF cleared
<1> HIDE DEF cleared
<1> QED BY <1>10, <1>11, <1>12, <1>13, ReconcileClears DEF ClearsOverlay, NoOverlay

LEMMA DiscardOverlays ==
    ASSUME OverlayInv, NEW e \in Entities, NEW st \in {"conflicted", "quarantined"}, Discard(e, st)
    PROVE  ClearsOverlay
<1>1. /\ journal' = Drop(journal, TerminalRows(e, st))
      /\ overlay' = [overlay EXCEPT ![e] = IF RowsOf(journal', e) = {} THEN NoOverlay ELSE overlay[e]]
  BY DEF Discard
<1>2. Clears
  BY DiscardClears
<1>3. \A s \in DOMAIN journal \ DOMAIN journal' : journal[s].ent = e
  BY <1>1 DEF Drop, Restrict, TerminalRows, WithStatus, RowsOf
<1>4. /\ overlay'[e] = IF RowsOf(journal', e) = {} THEN NoOverlay ELSE overlay[e]
      /\ \A f \in Entities : f # e => overlay'[f] = overlay[f]
      /\ overlay' = [f \in Entities |-> overlay'[f]]
  BY <1>1 DEF OverlayInv
<1>5. ASSUME NEW f \in Entities
      PROVE  /\ overlay'[f] = overlay[f] \/ overlay'[f] = NoOverlay
             /\ overlay'[f].kind # "none" /\ HasRow(f) => HasRow(f)'
             /\ overlay'[f] # overlay[f] =>
                   \A s \in DOMAIN journal' : journal[s].ent = f => journal[s].status \notin Owed
  <2>1. CASE f = e
    BY <1>2, <1>4, <2>1 DEF HasRow, RowsOf, NoOverlay, Clears
  <2>2. CASE f # e
    BY <1>2, <1>3, <1>4, <2>2 DEF HasRow, Clears
  <2> QED BY <2>1, <2>2
<1> QED BY <1>2, <1>4, <1>5 DEF ClearsOverlay

\* A step that leaves the journal and the overlay alone.
LEMMA QuietRestates ==
    ASSUME OverlayInv, UNCHANGED <<journal, overlay>>
    PROVE  Restates
  BY DEF OverlayInv, Restates, NoneRejected

\* A flush marks its rows, all of them still owed.
LEMMA MarkSendingRestates ==
    ASSUME OverlayInv, NEW l \in Lanes, MarkSending(l)
    PROVE  Restates
<1> DEFINE marked(s) == [journal[s] EXCEPT !.status = "sending", !.base = lane[l].batch[s],
                                           !.attempts = @ + 1]
<1>1. /\ journal' = [s \in DOMAIN journal |->
                       IF s \notin DOMAIN lane[l].batch THEN journal[s] ELSE marked(s)]
      /\ lane[l].pc = "read" /\ overlay' = overlay
  BY DEF MarkSending
<1>2. ASSUME NEW s \in DOMAIN journal, s \in DOMAIN lane[l].batch
      PROVE  /\ marked(s).status = "sending" /\ journal[s].status \in Owed
             /\ marked(s).ent = journal[s].ent /\ marked(s).kind = journal[s].kind
  <2>1. IsRow(journal[s]) /\ journal[s].status \in Owed
    <3> HIDE DEF marked
    <3> QED BY <1>1, <1>2 DEF OverlayInv, ServerInv, OrderInv, LaneRows, LaneRow, Shape, Owed
  <2> QED BY <2>1 DEF IsRow
<1>3. "sending" \in Owed /\ "sending" \in Statuses \ {"rejected"}
  BY DEF Owed, Statuses
<1> HIDE DEF marked
<1> QED BY <1>1, <1>2, <1>3 DEF Restates, OverlayInv, NoneRejected

\* An answer settles the first unresolved write of each entity.
LEMMA SettleRestates ==
    ASSUME OverlayInv, Modes = {"optimistic"}, NEW l \in Lanes, Settle(l)
    PROVE  Restates
<1>1. /\ lane[l].pc = "replied"
      /\ journal' = [s \in DOMAIN journal |->
                       IF s \in DOMAIN lane[l].batch
                       THEN Outcome(journal[s], s, lane[l].reply) ELSE journal[s]]
      /\ \A e \in Entities :
           overlay'[e] # overlay[e] => lane[l].reply.kind = "rejected" /\ DOMAIN lane[l].batch # {}
      /\ overlay' = [e \in Entities |-> overlay'[e]]
  BY DEF Settle
<1>2. OrderInv' /\ Settles
  BY SettleKeepsOrder DEF OverlayInv, ServerInv
<1>3. DOMAIN lane[l].batch # {} =>
        l = "batch" /\ lane[l].reply.kind \in {"acks", "failed", "invalid"}
  BY <1>1, UnitsEmpty DEF OverlayInv, ServerInv, BatchReply, Lanes
<1>4. overlay' = overlay
  BY <1>1, <1>3 DEF OverlayInv
<1>5. ASSUME NEW s \in DOMAIN journal, s \in DOMAIN lane[l].batch
      PROVE  /\ journal'[s].ent = journal[s].ent /\ journal'[s].kind = journal[s].kind
             /\ journal'[s].status \in {"acked", "conflicted", "failed", "quarantined"}
             /\ journal[s].status = "sending" /\ PastOwed(s)'
  <2>1. IsRow(journal[s]) /\ journal[s].status = "sending" /\ First(s)
    BY <1>1, <1>3, <1>5 DEF OverlayInv, ServerInv, OrderInv, Shape, LaneRows, LaneRow, BatchFirst
  <2>2. journal'[s] = Outcome(journal[s], s, lane[l].reply)
    BY <1>1, <1>5
  <2>3. lane[l].reply.kind = "acks" => lane[l].reply.acks[s].st \in {"acked", "conflicted"}
    BY <1>1, <1>3, <1>5 DEF OverlayInv, BatchReply
  <2>4. /\ journal'[s].ent = journal[s].ent /\ journal'[s].kind = journal[s].kind
        /\ journal'[s].status \in {"acked", "conflicted", "failed", "quarantined"}
    BY <1>3, <1>5, <2>1, <2>2, <2>3 DEF Outcome, IsRow, FailureOutcome
  <2>5. First(s)'
    BY <1>1, <1>2, <2>1, SettlesKeepsFirst
  <2>6. PastOwed(s)'
    BY <2>5 DEF First, PastOwed, Unresolved, Owed
  <2> QED BY <2>1, <2>4, <2>6
<1>6. {"acked", "conflicted", "failed", "quarantined"} \subseteq Statuses \ {"rejected"} /\ "sending" \in Owed
  BY DEF Statuses, Owed
<1>7. DOMAIN journal' = DOMAIN journal
      /\ \A s \in DOMAIN journal : s \notin DOMAIN lane[l].batch => journal'[s] = journal[s]
  BY <1>1
<1> QED BY <1>4, <1>5, <1>6, <1>7 DEF Restates, OverlayInv, NoneRejected

\* retryFailed, and the boot after a crash or from a backup.
LEMMA MoveRestates ==
    ASSUME OverlayInv, RetryFailed \/ Restart
    PROVE  Restates
<1>0. \A s \in DOMAIN journal : IsRow(journal[s])
  BY DEF OverlayInv, ServerInv, OrderInv, Shape
<1>1. overlay' = overlay
  BY DEF RetryFailed, Restart
<1>2. ASSUME NEW from, from \subseteq Owed, NEW to, Move(from, to)
      PROVE  /\ DOMAIN journal' = DOMAIN journal
             /\ \A s \in DOMAIN journal :
                  /\ journal'[s].ent = journal[s].ent /\ journal'[s].kind = journal[s].kind
                  /\ journal[s].status \in from => journal'[s].status = to
                  /\ journal[s].status \notin from => journal'[s].status = journal[s].status
  BY <1>0, <1>2 DEF Move, IsRow
<1>3. CASE Move({"failed"}, "pending")
  <2>1. {"failed"} \subseteq Owed /\ "pending" \in Owed /\ "pending" \in Statuses \ {"rejected"}
    BY DEF Owed, Statuses
  <2> QED BY <1>1, <1>2, <1>3, <2>1 DEF Restates, OverlayInv, NoneRejected
<1>4. CASE Move(Recovered, "pending")
  <2>1. Recovered \subseteq Owed /\ "pending" \in Owed /\ "pending" \in Statuses \ {"rejected"}
    BY DEF Owed, Statuses, Recovered
  <2>2. /\ DOMAIN journal' = DOMAIN journal
        /\ \A s \in DOMAIN journal :
             /\ journal'[s].ent = journal[s].ent /\ journal'[s].kind = journal[s].kind
             /\ journal[s].status \in Recovered => journal'[s].status = "pending"
             /\ journal[s].status \notin Recovered => journal'[s].status = journal[s].status
    BY <1>2, <1>4, <2>1
  <2> QED BY <1>1, <2>1, <2>2 DEF Restates, OverlayInv, NoneRejected
<1>5. CASE Move(Owed, "quarantined")
  <2>1. "quarantined" \notin Owed /\ "quarantined" \in Statuses \ {"rejected"}
    BY DEF Owed, Statuses
  <2>2. \A s \in DOMAIN journal : journal'[s].status \notin Owed
    BY <1>2, <1>5, <2>1
  <2>3. DOMAIN journal' = DOMAIN journal
    BY <1>2, <1>5
  <2>4. \A s \in DOMAIN journal : PastOwed(s)'
    BY <2>2, <2>3 DEF PastOwed
  <2> QED BY <1>1, <1>2, <1>5, <2>1, <2>2, <2>3, <2>4 DEF Restates, OverlayInv, NoneRejected
<1> QED BY <1>3, <1>4, <1>5 DEF RetryFailed, Restart

\* What a step can do to the overlay and to the rows under it.
LEMMA OverlayKinds ==
    ASSUME OverlayInv, Modes = {"optimistic"}, [Next]_vars
    PROVE  \/ ClearsOverlay
           \/ Restates
           \/ \E e \in Entities, k \in WriteKinds, m \in Modes : Enqueue(e, k, m)
<1>1. ASSUME NEW e \in Entities, Echo(e) PROVE ClearsOverlay
  BY <1>1, TriggerOverlays
<1>2. ASSUME Reconcile \/ \E l \in Lanes : FinishFlush(l) PROVE ClearsOverlay
  BY <1>2, ReconcileOverlays DEF Reconcile, FinishFlush
<1>3. ASSUME NEW e \in Entities, NEW st \in {"conflicted", "quarantined"}, Discard(e, st)
      PROVE  ClearsOverlay
  BY <1>3, DiscardOverlays
<1>4. ASSUME ReadBatch \/ ReadUnit PROVE Restates
  BY <1>4, QuietRestates DEF ReadBatch, ReadUnit, local
<1>5. ASSUME NEW l \in Lanes, ServerApply(l) \/ LoseRequest(l) \/ LoseAnswer(l) \/ Decline(l)
      PROVE  Restates
  <2>1. UNCHANGED local
    BY <1>5 DEF ServerApply, LoseRequest, LoseAnswer, Decline
  <2> QED BY <2>1, QuietRestates DEF local
<1>6. ASSUME NEW e \in Entities, NEW k \in ForeignKinds, ForeignWrite(e, k) PROVE Restates
  BY <1>6, QuietRestates DEF ForeignWrite, local
<1>7. CASE LateApply \/ UNCHANGED vars
  BY <1>7, QuietRestates DEF LateApply, local, vars
<1> QED
  BY <1>1, <1>2, <1>3, <1>4, <1>5, <1>6, <1>7, MarkSendingRestates, SettleRestates, MoveRestates
  DEF Next, Flush

\* What one mutation is answered with.
LEMMA ApplyStatus ==
    ASSUME NEW cur, cur.ver \in Nat, NEW kind \in Kinds, NEW base, NEW s, NEW v
    PROVE  Apply(cur, kind, base, s, v).st \in {"acked", "conflicted", "error"}
<1>1. cur.ver = 0 \/ cur.ver > 0
  OBVIOUS
<1> QED BY <1>1 DEF Apply, Ack, Kinds

\* The batch endpoint answers with an ack or a conflict for every mutation,
\* or fails as a whole.
LEMMA BatchReplyStep ==
    ASSUME OverlayInv, [Next]_vars
    PROVE  BatchReply'
<1>0. BatchReply /\ "batch" \in Lanes /\ LaneShape
  BY DEF OverlayInv, ServerInv, OrderInv, Shape, Lanes
<1>1. ASSUME lane'["batch"] = lane["batch"] PROVE BatchReply'
  BY <1>0, <1>1 DEF BatchReply
<1>2. ASSUME lane'["batch"].pc # "replied" PROVE BatchReply'
  BY <1>2 DEF BatchReply
<1>3. ASSUME NEW l \in Lanes, NEW r, Reply(l, r), l = "batch" => r.kind \in {"failed", "invalid"}
      PROVE  BatchReply'
  <2>1. l # "batch" => lane'["batch"] = lane["batch"]
    BY <1>0, <1>3 DEF Reply, LaneShape
  <2>2. l = "batch" => lane'["batch"].reply = r
    BY <1>0, <1>3 DEF Reply, LaneShape, IsLane
  <2>3. CASE l = "batch"
    BY <1>3, <2>2, <2>3 DEF BatchReply
  <2> QED BY <1>1, <2>1, <2>3
<1>4. ASSUME NEW l \in Lanes, ServerApply(l) PROVE BatchReply'
  <2> DEFINE acks == [s \in DOMAIN lane[l].batch |-> Answer(l, s)]
  <2>1. \/ Reply(l, IF l = "unit" THEN [kind |-> "rejected"] ELSE [kind |-> "failed"])
        \/ (\A s \in DOMAIN lane[l].batch : acks[s].st # "error") /\ Reply(l, [kind |-> "acks", acks |-> acks])
    BY <1>4, ServerApplyForm
  <2>2. \A s \in DOMAIN lane[l].batch : s \in DOMAIN journal /\ journal[s].kind \in Kinds
    BY DEF OverlayInv, ServerInv, OrderInv, LaneRows, LaneRow, Shape, IsRow
  <2>3. ASSUME NEW s \in DOMAIN lane[l].batch, acks[s].st # "error"
        PROVE  acks[s].st \in {"acked", "conflicted"}
    <3>1. server[journal[s].ent].ver \in Nat
      BY <2>2, <2>3 DEF OverlayInv, ServerInv, OrderInv, Shape, IsRow, ServerShape
    <3> QED BY <2>2, <2>3, <3>1, ApplyStatus DEF Answer
  <2> HIDE DEF acks
  <2>4. CASE Reply(l, IF l = "unit" THEN [kind |-> "rejected"] ELSE [kind |-> "failed"])
    BY <1>3, <2>4 DEF Lanes
  <2>5. CASE /\ \A s \in DOMAIN lane[l].batch : acks[s].st # "error"
             /\ Reply(l, [kind |-> "acks", acks |-> acks])
    <3>1. CASE l # "batch"
      <4>1. lane'["batch"] = lane["batch"]
        BY <1>0, <2>5, <3>1 DEF Reply, LaneShape
      <4> QED BY <1>1, <4>1
    <3>2. CASE l = "batch"
      <4>1. /\ lane'["batch"].reply = [kind |-> "acks", acks |-> acks]
            /\ lane'["batch"].batch = lane["batch"].batch
        BY <1>0, <2>5, <3>2 DEF Reply, LaneShape, IsLane
      <4>2. \A s \in DOMAIN lane["batch"].batch : acks[s].st \in {"acked", "conflicted"}
        BY <2>3, <2>5, <3>2
      <4> QED BY <4>1, <4>2 DEF BatchReply
    <3> QED BY <3>1, <3>2
  <2> QED BY <2>1, <2>4, <2>5
<1>5. ASSUME NEW l \in Lanes, LoseRequest(l) \/ LoseAnswer(l) \/ Decline(l) PROVE BatchReply'
  <2>1. CASE Reply(l, [kind |-> "failed"])
    BY <1>3, <2>1
  <2>2. CASE l # "batch" /\ Reply(l, [kind |-> "rejected"])
    BY <1>3, <2>2
  <2>3. ASSUME NEW named, Reply(l, [kind |-> "invalid", named |-> named]) PROVE BatchReply'
    BY <1>3, <2>3
  <2> QED BY <1>5, <2>1, <2>2, <2>3 DEF LoseRequest, LoseAnswer, Decline, Lanes
<1>6. ASSUME NEW l \in Lanes, MarkSending(l) \/ Settle(l) \/ FinishFlush(l) PROVE BatchReply'
  <2>1. PICK k : lane' = [lane EXCEPT ![l] = k] /\ k.pc # "replied"
    <3>1. CASE MarkSending(l)
      <4>1. lane' = [lane EXCEPT ![l] = [lane[l] EXCEPT !.pc = "sent"]]
        BY <3>1 DEF MarkSending
      <4>2. [lane[l] EXCEPT !.pc = "sent"].pc # "replied"
        BY <1>0 DEF LaneShape, IsLane
      <4> QED BY <4>1, <4>2
    <3>2. CASE Settle(l)
      <4>1. lane' = [lane EXCEPT ![l] = AfterSettle(l)]
        BY <3>2 DEF Settle
      <4>2. AfterSettle(l).pc # "replied"
        BY DEF AfterSettle, Idle
      <4> QED BY <4>1, <4>2
    <3>3. CASE FinishFlush(l)
      <4>1. lane' = [lane EXCEPT ![l] = Idle]
        BY <3>3 DEF FinishFlush
      <4>2. Idle.pc # "replied"
        BY DEF Idle
      <4> QED BY <4>1, <4>2
    <3> QED BY <1>6, <3>1, <3>2, <3>3
  <2>2. lane'["batch"] = lane["batch"] \/ lane'["batch"].pc # "replied"
    BY <1>0, <2>1 DEF LaneShape
  <2> QED BY <1>1, <1>2, <2>2
<1>7. ASSUME ReadBatch \/ ReadUnit PROVE BatchReply'
  <2>1. CASE ReadUnit
    <3>1. PICK k : lane' = [lane EXCEPT !["unit"] = k]
      BY <2>1 DEF ReadUnit
    <3> QED BY <1>0, <1>1, <3>1 DEF LaneShape
  <2>2. CASE ReadBatch
    <3>1. PICK f : lane' = [lane EXCEPT !["batch"].pc = "read", !["batch"].batch = f]
      BY <2>2 DEF ReadBatch
    <3>2. lane'["batch"].pc = "read"
      BY <1>0, <3>1 DEF LaneShape, IsLane
    <3> QED BY <1>2, <3>2
  <2> QED BY <1>7, <2>1, <2>2
<1>8. ASSUME Restart PROVE BatchReply'
  BY <1>0, <1>2, <1>8 DEF Restart, Idle
<1>9. ASSUME \/ \E e \in Entities, k \in WriteKinds, m \in Modes : Enqueue(e, k, m)
             \/ \E e \in Entities : Echo(e)
             \/ \E e \in Entities, st \in {"conflicted", "quarantined"} : Discard(e, st)
             \/ \E e \in Entities, k \in ForeignKinds : ForeignWrite(e, k)
             \/ LateApply \/ Reconcile \/ RetryFailed \/ UNCHANGED vars
      PROVE  BatchReply'
  <2>1. lane' = lane
    BY <1>9 DEF Enqueue, Echo, Discard, ForeignWrite, LateApply, Reconcile, RetryFailed, vars
  <2> QED BY <1>1, <2>1
<1> QED BY <1>4, <1>5, <1>6, <1>7, <1>8, <1>9 DEF Next, Flush

\* Every step preserves the overlay's invariant.
LEMMA OverlayStep ==
    ASSUME OverlayInv, Modes = {"optimistic"}, [Next]_vars
    PROVE  OverlayInv'
<1>0. /\ OrderInv /\ NoneRejected /\ Resolved /\ OverlayOwned
      /\ overlay = [e \in Entities |-> overlay[e]]
  BY DEF OverlayInv, ServerInv
<1>1. ServerInv' /\ BatchReply'
  BY NextKeepsServer, BatchReplyStep DEF OverlayInv
<1>2. CASE ClearsOverlay
  <2>1. /\ DOMAIN journal' \subseteq DOMAIN journal
        /\ \A s \in DOMAIN journal' : journal'[s] = journal[s]
    BY <1>2 DEF ClearsOverlay, Clears
  <2>2. NoneRejected' /\ Resolved'
    BY <1>0, <2>1 DEF NoneRejected, Resolved, PastOwed
  <2>3. OverlayOwned'
    BY <1>0, <1>2 DEF ClearsOverlay, OverlayOwned, NoOverlay
  <2>4. overlay' = [e \in Entities |-> overlay'[e]]
    BY <1>2 DEF ClearsOverlay
  <2> QED BY <1>1, <2>2, <2>3, <2>4 DEF OverlayInv
<1>3. CASE Restates
  <2>1. NoneRejected' /\ Resolved'
    BY <1>0, <1>3 DEF Restates, NoneRejected, Resolved, PastOwed
  <2>2. OverlayOwned'
    BY <1>0, <1>3 DEF Restates, OverlayOwned, HasRow
  <2>3. overlay' = [e \in Entities |-> overlay'[e]]
    BY <1>0, <1>3 DEF Restates
  <2> QED BY <1>1, <2>1, <2>2, <2>3 DEF OverlayInv
<1>4. ASSUME NEW e \in Entities, NEW k \in WriteKinds, NEW m \in Modes, Enqueue(e, k, m)
      PROVE  /\ NoneRejected' /\ Resolved' /\ OverlayOwned'
             /\ overlay' = [f \in Entities |-> overlay'[f]]
  <2>1. /\ DOMAIN journal' = DOMAIN journal \cup {issued + 1}
        /\ \A s \in DOMAIN journal : s \in 1 .. issued /\ journal'[s] = journal[s]
        /\ issued \in Nat
    BY <1>0, <1>4 DEF Enqueue, OrderInv, Shape
  <2>2. journal'[issued + 1].ent = e /\ journal'[issued + 1].status = "pending"
    BY <1>4 DEF Enqueue
  <2>3. \A f \in Entities : f # e => overlay'[f] = overlay[f]
    BY <1>0, <1>4 DEF Enqueue
  <2>4. NoneRejected'
    BY <1>0, <2>1, <2>2 DEF NoneRejected, Statuses
  <2>5. Resolved'
    BY <1>0, <2>1, <2>2 DEF Resolved, PastOwed, Owed
  <2>6. OverlayOwned'
    BY <1>0, <2>1, <2>2, <2>3 DEF OverlayOwned, HasRow
  <2>7. overlay' = [f \in Entities |-> overlay'[f]]
    <3>1. PICK o : overlay' = [overlay EXCEPT ![e] = o]
      BY <1>4 DEF Enqueue
    <3> QED BY <1>0, <3>1
  <2> QED BY <2>4, <2>5, <2>6, <2>7
<1> QED BY <1>1, <1>2, <1>3, <1>4, OverlayKinds DEF OverlayInv

LEMMA OverlayInit == Init => OverlayInv
<1> SUFFICES ASSUME Init PROVE OverlayInv
  OBVIOUS
<1>1. DOMAIN journal = {}
  BY DEF Init
<1>2. lane["batch"].pc # "replied"
  BY DEF Init, Lanes, Idle
<1>3. overlay = [e \in Entities |-> overlay[e]] /\ OverlayOwned
  BY DEF Init, OverlayOwned, NoOverlay
<1> QED BY <1>1, <1>2, <1>3, ServerInit DEF OverlayInv, BatchReply, NoneRejected, Resolved

(***************************************************************************)
(* On a table whose writes are all optimistic, no overlay is orphaned: the *)
(* trigger, reconcileTable and the two discards never drop the last        *)
(* journal row of an entity and leave its overlay over the server's row.   *)
(***************************************************************************)
THEOREM OverlayTheorem == ASSUME Modes = {"optimistic"} PROVE Spec => []OverlayHasOwner
<1>1. OverlayInv /\ [Next]_vars => OverlayInv'
  BY OverlayStep
<1>2. OverlayInv => OverlayHasOwner
  BY DEF OverlayInv, OverlayOwned, OverlayHasOwner, HasRow, NoneRejected, WithStatus, RowsOf
<1> QED BY <1>1, <1>2, OverlayInit, PTL DEF Spec

-----------------------------------------------------------------------------
(***************************************************************************)
(* Reading one's writes, for a table whose writes are all optimistic.      *)
(***************************************************************************)
\* A set of numbers with an upper bound has a largest one.
LEMMA MaxOf ==
    ASSUME NEW n \in Nat, NEW S, S \subseteq 0 .. n, S # {}
    PROVE  Max(S) \in S /\ \A y \in S : y <= Max(S)
<1> DEFINE R == {p \in Nat \X Nat : p[1] < p[2]}
           T == {n - x : x \in S}
<1> HIDE DEF R
<1>1. T \subseteq Nat /\ T # {}
  <2>1. PICK x \in S : TRUE
    OBVIOUS
  <2>2. n - x \in T
    OBVIOUS
  <2>3. \A y \in S : y \in 0 .. n /\ n - y \in Nat
    OBVIOUS
  <2> QED BY <2>2, <2>3
<1>2. IsWellFoundedOn(R, Nat)
  BY NatLessThanWellFounded DEF OpToRel, R
<1> HIDE DEF T
<1>3. PICK d \in T : \A y \in T : ~(<<y, d>> \in R)
  BY <1>1, <1>2, WFMin
<1>4. PICK x \in S : d = n - x
  BY <1>3 DEF T
<1>5. \A y \in S : y <= x
  <2> SUFFICES ASSUME NEW y \in S PROVE y <= x
    OBVIOUS
  <2>1. n - y \in T
    BY DEF T
  <2>2. ~(n - y < d) /\ d \in Nat
    BY <1>1, <1>3, <2>1 DEF R
  <2> QED BY <1>4, <2>2
<1>6. \E z \in S : \A y \in S : z >= y
  BY <1>5
<1> DEFINE m == Max(S)
<1>7. m \in S /\ \A y \in S : m >= y
  BY <1>6 DEF Max
<1> HIDE DEF m
<1> QED BY <1>7 DEF m

\* The newest row of an entity.
LEMMA NewestRow ==
    ASSUME NEW n \in Nat, NEW j, DOMAIN j \subseteq 1 .. n, NEW e, NEW s \in RowsOf(j, e)
    PROVE  /\ Max(RowsOf(j, e)) \in RowsOf(j, e) /\ s <= Max(RowsOf(j, e))
           /\ (\A t \in RowsOf(j, e) : t <= s) => Max(RowsOf(j, e)) = s
<1>1. RowsOf(j, e) \subseteq 0 .. n /\ RowsOf(j, e) # {}
  BY DEF RowsOf
<1>2. Max(RowsOf(j, e)) \in RowsOf(j, e) /\ \A t \in RowsOf(j, e) : t <= Max(RowsOf(j, e))
  BY <1>1, MaxOf
<1> QED BY <1>1, <1>2

\* A step after which the newest write is not read is the clear of a delete, or
\* finds it unread and adds nothing.
LEMMA ReadStep ==
    ASSUME OverlayInv, Modes = {"optimistic"}, [Next]_vars, NEW e \in Entities, ~Reads(e)'
    PROVE  \/ DeleteCleared(e)
           \/ ~Reads(e) /\ RowsOf(journal', e) \subseteq RowsOf(journal, e)
<1>0. /\ Resolved /\ issued \in Nat /\ DOMAIN journal \subseteq 1 .. issued
      /\ \A s \in DOMAIN journal : journal[s].mode # "blind"
      /\ overlay = [f \in Entities |-> overlay[f]]
  BY DEF OverlayInv, ServerInv, OrderInv, Shape, IsRow
<1>1. OverlayInv'
  BY OverlayStep
<1>2. issued' \in Nat /\ DOMAIN journal' \subseteq 1 .. issued'
  BY <1>1 DEF OverlayInv, ServerInv, OrderInv, Shape
<1>3. PICK s \in RowsOf(journal', e) : s = Max(RowsOf(journal', e))
  <2>1. RowsOf(journal', e) # {}
    BY DEF Reads, OwesNewest
  <2> QED BY <1>2, <2>1, NewestRow
<1>4. /\ s \in DOMAIN journal' /\ journal'[s].ent = e
      /\ \A t \in RowsOf(journal', e) : t <= s
  BY <1>2, <1>3, NewestRow DEF RowsOf
<1>5. /\ journal'[s].status \in Owed
      /\ ~ IF journal'[s].kind = "delete" THEN overlay'[e].kind = "pending_delete"
           ELSE overlay'[e].kind \in {"pending_create", "pending_update"} /\ overlay'[e].val = s
  BY <1>3 DEF Reads, OwesNewest, Newest
\* What is left to show when the overlay stays and s was the newest write.
<1>6. ASSUME overlay'[e] = overlay[e], s \in RowsOf(journal, e), \A t \in RowsOf(journal, e) : t <= s,
             journal[s].status \in Owed, journal[s].kind = journal'[s].kind
      PROVE  ~Reads(e)
  <2>1. Newest(e) = s /\ RowsOf(journal, e) # {}
    <3>1. (\A t \in RowsOf(journal, e) : t <= s) => Max(RowsOf(journal, e)) = s
      BY <1>0, <1>6, NewestRow
    <3>2. Max(RowsOf(journal, e)) = s
      BY <1>6, <3>1
    <3>3. RowsOf(journal, e) # {}
      BY <1>6
    <3> QED BY <3>2, <3>3 DEF Newest
  <2>2. journal[s].mode # "blind"
    BY <1>0, <1>6 DEF RowsOf
  <2> QED BY <1>5, <1>6, <2>1, <2>2 DEF Reads, OwesNewest
<1>7. CASE ClearsOverlay
  <2>1. /\ DOMAIN journal' \subseteq DOMAIN journal
        /\ \A t \in DOMAIN journal' : journal'[t] = journal[t]
        /\ \A t \in DOMAIN journal \ DOMAIN journal' : journal[t].status \notin Owed
    BY <1>7 DEF ClearsOverlay, Clears
  <2>2. s \in RowsOf(journal, e) /\ journal'[s] = journal[s] /\ s \in Nat
    BY <1>0, <1>4, <2>1 DEF RowsOf
  <2>3. ASSUME NEW t \in RowsOf(journal, e) PROVE t <= s
    <3> SUFFICES ASSUME ~(t <= s) PROVE FALSE
      OBVIOUS
    <3>1. t \in DOMAIN journal /\ journal[t].ent = e /\ t \in Nat /\ s < t
      BY <1>0, <2>2 DEF RowsOf
    <3>2. t \notin DOMAIN journal'
      BY <1>4, <2>1, <3>1 DEF RowsOf
    <3>3. PastOwed(t)
      BY <1>0, <2>1, <3>1, <3>2 DEF Resolved
    <3> QED BY <1>5, <2>2, <3>1, <3>3 DEF PastOwed, RowsOf
  <2>4. RowsOf(journal', e) \subseteq RowsOf(journal, e)
    BY <2>1 DEF RowsOf
  <2>5. CASE overlay'[e] = overlay[e]
    BY <1>5, <1>6, <2>2, <2>3, <2>4, <2>5
  <2>6. CASE overlay'[e] # overlay[e]
    BY <1>4, <1>5, <1>7, <2>2, <2>6 DEF ClearsOverlay, RowsOf
  <2> QED BY <2>5, <2>6
<1>8. CASE Restates
  <2>1. /\ overlay' = overlay /\ RowsOf(journal', e) = RowsOf(journal, e)
        /\ s \in RowsOf(journal, e) /\ journal[s].kind = journal'[s].kind /\ journal[s].status \in Owed
    BY <1>4, <1>5, <1>8 DEF Restates, RowsOf
  <2> QED BY <1>4, <1>6, <2>1
<1>9. ASSUME NEW f \in Entities, NEW k \in WriteKinds, NEW m \in Modes, Enqueue(f, k, m)
      PROVE  ~Reads(e) /\ RowsOf(journal', e) \subseteq RowsOf(journal, e)
  <2> DEFINE n == issued + 1
  <2>1. /\ DOMAIN journal' = DOMAIN journal \cup {n}
        /\ \A t \in DOMAIN journal : journal'[t] = journal[t] /\ t < n
    BY <1>0, <1>9 DEF Enqueue
  <2>2. journal'[n].ent = f /\ journal'[n].kind = k
    BY <1>9 DEF Enqueue
  <2>3. k \in Kinds /\ m = "optimistic"
    BY KindsAssumption DEF Kinds
  <2>4. /\ overlay'[f] = OverlayFor(f, k, m, n)
        /\ \A i \in Entities : i # f => overlay'[i] = overlay[i]
    <3> HIDE DEF n
    <3>1. overlay' = [overlay EXCEPT ![f] = OverlayFor(f, k, m, n)]
      BY <1>9 DEF Enqueue, n
    <3> QED BY <1>0, <3>1
  <2>5. IF k = "delete" THEN OverlayFor(f, k, m, n).kind = "pending_delete"
        ELSE /\ OverlayFor(f, k, m, n).kind \in {"pending_create", "pending_update"}
             /\ OverlayFor(f, k, m, n).val = n
    BY <2>3 DEF OverlayFor, Kinds
  <2> HIDE DEF n
  <2>6. f # e
    <3> SUFFICES ASSUME f = e PROVE FALSE
      OBVIOUS
    <3>1. n \in RowsOf(journal', e) /\ n \in Nat
      BY <1>0, <2>1, <2>2 DEF RowsOf, n
    <3>2. s = n
      BY <1>0, <1>4, <2>1, <3>1
    <3> QED BY <1>5, <2>2, <2>4, <2>5, <3>2
  <2>7. s # n /\ s \in RowsOf(journal, e) /\ journal'[s] = journal[s]
    BY <1>4, <2>1, <2>2, <2>6 DEF RowsOf
  <2>8. RowsOf(journal', e) = RowsOf(journal, e)
    BY <2>1, <2>2, <2>6 DEF RowsOf
  <2> QED BY <1>4, <1>5, <1>6, <2>4, <2>6, <2>7, <2>8
<1> QED BY <1>7, <1>8, <1>9, OverlayKinds

(***************************************************************************)
(* On such a table a client reads each of its writes at once and as long   *)
(* as it is owed: no echo, reconcile, discard, crash, refusal or failed    *)
(* request shows an older value, the clear of an acked delete excepted     *)
(* (MutationJournalDeletedReads.cfg shows that one).                       *)
(***************************************************************************)
THEOREM ReadTheorem == ASSUME Modes = {"optimistic"} PROVE Spec => ReadYourWrites
<1> DEFINE Kept == \A e \in Entities :
             ~Reads(e)' => \/ DeleteCleared(e)
                           \/ ~Reads(e) /\ RowsOf(journal', e) \subseteq RowsOf(journal, e)
<1>1. OverlayInv /\ [Next]_vars => OverlayInv'
  BY OverlayStep
<1>2. OverlayInv /\ [Next]_vars => Kept
  BY ReadStep
<1> QED BY <1>1, <1>2, OverlayInit, PTL DEF Spec, ReadYourWrites

-----------------------------------------------------------------------------
(***************************************************************************)
(* The versions the chain rule rests on: the feed of an entity leads from  *)
(* the synced row to the server's, every version later than the one        *)
(* before, and what the client knows of versions never runs ahead of it.   *)
(***************************************************************************)
VRow == [ver : Nat, val : Nat]

\* A feed from synced version y to server version v, none later than c.
Leads(f, y, v, c) ==
    /\ f \in Seq(VRow) /\ y \in 0 .. c /\ v \in 0 .. c
    /\ \A i \in 1 .. Len(f) : f[i].ver <= c /\ (f[i].ver = 0 \/ f[i].ver > y)
    /\ \A i \in 1 .. Len(f) : \A j \in 1 .. Len(f) : i < j => f[j].ver = 0 \/ f[j].ver > f[i].ver
    /\ Len(f) = 0 => y = v
    /\ Len(f) > 0 => f[Len(f)].ver = v

FeedInv ==
    /\ clock \in Nat
    /\ server \in [Entities -> VRow] /\ synced \in [Entities -> VRow]
    /\ feed = [e \in Entities |-> feed[e]]
    /\ \A e \in Entities : Leads(feed[e], synced[e].ver, server[e].ver, clock)

\* A row committed later than everything in the feed.
LEMMA AppendLeads ==
    ASSUME NEW f, NEW y, NEW v, NEW c \in Nat, NEW r \in VRow, Leads(f, y, v, c),
           r.ver \in {0, c + 1}
    PROVE  Leads(Append(f, r), y, r.ver, c + 1)
<1>1. /\ f \in Seq(VRow) /\ Len(f) \in Nat /\ Append(f, r) \in Seq(VRow)
      /\ Len(Append(f, r)) = Len(f) + 1 /\ Append(f, r)[Len(f) + 1] = r
      /\ \A i \in 1 .. Len(f) : Append(f, r)[i] = f[i] /\ f[i] \in VRow
  BY DEF Leads
<1>2. r.ver \in Nat /\ \A i \in 1 .. Len(f) : f[i].ver \in Nat
  BY <1>1 DEF VRow
<1> DEFINE g == Append(f, r)
<1>3. /\ g \in Seq(VRow) /\ Len(g) = Len(f) + 1 /\ g[Len(g)] = r
      /\ \A i \in 1 .. Len(g) : i = Len(g) \/ (i \in 1 .. Len(f) /\ g[i] = f[i])
  BY <1>1
<1> HIDE DEF g
<1>4. \A i \in 1 .. Len(g) : g[i].ver <= c + 1 /\ (g[i].ver = 0 \/ g[i].ver > y)
  BY <1>2, <1>3 DEF Leads
<1>5. \A i \in 1 .. Len(g) : \A j \in 1 .. Len(g) : i < j => g[j].ver = 0 \/ g[j].ver > g[i].ver
  BY <1>1, <1>2, <1>3 DEF Leads
<1>6. y \in 0 .. c + 1 /\ r.ver \in 0 .. c + 1 /\ Len(g) > 0 /\ g[Len(g)].ver = r.ver
  BY <1>1, <1>2, <1>3 DEF Leads
<1> QED BY <1>3, <1>4, <1>5, <1>6 DEF Leads, g

\* A time passes that the feed does not see.
LEMMA LaterLeads ==
    ASSUME NEW f, NEW y, NEW v, NEW c \in Nat, Leads(f, y, v, c)
    PROVE  Leads(f, y, v, c + 1)
<1>1. Len(f) \in Nat /\ \A i \in 1 .. Len(f) : f[i] \in VRow
  BY DEF Leads
<1>2. \A i \in 1 .. Len(f) : f[i].ver \in Nat
  BY <1>1 DEF VRow
<1> QED BY <1>1, <1>2 DEF Leads

\* A run of the feed is applied.
LEMMA CutLeads ==
    ASSUME NEW f, NEW y, NEW v, NEW c \in Nat, Leads(f, y, v, c), NEW n \in 1 .. Len(f)
    PROVE  /\ Leads(SubSeq(f, n + 1, Len(f)), f[n].ver, v, c)
           /\ SubSeq(f, 1, n)[n] = f[n] /\ f[n] \in VRow
<1>1. /\ f \in Seq(VRow) /\ Len(f) \in Nat /\ n \in Nat /\ n <= Len(f) /\ f[n] \in VRow
      /\ \A i \in 1 .. Len(f) : f[i] \in VRow
  BY DEF Leads
<1>2. \A i \in 1 .. Len(f) : f[i].ver \in Nat
  BY <1>1 DEF VRow
<1> DEFINE g == SubSeq(f, n + 1, Len(f))
<1>3. /\ g \in Seq(VRow) /\ Len(g) = Len(f) - n
      /\ \A i \in 1 .. Len(g) : n + i \in 1 .. Len(f) /\ g[i] = f[n + i]
  BY <1>1
<1> HIDE DEF g
<1>4. ASSUME NEW i \in 1 .. Len(g)
      PROVE  g[i].ver <= c /\ (g[i].ver = 0 \/ g[i].ver > f[n].ver)
  <2>1. n + i \in 1 .. Len(f) /\ n < n + i /\ g[i] = f[n + i]
    BY <1>1, <1>3
  <2> QED BY <2>1 DEF Leads
<1>5. \A i \in 1 .. Len(g) : \A j \in 1 .. Len(g) : i < j => g[j].ver = 0 \/ g[j].ver > g[i].ver
  <2> SUFFICES ASSUME NEW i \in 1 .. Len(g), NEW j \in 1 .. Len(g), i < j
               PROVE  g[j].ver = 0 \/ g[j].ver > g[i].ver
    OBVIOUS
  <2>1. n + i \in 1 .. Len(f) /\ n + j \in 1 .. Len(f) /\ n + i < n + j
    BY <1>1, <1>3
  <2> QED BY <1>3, <2>1 DEF Leads
<1>6. f[n].ver \in 0 .. c /\ v \in 0 .. c
  BY <1>1, <1>2 DEF Leads
<1>7. Len(g) = 0 => f[n].ver = v
  BY <1>1, <1>3 DEF Leads
<1>8. Len(g) > 0 => g[Len(g)].ver = v
  <2> SUFFICES ASSUME Len(g) > 0 PROVE g[Len(g)].ver = v
    OBVIOUS
  <2>1. Len(g) \in 1 .. Len(g) /\ n + Len(g) = Len(f)
    BY <1>1, <1>3
  <2>2. g[Len(g)] = f[Len(f)]
    BY <1>3, <2>1
  <2> QED BY <1>1, <2>2 DEF Leads
<1>9. SubSeq(f, 1, n)[n] = f[n]
  BY <1>1
<1>10. Leads(g, f[n].ver, v, c)
  BY <1>3, <1>4, <1>5, <1>6, <1>7, <1>8 DEF Leads
<1> QED BY <1>1, <1>9, <1>10 DEF g

\* The synced row is never later than a server row that is there, and if an
\* applied run ends at the server's version the feed has run out.
LEMMA LeadsBound ==
    ASSUME NEW f, NEW y, NEW v, NEW c \in Nat, Leads(f, y, v, c), v > 0
    PROVE  /\ y <= v
           /\ y = v => Len(f) = 0
           /\ \A i \in 1 .. Len(f) : f[i].ver <= v
<1>0. Len(f) \in Nat /\ y \in Nat /\ v \in Nat /\ \A i \in 1 .. Len(f) : f[i] \in VRow
  BY DEF Leads
<1>1. Len(f) \in Nat /\ y \in Nat /\ v \in Nat /\ \A i \in 1 .. Len(f) : f[i].ver \in Nat
  BY <1>0 DEF VRow
<1>2. CASE Len(f) = 0
  BY <1>1, <1>2 DEF Leads
<1>3. CASE Len(f) > 0
  <2>1. Len(f) \in 1 .. Len(f) /\ f[Len(f)].ver = v
    BY <1>1, <1>3 DEF Leads
  <2>2. v > y
    BY <2>1 DEF Leads
  <2>3. \A i \in 1 .. Len(f) : f[i].ver <= v
    BY <1>1, <2>1 DEF Leads
  <2> QED BY <1>1, <1>3, <2>2, <2>3
<1> QED BY <1>1, <1>2, <1>3

\* The answer a to mutation s on row cur, at version v, and the row it leaves.
Answered(a, cur, kind, base, s, v) ==
    /\ a.row \in VRow /\ a.who = cur.val
    /\ a.st # "acked" => a.row = cur
    /\ a.ver = 0 \/ a.ver = v \/ (a.st = "conflicted" /\ a.ver = cur.ver)
    /\ a.st = "acked" /\ a.ver > 0 =>
         kind # "delete" /\ a.ver = v /\ a.row.ver = v /\ a.row.val = s
    /\ a.row = cur \/ (/\ a.row.val = s
                       /\ a.row.ver = 0 \/ (/\ a.row.ver = v /\ a.ver = v
                                            /\ a.st = "acked" /\ kind # "delete"))
    /\ a.st = "conflicted" /\ a.ver > 0 => base > 0 /\ cur.ver > base

LEMMA ApplyAnswers ==
    ASSUME NEW cur \in VRow, NEW kind \in Kinds, NEW base, NEW s \in Nat, NEW v \in Nat, v > cur.ver
    PROVE  Answered(Apply(cur, kind, base, s, v), cur, kind, base, s, v)
<1>1. cur.ver \in Nat /\ (cur.ver = 0 \/ cur.ver > 0)
  BY DEF VRow
<1>2. [ver |-> v, val |-> s] \in VRow /\ [ver |-> 0, val |-> s] \in VRow
  BY DEF VRow
<1>3. CASE kind = "create"
  BY <1>1, <1>2, <1>3 DEF Apply, Ack, Answered
<1>4. CASE kind = "update"
  <2>1. CASE Stale(cur, base)
    <3>1. base > 0 /\ cur.ver > base
      BY <2>1 DEF Stale
    <3> QED BY <1>1, <1>4, <2>1, <3>1 DEF Apply, Ack, Answered
  <2>2. CASE ~Stale(cur, base)
    BY <1>1, <1>2, <1>4, <2>2 DEF Apply, Ack, Answered
  <2> QED BY <2>1, <2>2
<1>5. CASE kind = "delete"
  <2>1. CASE Stale(cur, base)
    <3>1. base > 0 /\ cur.ver > base
      BY <2>1 DEF Stale
    <3> QED BY <1>1, <1>5, <2>1, <3>1 DEF Apply, Ack, Answered
  <2>2. CASE ~Stale(cur, base)
    BY <1>1, <1>2, <1>5, <2>2 DEF Apply, Ack, Answered
  <2> QED BY <2>1, <2>2
<1> QED BY <1>3, <1>4, <1>5 DEF Kinds

\* A request that is applied: each of its mutations is answered, and each of
\* their rows is the one its mutation left.
Applied(l) ==
    /\ Reply(l, [kind |-> "acks", acks |-> [s \in DOMAIN lane[l].batch |-> Answer(l, s)]])
    /\ clock' = clock + 1
    /\ \A s \in DOMAIN lane[l].batch : server'[journal[s].ent] = Answer(l, s).row
    /\ \A e \in Entities :
         /\ (\A s \in DOMAIN lane[l].batch : journal[s].ent # e) => server'[e] = server[e]
         /\ feed'[e] = IF server'[e].ver # server[e].ver THEN Append(feed[e], server'[e]) ELSE feed[e]
    /\ server' = [e \in Entities |-> server'[e]] /\ feed' = [e \in Entities |-> feed'[e]]

\* What is known of a row on the wire.
LEMMA OnTheWire ==
    ASSUME ServerInv, Modes = {"optimistic"}, NEW l \in Lanes, NEW s \in DOMAIN lane[l].batch
    PROVE  /\ l = "batch" /\ s \in DOMAIN journal /\ s \in Nat /\ First(s)
           /\ journal[s].ent \in Entities /\ journal[s].kind \in Kinds
           /\ journal[s].status \in Unresolved
           /\ lane[l].pc # "read" => journal[s].status = "sending"
<1>1. LaneRow(l, s) /\ s \in DOMAIN journal /\ s \in 1 .. issued
  BY DEF ServerInv, OrderInv, LaneRows, LaneRow, Shape
<1>2. IsRow(journal[s])
  BY <1>1 DEF ServerInv, OrderInv, Shape
<1>3. l = "batch"
  BY <1>1, <1>2 DEF LaneRow, IsRow
<1>4. First(s)
  BY <1>3 DEF ServerInv, OrderInv, BatchFirst
<1>5. journal[s].status \in Unresolved
  BY <1>1 DEF LaneRow, Unresolved
<1> QED BY <1>1, <1>2, <1>3, <1>4, <1>5 DEF LaneRow, IsRow

\* No two mutations of a request are about the same row.
LEMMA OnePerEntity ==
    ASSUME ServerInv, Modes = {"optimistic"}, NEW l \in Lanes,
           NEW s \in DOMAIN lane[l].batch, NEW t \in DOMAIN lane[l].batch,
           journal[s].ent = journal[t].ent
    PROVE  s = t
<1>1. /\ s \in DOMAIN journal /\ s \in Nat /\ First(s) /\ journal[s].status \in Unresolved
      /\ t \in DOMAIN journal /\ t \in Nat /\ First(t) /\ journal[t].status \in Unresolved
  BY OnTheWire
<1>2. ~(s < t) /\ ~(t < s)
  BY <1>1 DEF First
<1> QED BY <1>1, <1>2

LEMMA ServerApplies ==
    ASSUME ServerInv, Modes = {"optimistic"}, NEW l \in Lanes, ServerApply(l)
    PROVE  \/ UNCHANGED remote /\ \E r : r.kind # "acks" /\ Reply(l, r)
           \/ Applied(l)
<1> DEFINE batch == lane[l].batch
           req == Request(l)
           acks == Answers(req)
           changed == {s \in DOMAIN req : acks[s].row # server[req[s].ent]}
           picked(e) == CHOOSE s \in changed : req[s].ent = e
           new(e) == IF \E s \in changed : req[s].ent = e THEN acks[picked(e)].row ELSE server[e]
           fed(e) == IF server'[e].ver # server[e].ver THEN Append(feed[e], server'[e]) ELSE feed[e]
<1>0. /\ DOMAIN req = DOMAIN batch
      /\ acks = [s \in DOMAIN batch |-> Answer(l, s)]
      /\ \A s \in DOMAIN batch : acks[s] = Answer(l, s)
      /\ \A s \in DOMAIN batch : req[s].ent = journal[s].ent /\ journal[s].ent \in Entities
  BY RequestRows, OnTheWire
<1>1. CASE UNCHANGED remote /\ Reply(l, IF l = "unit" THEN [kind |-> "rejected"] ELSE [kind |-> "failed"])
  <2>1. (IF l = "unit" THEN [kind |-> "rejected"] ELSE [kind |-> "failed"]).kind # "acks"
    OBVIOUS
  <2> QED BY <1>1, <2>1
<1>2. CASE Reply(l, [kind |-> "acks", acks |-> acks]) /\ Commit(req)
  <2>0. /\ clock' = clock + 1
        /\ server' = [e \in Entities |-> new(e)]
        /\ feed' = [e \in Entities |-> fed(e)]
    BY <1>2 DEF Commit
  <2>1. \A s \in DOMAIN batch : \A r \in DOMAIN batch : req[s].ent = req[r].ent => s = r
    BY <1>0, OnePerEntity
  <2>2. ASSUME NEW s \in DOMAIN batch
        PROVE  server'[journal[s].ent] = acks[s].row
    <3>1. server'[req[s].ent] = new(req[s].ent)
      <4> HIDE DEF new, req
      <4> QED BY <1>0, <2>0
    <3>2. CASE s \in changed
      <4>1. picked(req[s].ent) \in changed /\ req[picked(req[s].ent)].ent = req[s].ent
        BY <3>2
      <4> HIDE DEF picked, acks, req
      <4>2. picked(req[s].ent) = s
        BY <1>0, <2>1, <4>1
      <4>3. \E r \in changed : req[r].ent = req[s].ent
        BY <3>2
      <4> QED BY <1>0, <3>1, <4>2, <4>3
    <3>3. CASE s \notin changed
      <4> HIDE DEF acks, picked, req
      <4>1. \A r \in changed : req[r].ent # req[s].ent
        BY <1>0, <2>1, <3>3
      <4> QED BY <1>0, <3>1, <3>3, <4>1
    <3> QED BY <3>2, <3>3
  <2>3. ASSUME NEW e \in Entities, \A s \in DOMAIN batch : journal[s].ent # e
        PROVE  server'[e] = server[e]
    <3> HIDE DEF acks, picked, req
    <3>1. ~ \E s \in changed : req[s].ent = e
      BY <1>0, <2>3
    <3> QED BY <2>0, <3>1
  <2>4. server' = [e \in Entities |-> server'[e]] /\ feed' = [e \in Entities |-> feed'[e]]
        /\ \A e \in Entities : feed'[e] = fed(e)
    <3> HIDE DEF new, fed
    <3> QED BY <2>0
  <2>5. \A s \in DOMAIN batch : server'[journal[s].ent] = Answer(l, s).row
    BY <1>0, <2>2
  <2>6. clock' = clock + 1
    BY <1>2 DEF Commit
  <2>7. Reply(l, [kind |-> "acks", acks |-> [s \in DOMAIN lane[l].batch |-> Answer(l, s)]])
    <3> HIDE DEF acks
    <3> QED BY <1>0, <1>2
  <2>8. \A e \in Entities :
          feed'[e] = IF server'[e].ver # server[e].ver THEN Append(feed[e], server'[e]) ELSE feed[e]
    BY <2>4
  <2> HIDE DEF acks, changed, picked, new, fed, req
  <2> QED BY <2>3, <2>4, <2>5, <2>6, <2>7, <2>8 DEF Applied
<1> HIDE DEF acks
<1> QED BY <1>0, <1>1, <1>2, ServerApplyForm

\* Applying a run of the feed.
LEMMA EchoFeed ==
    ASSUME FeedInv, NEW e \in Entities, Echo(e)
    PROVE  /\ FeedInv' /\ UNCHANGED <<server, clock>>
           /\ \A f \in Entities : f # e => synced'[f] = synced[f]
           /\ Len(feed[e]) > 0
           /\ \E i \in 1 .. Len(feed[e]) : synced'[e] = feed[e][i]
<1>1. PICK n \in 1 .. Len(feed[e]) :
        /\ synced' = [synced EXCEPT ![e] = SubSeq(feed[e], 1, n)[n]]
        /\ feed' = [feed EXCEPT ![e] = SubSeq(@, n + 1, Len(@))]
        /\ UNCHANGED <<server, clock>>
  BY DEF Echo
<1>2. /\ clock \in Nat /\ Leads(feed[e], synced[e].ver, server[e].ver, clock)
      /\ server \in [Entities -> VRow] /\ synced \in [Entities -> VRow]
      /\ feed = [f \in Entities |-> feed[f]]
  BY DEF FeedInv
<1>3. /\ Leads(SubSeq(feed[e], n + 1, Len(feed[e])), feed[e][n].ver, server[e].ver, clock)
      /\ SubSeq(feed[e], 1, n)[n] = feed[e][n] /\ feed[e][n] \in VRow
  BY <1>2, CutLeads
<1>4. synced' = [synced EXCEPT ![e] = feed[e][n]] /\ synced' \in [Entities -> VRow]
      /\ synced'[e] = feed[e][n] /\ \A f \in Entities : f # e => synced'[f] = synced[f]
  BY <1>1, <1>2, <1>3
<1>5. /\ feed'[e] = SubSeq(feed[e], n + 1, Len(feed[e]))
      /\ \A f \in Entities : f # e => feed'[f] = feed[f]
      /\ feed' = [f \in Entities |-> feed'[f]]
  BY <1>1, <1>2
<1>6. \A f \in Entities : Leads(feed'[f], synced'[f].ver, server'[f].ver, clock')
  <2> SUFFICES ASSUME NEW f \in Entities PROVE Leads(feed'[f], synced'[f].ver, server'[f].ver, clock')
    OBVIOUS
  <2>1. CASE f = e
    BY <1>1, <1>3, <1>4, <1>5, <2>1
  <2>2. CASE f # e
    BY <1>1, <1>4, <1>5, <2>2 DEF FeedInv
  <2> QED BY <2>1, <2>2
<1>7. Len(feed[e]) > 0
  <2>1. Len(feed[e]) \in Nat
    BY <1>2 DEF Leads
  <2> QED BY <2>1
<1> QED BY <1>1, <1>2, <1>4, <1>5, <1>6, <1>7 DEF FeedInv

\* The rows a request or another actor leaves come after all the others.
LEMMA CommitFeed ==
    ASSUME FeedInv, clock' = clock + 1, UNCHANGED synced,
           server' = [e \in Entities |-> server'[e]], feed' = [e \in Entities |-> feed'[e]],
           \A e \in Entities :
             \/ server'[e] = server[e] /\ feed'[e] = feed[e]
             \/ /\ server'[e] \in VRow /\ server'[e].ver \in {0, clock + 1}
                /\ \/ feed'[e] = Append(feed[e], server'[e])
                   \/ server'[e].ver = server[e].ver /\ feed'[e] = feed[e]
    PROVE  FeedInv'
<1>1. clock \in Nat /\ clock' \in Nat /\ server \in [Entities -> VRow]
  BY DEF FeedInv
<1>2. ASSUME NEW e \in Entities
      PROVE  server'[e] \in VRow /\ Leads(feed'[e], synced'[e].ver, server'[e].ver, clock')
  <2>1. Leads(feed[e], synced[e].ver, server[e].ver, clock) /\ server[e] \in VRow
    BY DEF FeedInv
  <2>2. Leads(feed[e], synced[e].ver, server[e].ver, clock')
    BY <1>1, <2>1, LaterLeads
  <2>3. CASE server'[e] = server[e] /\ feed'[e] = feed[e]
    BY <2>1, <2>2, <2>3
  <2>4. CASE /\ server'[e] \in VRow /\ server'[e].ver \in {0, clock + 1}
             /\ feed'[e] = Append(feed[e], server'[e])
    <3>1. Leads(Append(feed[e], server'[e]), synced[e].ver, server'[e].ver, clock + 1)
      BY <1>1, <2>1, <2>4, AppendLeads
    <3> QED BY <2>4, <3>1
  <2>5. CASE server'[e] \in VRow /\ server'[e].ver = server[e].ver /\ feed'[e] = feed[e]
    BY <2>2, <2>5
  <2> QED BY <2>3, <2>4, <2>5
<1>3. server' \in [Entities -> VRow]
  BY <1>2
<1> QED BY <1>1, <1>2, <1>3 DEF FeedInv

LEMMA AppliedRows ==
    ASSUME ServerInv, FeedInv, Modes = {"optimistic"}, NEW l \in Lanes, Applied(l),
           NEW s \in DOMAIN lane[l].batch
    PROVE  LET cur == server[journal[s].ent]
           IN  /\ cur \in VRow /\ server'[journal[s].ent] = Answer(l, s).row
               /\ Answered(Answer(l, s), cur, journal[s].kind, lane[l].batch[s], s, clock + 1)
<1>1. s \in Nat /\ journal[s].ent \in Entities /\ journal[s].kind \in Kinds
  BY OnTheWire
<1>2. /\ server[journal[s].ent] \in VRow /\ clock + 1 \in Nat
      /\ Leads(feed[journal[s].ent], synced[journal[s].ent].ver, server[journal[s].ent].ver, clock)
  BY <1>1 DEF FeedInv
<1>3. clock + 1 > server[journal[s].ent].ver
  BY <1>2 DEF Leads, FeedInv
<1>4. server'[journal[s].ent] = Answer(l, s).row
  BY DEF Applied
<1> QED BY <1>1, <1>2, <1>3, <1>4, ApplyAnswers DEF Answer

LEMMA RequestFeed ==
    ASSUME ServerShape, FeedInv, issued \in Nat, NEW req, IsRequest(req), Commit(req), UNCHANGED synced
    PROVE  FeedInv'
<1> DEFINE fed(e) == IF server'[e].ver # server[e].ver THEN Append(feed[e], server'[e]) ELSE feed[e]
<1>1. feed' = [e \in Entities |-> fed(e)]
  BY DEF Commit
<1>2. feed' = [e \in Entities |-> feed'[e]] /\ \A e \in Entities : feed'[e] = fed(e)
  <2> HIDE DEF fed
  <2> QED BY <1>1
<1>3. clock' = clock + 1 /\ server' = [e \in Entities |-> server'[e]] /\ clock \in Nat
  BY CommitRows DEF FeedInv
<1>4. ASSUME NEW e \in Entities
      PROVE  \/ server'[e] = server[e] /\ feed'[e] = feed[e]
             \/ /\ server'[e] \in VRow /\ server'[e].ver \in {0, clock + 1}
                /\ \/ feed'[e] = Append(feed[e], server'[e])
                   \/ server'[e].ver = server[e].ver /\ feed'[e] = feed[e]
  <2>1. CASE server'[e] = server[e]
    BY <1>2, <2>1
  <2>2. CASE server'[e] # server[e]
    <3>1. PICK s \in DOMAIN req :
            /\ server'[e] = Apply(server[e], req[s].kind, req[s].base, s, clock + 1).row
            /\ server'[e].ver \in {0, clock + 1}
      BY <2>2, CommitRows
    <3>2. /\ server[e] \in VRow /\ s \in Nat /\ req[s].kind \in Kinds /\ clock + 1 \in Nat
          /\ Leads(feed[e], synced[e].ver, server[e].ver, clock)
      BY <1>3 DEF FeedInv, IsRequest
    <3>3. clock + 1 > server[e].ver
      BY <1>3, <3>2 DEF Leads
    <3> DEFINE a == Apply(server[e], req[s].kind, req[s].base, s, clock + 1)
    <3>4. Answered(a, server[e], req[s].kind, req[s].base, s, clock + 1)
      BY <3>2, <3>3, ApplyAnswers
    <3> HIDE DEF a
    <3>5. a.row \in VRow
      BY <3>4 DEF Answered
    <3>6. server'[e] = a.row /\ server'[e].ver \in {0, clock + 1}
      BY <3>1 DEF a
    <3> QED BY <1>2, <3>5, <3>6
  <2> QED BY <2>1, <2>2
<1> HIDE DEF fed
<1> QED BY <1>2, <1>3, <1>4, CommitFeed

LEMMA FeedStep ==
    ASSUME ServerInv, FeedInv, Modes = {"optimistic"}, [Next]_vars
    PROVE  FeedInv'
<1>0. OrderInv /\ ServerShape /\ OrphanRows /\ issued \in Nat
  BY DEF ServerInv, OrderInv, Shape
<1>1. ASSUME UNCHANGED <<server, clock, synced, feed>> PROVE FeedInv'
  BY <1>1 DEF FeedInv
<1>2. ASSUME NEW e \in Entities, Echo(e) PROVE FeedInv'
  BY <1>2, EchoFeed
<1>3. ASSUME NEW l \in Lanes, ServerApply(l) PROVE FeedInv'
  <2>1. UNCHANGED synced /\ lane[l].pc = "sent" /\ (UNCHANGED remote \/ Commit(Request(l)))
    BY <1>3, ServerApplyForm DEF ServerApply
  <2>2. CASE UNCHANGED remote
    BY <1>1, <2>1, <2>2 DEF remote
  <2>3. CASE Commit(Request(l))
    <3>1. IsRequest(Request(l))
      BY <1>0, <2>1, SentRows
    <3> QED BY <1>0, <2>1, <2>3, <3>1, RequestFeed
  <2> QED BY <2>1, <2>2, <2>3
<1>13. ASSUME LateApply PROVE FeedInv'
  <2>1. PICK req \in orphans : UNCHANGED synced /\ (UNCHANGED remote \/ Commit(req.rows))
    BY <1>13 DEF LateApply
  <2>2. CASE UNCHANGED remote
    BY <1>1, <2>1, <2>2 DEF remote
  <2>3. CASE Commit(req.rows)
    BY <1>0, <2>1, <2>3, RequestFeed DEF OrphanRows
  <2> QED BY <2>1, <2>2, <2>3
<1>4. ASSUME NEW e \in Entities, NEW k \in ForeignKinds, ForeignWrite(e, k) PROVE FeedInv'
  <2>1. /\ UNCHANGED synced /\ clock' = clock + 1
        /\ server' = [server EXCEPT ![e] = [ver |-> IF k = "delete" THEN 0 ELSE clock + 1, val |-> Foreign]]
        /\ feed' = [feed EXCEPT ![e] = Append(@, server'[e])]
    BY <1>4 DEF ForeignWrite
  <2>2. /\ server \in [Entities -> VRow] /\ feed = [f \in Entities |-> feed[f]] /\ clock \in Nat
    BY DEF FeedInv
  <2>3. PICK r \in VRow : r.ver \in {0, clock + 1} /\ server' = [server EXCEPT ![e] = r]
    <3> DEFINE r == [ver |-> IF k = "delete" THEN 0 ELSE clock + 1, val |-> Foreign]
    <3>1. r \in VRow /\ r.ver \in {0, clock + 1}
      BY <2>2 DEF VRow, Foreign
    <3> QED BY <2>1, <3>1
  <2>4. /\ server'[e] = r /\ \A f \in Entities : f # e => server'[f] = server[f]
        /\ server' = [f \in Entities |-> server'[f]]
    BY <2>2, <2>3
  <2>5. /\ feed'[e] = Append(feed[e], server'[e]) /\ \A f \in Entities : f # e => feed'[f] = feed[f]
        /\ feed' = [f \in Entities |-> feed'[f]]
    BY <2>1, <2>2
  <2> QED BY <2>1, <2>3, <2>4, <2>5, CommitFeed
<1>5. CASE Reconcile \/ \E l \in Lanes : FinishFlush(l)
  BY <1>1, <1>5 DEF Reconcile, FinishFlush, remote
<1>6. CASE ReadBatch \/ ReadUnit
  BY <1>1, <1>6 DEF ReadBatch, ReadUnit, remote
<1>7. CASE \E l \in Lanes : MarkSending(l) \/ Settle(l)
  BY <1>1, <1>7 DEF MarkSending, Settle, remote
<1>8. CASE \E l \in Lanes : LoseRequest(l) \/ LoseAnswer(l) \/ Decline(l)
  BY <1>1, <1>8 DEF LoseRequest, LoseAnswer, Decline, remote
<1>9. ASSUME NEW e \in Entities, NEW st \in {"conflicted", "quarantined"}, Discard(e, st) PROVE FeedInv'
  BY <1>1, <1>9 DEF Discard, remote
<1>10. CASE RetryFailed \/ Restart
  BY <1>1, <1>10 DEF RetryFailed, Restart, remote
<1>11. ASSUME NEW e \in Entities, NEW k \in WriteKinds, NEW m \in Modes, Enqueue(e, k, m) PROVE FeedInv'
  BY <1>1, <1>11 DEF Enqueue, remote
<1>12. CASE UNCHANGED vars
  BY <1>1, <1>12 DEF vars
<1> QED
  BY <1>2, <1>3, <1>4, <1>5, <1>6, <1>7, <1>8, <1>9, <1>10, <1>11, <1>12, <1>13 DEF Next, Flush

LEMMA FeedInit == Init => FeedInv
<1> SUFFICES ASSUME Init PROVE FeedInv
  OBVIOUS
<1>1. /\ clock = 1 /\ server \in [Entities -> VRow] /\ synced = server
      /\ \A e \in Entities : server[e].ver \in 0 .. 1
  BY DEF Init, VRow, Absent, Foreign
<1>2. feed = [e \in Entities |-> <<>>]
  BY DEF Init
<1>3. \A v \in 0 .. 1 : Leads(<<>>, v, v, 1)
  BY DEF Leads
<1> QED BY <1>1, <1>2, <1>3 DEF FeedInv

\* What a journal row, an answer and a request know of versions, at time c
\* and server version v of their entity.
Known(ver, c, v) == ver \in 0 .. c /\ (v > 0 => ver <= v)

RowAt(r, c, v) ==
    /\ r.base \in 0 .. c /\ r.ver \in 0 .. c
    /\ r.status \in Unresolved => r.ver = 0
    /\ r.status = "acked" => Known(r.ver, c, v) /\ (r.kind = "delete" => r.ver = 0)
AckAt(a, c, v) == a.ver \in 0 .. c /\ (a.st = "acked" => Known(a.ver, c, v))

JournalVers == \A s \in DOMAIN journal : RowAt(journal[s], clock, server[journal[s].ent].ver)
LaneVers ==
    /\ \A s \in DOMAIN lane["batch"].batch : lane["batch"].batch[s] \in 0 .. clock
    /\ lane["batch"].pc = "replied" /\ lane["batch"].reply.kind = "acks" =>
         \A s \in DOMAIN lane["batch"].batch :
             AckAt(lane["batch"].reply.acks[s], clock, server[journal[s].ent].ver)

VerInv == OverlayInv /\ FeedInv /\ JournalVers /\ LaneVers

\* Time passes, and a row changes to a later version or is deleted.
Later(c, d) == d \in {c, c + 1}
LaterRow(c, d, v, w) == w = v \/ w = 0 \/ (w = c + 1 /\ d = c + 1)

LEMMA LaterKnown ==
    ASSUME NEW c \in Nat, NEW d, NEW v \in Nat, NEW w, Later(c, d), LaterRow(c, d, v, w), NEW r
    PROVE  (RowAt(r, c, v) => RowAt(r, d, w)) /\ (AckAt(r, c, v) => AckAt(r, d, w))
  BY DEF Later, LaterRow, RowAt, AckAt, Known

\* Every step is one.
LEMMA ServerLater ==
    ASSUME ServerInv, FeedInv, Modes = {"optimistic"}, [Next]_vars
    PROVE  /\ clock \in Nat /\ clock' \in Nat /\ Later(clock, clock')
           /\ \A e \in Entities : /\ server[e].ver \in Nat
                                  /\ LaterRow(clock, clock', server[e].ver, server'[e].ver)
<1>1. clock \in Nat /\ \A e \in Entities : server[e].ver \in Nat
  BY DEF FeedInv, VRow
<1> QED BY <1>1, ServerRows DEF Later, LaterRow

\* The base a flush resolves.
LEMMA BaseKnown ==
    ASSUME VerInv, NEW s \in DOMAIN journal
    PROVE  ResolvedBase(journal, s) \in 0 .. clock
<1> DEFINE acked == {journal[t].ver : t \in {t \in WithStatus(journal, journal[s].ent, {"acked"}) : t < s}}
<1>1. clock \in Nat /\ acked \subseteq 0 .. clock /\ journal[s].base \in 0 .. clock
  BY DEF VerInv, FeedInv, JournalVers, RowAt, WithStatus, RowsOf
<1>2. journal[s].ent \in Entities
  BY DEF VerInv, OverlayInv, ServerInv, OrderInv, Shape, IsRow
<1>3. synced[journal[s].ent].ver \in 0 .. clock
  BY <1>2 DEF VerInv, FeedInv, Leads
<1>4. acked # {} => Max(acked) \in 0 .. clock
  BY <1>1, MaxOf
<1>5. ResolvedBase(journal, s) =
        CASE journal[s].base > 0 -> journal[s].base
          [] journal[s].base = 0 /\ acked \ {0} # {} -> Max(acked)
          [] OTHER -> synced[journal[s].ent].ver
  BY DEF ResolvedBase
<1> HIDE DEF acked
<1>6. journal[s].base = 0 \/ journal[s].base > 0
  BY <1>1
<1>7. CASE journal[s].base > 0
  BY <1>1, <1>5, <1>7
<1>8. CASE journal[s].base = 0 /\ acked \ {0} # {}
  BY <1>1, <1>4, <1>5, <1>8
<1>9. CASE journal[s].base = 0 /\ acked \ {0} = {}
  BY <1>1, <1>3, <1>5, <1>9
<1> QED BY <1>6, <1>7, <1>8, <1>9

\* The rows a flush marks, and the rows an answer settles.
LEMMA MarkSendingRows ==
    ASSUME ServerInv, Modes = {"optimistic"}, NEW l \in Lanes, MarkSending(l)
    PROVE  /\ DOMAIN journal' = DOMAIN journal /\ lane[l].pc = "read"
           /\ \A s \in DOMAIN journal :
                /\ s \notin DOMAIN lane["batch"].batch \/ l # "batch" => journal'[s] = journal[s]
                /\ s \in DOMAIN lane["batch"].batch /\ l = "batch" =>
                     /\ journal'[s].status = "sending" /\ journal[s].status \in Unresolved
                     /\ journal'[s].ent = journal[s].ent /\ journal'[s].kind = journal[s].kind
                     /\ journal'[s].base = lane["batch"].batch[s] /\ journal'[s].ver = journal[s].ver
<1> DEFINE marked(s) == [journal[s] EXCEPT !.status = "sending", !.base = lane[l].batch[s],
                                           !.attempts = @ + 1]
<1>1. /\ journal' = [s \in DOMAIN journal |->
                       IF s \notin DOMAIN lane[l].batch THEN journal[s] ELSE marked(s)]
      /\ lane[l].pc = "read"
  BY DEF MarkSending
<1>2. ASSUME NEW s \in DOMAIN journal
      PROVE  /\ marked(s).status = "sending"
             /\ marked(s).ent = journal[s].ent /\ marked(s).kind = journal[s].kind
             /\ marked(s).base = lane[l].batch[s] /\ marked(s).ver = journal[s].ver
  <2>1. IsRow(journal[s])
    BY DEF ServerInv, OrderInv, Shape
  <2> QED BY <2>1 DEF IsRow
<1>3. \A s \in DOMAIN lane[l].batch : l = "batch" /\ journal[s].status \in Unresolved
  BY OnTheWire
<1> HIDE DEF marked
<1> QED BY <1>1, <1>2, <1>3

LEMMA SettleRows ==
    ASSUME OverlayInv, Modes = {"optimistic"}, NEW l \in Lanes, Settle(l)
    PROVE  /\ DOMAIN journal' = DOMAIN journal /\ lane[l].pc = "replied"
           /\ \A s \in DOMAIN journal :
                /\ s \notin DOMAIN lane["batch"].batch \/ l # "batch" => journal'[s] = journal[s]
                /\ s \in DOMAIN lane["batch"].batch /\ l = "batch" =>
                     /\ journal[s].status = "sending"
                     /\ journal'[s].ent = journal[s].ent /\ journal'[s].kind = journal[s].kind
                     /\ journal'[s].base = journal[s].base
                     /\ lane["batch"].reply.kind = "acks" =>
                          /\ journal'[s].status = lane["batch"].reply.acks[s].st
                          /\ journal'[s].status \in {"acked", "conflicted"}
                          /\ journal'[s].ver = IF journal[s].kind = "delete" /\ journal'[s].status = "acked"
                                               THEN journal[s].ver ELSE lane["batch"].reply.acks[s].ver
                     /\ lane["batch"].reply.kind # "acks" =>
                          /\ journal'[s].status \in {"failed", "quarantined"}
                          /\ journal'[s].ver = journal[s].ver
<1>0. ServerInv
  BY DEF OverlayInv
<1>1. /\ lane[l].pc = "replied"
      /\ journal' = [s \in DOMAIN journal |->
                       IF s \in DOMAIN lane[l].batch
                       THEN Outcome(journal[s], s, lane[l].reply) ELSE journal[s]]
  BY DEF Settle
<1>2. \A s \in DOMAIN lane[l].batch : l = "batch" /\ journal[s].status = "sending"
  BY <1>0, <1>1, OnTheWire
<1>3. ASSUME NEW s \in DOMAIN journal, s \in DOMAIN lane["batch"].batch, l = "batch"
      PROVE  /\ journal'[s].ent = journal[s].ent /\ journal'[s].kind = journal[s].kind
             /\ journal'[s].base = journal[s].base
             /\ lane["batch"].reply.kind = "acks" =>
                  /\ journal'[s].status = lane["batch"].reply.acks[s].st
                  /\ journal'[s].status \in {"acked", "conflicted"}
                  /\ journal'[s].ver = IF journal[s].kind = "delete" /\ journal'[s].status = "acked"
                                       THEN journal[s].ver ELSE lane["batch"].reply.acks[s].ver
             /\ lane["batch"].reply.kind # "acks" =>
                  /\ journal'[s].status \in {"failed", "quarantined"}
                  /\ journal'[s].ver = journal[s].ver
  <2>1. IsRow(journal[s]) /\ lane["batch"].reply.kind \in {"acks", "failed", "invalid"}
        /\ (lane["batch"].reply.kind = "acks" => lane["batch"].reply.acks[s].st \in {"acked", "conflicted"})
    BY <1>1, <1>3 DEF OverlayInv, ServerInv, OrderInv, Shape, BatchReply
  <2>2. journal'[s] = Outcome(journal[s], s, lane["batch"].reply)
    BY <1>1, <1>3
  <2>3. CASE lane["batch"].reply.kind = "acks"
    <3>1. journal'[s] = [journal[s] EXCEPT !.status = lane["batch"].reply.acks[s].st,
                        !.ver = IF journal[s].kind = "delete" /\ lane["batch"].reply.acks[s].st = "acked"
                                THEN @ ELSE lane["batch"].reply.acks[s].ver]
      BY <2>2, <2>3 DEF Outcome
    <3> QED BY <2>1, <2>3, <3>1 DEF IsRow
  <2>4. CASE lane["batch"].reply.kind = "failed"
    BY <2>1, <2>2, <2>4 DEF Outcome, IsRow, FailureOutcome
  <2>5. CASE lane["batch"].reply.kind = "invalid"
    BY <2>1, <2>2, <2>5 DEF Outcome, IsRow
  <2> QED BY <2>1, <2>3, <2>4, <2>5
<1> QED BY <1>1, <1>2, <1>3

LEMMA MoveRows ==
    ASSUME ServerInv, RetryFailed \/ Restart
    PROVE  /\ DOMAIN journal' = DOMAIN journal
           /\ \A s \in DOMAIN journal :
                \/ journal'[s] = journal[s]
                \/ /\ journal[s].status \in Unresolved /\ journal'[s].status \in Unresolved
                   /\ journal'[s].ent = journal[s].ent /\ journal'[s].kind = journal[s].kind
                   /\ journal'[s].base = journal[s].base /\ journal'[s].ver = journal[s].ver
<1>1. \A s \in DOMAIN journal : IsRow(journal[s])
  BY DEF ServerInv, OrderInv, Shape
<1>2. PICK from \in SUBSET Owed, to \in Unresolved : Move(from, to)
  BY DEF RetryFailed, Restart, Recovered, Owed, Unresolved
<1>3. ASSUME NEW s \in DOMAIN journal
      PROVE  \/ journal'[s] = journal[s]
             \/ /\ journal[s].status \in Unresolved /\ journal'[s].status \in Unresolved
                /\ journal'[s].ent = journal[s].ent /\ journal'[s].kind = journal[s].kind
                /\ journal'[s].base = journal[s].base /\ journal'[s].ver = journal[s].ver
  <2>1. CASE journal[s].status \notin from
    BY <1>2, <2>1 DEF Move
  <2>2. CASE journal[s].status \in from
    <3>1. journal'[s] = [journal[s] EXCEPT !.status = to]
      BY <1>2, <2>2 DEF Move
    <3>2. journal[s].status \in Unresolved
      BY <2>2 DEF Owed, Unresolved
    <3> QED BY <1>1, <1>2, <3>1, <3>2 DEF IsRow
  <2> QED BY <2>1, <2>2
<1> QED BY <1>2, <1>3 DEF Move

LEMMA EnqueueRows ==
    ASSUME ServerInv, NEW e \in Entities, NEW k \in WriteKinds, NEW m \in Modes, Enqueue(e, k, m)
    PROVE  /\ DOMAIN journal' = DOMAIN journal \cup {issued + 1}
           /\ issued \in Nat /\ issued' = issued + 1
           /\ \A s \in DOMAIN journal : s \in 1 .. issued /\ journal'[s] = journal[s]
           /\ journal'[issued + 1].ent = e /\ journal'[issued + 1].status = "pending"
           /\ journal'[issued + 1].ver = 0
           /\ \/ journal'[issued + 1].base = 0
              \/ journal'[issued + 1].base = synced[e].ver /\ \A s \in DOMAIN journal : journal[s].ent # e
           /\ UNCHANGED <<server, clock, synced, feed, lane, faults>>
<1>1. /\ DOMAIN journal' = DOMAIN journal \cup {issued + 1} /\ issued \in Nat /\ issued' = issued + 1
      /\ \A s \in DOMAIN journal : s \in 1 .. issued /\ journal'[s] = journal[s]
  BY DEF Enqueue, ServerInv, OrderInv, Shape
<1>2. /\ journal'[issued + 1].ent = e /\ journal'[issued + 1].status = "pending"
      /\ journal'[issued + 1].ver = 0 /\ journal'[issued + 1].base = CaptureChainHeadBase(e, k, m)
  BY DEF Enqueue
<1>3. \/ CaptureChainHeadBase(e, k, m) = 0
      \/ CaptureChainHeadBase(e, k, m) = synced[e].ver /\ \A s \in DOMAIN journal : journal[s].ent # e
  BY DEF CaptureChainHeadBase, RowsOf
<1>4. UNCHANGED <<server, clock, synced, feed, lane, faults>>
  BY DEF Enqueue, remote
<1> QED BY <1>1, <1>2, <1>3, <1>4

\* What a step does to the journal, and what it does to the batch lane.
LEMMA JournalKinds ==
    ASSUME [Next]_vars
    PROVE  \/ journal' = journal
           \/ Clears
           \/ \E e \in Entities, k \in WriteKinds, m \in Modes : Enqueue(e, k, m)
           \/ \E l \in Lanes : MarkSending(l) \/ Settle(l)
           \/ RetryFailed \/ Restart
<1>1. ASSUME NEW e \in Entities, Echo(e) PROVE Clears
  BY <1>1, EchoClears
<1>2. ASSUME Reconcile \/ \E l \in Lanes : FinishFlush(l) PROVE Clears
  BY <1>2, ReconcileClears DEF Reconcile, FinishFlush
<1>3. ASSUME NEW e \in Entities, NEW st \in {"conflicted", "quarantined"}, Discard(e, st)
      PROVE  Clears
  BY <1>3, DiscardClears
<1>4. ASSUME ReadBatch \/ ReadUnit PROVE journal' = journal
  BY <1>4 DEF ReadBatch, ReadUnit, local
<1>5. ASSUME NEW l \in Lanes, ServerApply(l) \/ LoseRequest(l) \/ LoseAnswer(l) \/ Decline(l)
      PROVE  journal' = journal
  <2>1. UNCHANGED local
    BY <1>5 DEF ServerApply, LoseRequest, LoseAnswer, Decline
  <2> QED BY <2>1 DEF local
<1>6. ASSUME NEW e \in Entities, NEW k \in ForeignKinds, ForeignWrite(e, k) PROVE journal' = journal
  BY <1>6 DEF ForeignWrite, local
<1>7. CASE LateApply \/ UNCHANGED vars
  BY <1>7 DEF LateApply, local, vars
<1> QED
  BY <1>1, <1>2, <1>3, <1>4, <1>5, <1>6, <1>7 DEF Next, Flush

Emptied(k) == DOMAIN k.batch = {} /\ k.pc # "replied" /\ k.reply.kind # "acks"

LEMMA LaneKinds ==
    ASSUME ServerInv, Modes = {"optimistic"}, [Next]_vars
    PROVE  LET b == lane["batch"]
               new == lane'["batch"]
           IN  \/ new = b
               \/ Emptied(new)
               \/ ReadBatch /\ new.pc = "read"
               \/ MarkSending("batch") /\ new.pc = "sent" /\ new.batch = b.batch /\ new.reply = b.reply
               \/ new.reply.kind # "acks" /\ new.batch = b.batch
               \/ ServerApply("batch") /\ Applied("batch")
<1>0. "batch" \in Lanes /\ LaneShape
  BY DEF ServerInv, OrderInv, Shape, Lanes
<1> DEFINE b == lane["batch"]
           new == lane'["batch"]
           Goal == \/ new = b
                   \/ Emptied(new)
                   \/ ReadBatch /\ new.pc = "read"
                   \/ MarkSending("batch") /\ new.pc = "sent" /\ new.batch = b.batch /\ new.reply = b.reply
                   \/ new.reply.kind # "acks" /\ new.batch = b.batch
                   \/ ServerApply("batch") /\ Applied("batch")
<1> SUFFICES Goal
  OBVIOUS
<1>1. ASSUME NEW l \in Lanes, NEW k, lane' = [lane EXCEPT ![l] = k],
             (k.reply.kind # "acks" /\ k.batch = lane[l].batch) \/ Emptied(k)
      PROVE  Goal
  BY <1>0, <1>1 DEF LaneShape
<1>2. ASSUME NEW l \in Lanes, NEW r, Reply(l, r), r.kind # "acks" PROVE Goal
  <2>1. PICK k : k = [lane[l] EXCEPT !.pc = "replied", !.reply = r]
    OBVIOUS
  <2>2. lane' = [lane EXCEPT ![l] = k]
    BY <1>2, <2>1 DEF Reply
  <2>3. k.reply = r /\ k.batch = lane[l].batch
    BY <1>0, <2>1 DEF LaneShape, IsLane
  <2> QED BY <1>1, <1>2, <2>2, <2>3
<1>3. ASSUME NEW l \in Lanes, LoseRequest(l) \/ LoseAnswer(l) \/ Decline(l) PROVE Goal
  <2>1. PICK r : Reply(l, r) /\ r.kind # "acks"
    <3>1. [kind |-> "failed"].kind # "acks" /\ [kind |-> "rejected"].kind # "acks"
          /\ \A n : [kind |-> "invalid", named |-> n].kind # "acks"
      OBVIOUS
    <3> QED BY <1>3, <3>1 DEF LoseRequest, LoseAnswer, Decline
  <2> QED BY <1>2, <2>1
<1>4. ASSUME NEW l \in Lanes, ServerApply(l) PROVE Goal
  <2>1. CASE l = "batch"
    <3> HIDE DEF Goal
    <3>1. CASE Applied("batch")
      BY <1>4, <2>1, <3>1 DEF Goal
    <3> QED BY <1>2, <1>4, <2>1, <3>1, ServerApplies
  <2>2. CASE l # "batch"
    <3>1. PICK r : Reply(l, r)
      BY <1>4, ServerApplies DEF Applied
    <3>2. lane'["batch"] = lane["batch"]
      BY <1>0, <2>2, <3>1 DEF Reply, LaneShape
    <3> QED BY <3>2
  <2> QED BY <2>1, <2>2
<1>5. ASSUME NEW l \in Lanes, MarkSending(l) PROVE Goal
  <2>1. lane' = [lane EXCEPT ![l] = [lane[l] EXCEPT !.pc = "sent"]]
    BY <1>5 DEF MarkSending
  <2>2. l # "batch" => new = b
    BY <1>0, <2>1 DEF LaneShape
  <2>3. l = "batch" => new.pc = "sent" /\ new.batch = b.batch /\ new.reply = b.reply
    BY <1>0, <2>1 DEF LaneShape, IsLane
  <2>4. CASE l = "batch"
    <3> HIDE DEF new, b
    <3> QED BY <1>5, <2>3, <2>4
  <2>5. CASE l # "batch"
    <3> HIDE DEF new, b
    <3> QED BY <2>2, <2>5
  <2> QED BY <2>4, <2>5
<1>6. ASSUME NEW l \in Lanes, Settle(l) PROVE Goal
  <2>1. lane' = [lane EXCEPT ![l] = AfterSettle(l)]
    BY <1>6 DEF Settle
  <2>2. Emptied(AfterSettle(l))
    BY DEF AfterSettle, Idle, Emptied
  <2> QED BY <1>1, <2>1, <2>2
<1>7. ASSUME NEW l \in Lanes, FinishFlush(l) PROVE Goal
  <2>1. lane' = [lane EXCEPT ![l] = Idle]
    BY <1>7 DEF FinishFlush
  <2>2. Emptied(Idle)
    BY DEF Idle, Emptied
  <2> QED BY <1>1, <2>1, <2>2
<1>8. CASE ReadBatch
  <2>1. PICK f : lane' = [lane EXCEPT !["batch"].pc = "read", !["batch"].batch = f]
    BY <1>8 DEF ReadBatch
  <2>2. lane'["batch"].pc = "read"
    BY <1>0, <2>1 DEF LaneShape, IsLane
  <2> QED BY <1>8, <2>2
<1>9. CASE ReadUnit
  <2>1. PICK k : lane' = [lane EXCEPT !["unit"] = k]
    BY <1>9 DEF ReadUnit
  <2> QED BY <1>0, <2>1 DEF LaneShape
<1>10. CASE Restart
  <2>1. Emptied(Idle) /\ lane'["batch"] = Idle
    BY <1>0, <1>10 DEF Restart, Idle, Emptied
  <2> QED BY <2>1
<1>11. ASSUME lane' = lane PROVE Goal
  BY <1>11
<1> HIDE DEF Goal
<1>12. ASSUME NEW e \in Entities, NEW k \in WriteKinds, NEW m \in Modes, Enqueue(e, k, m) PROVE Goal
  BY <1>11, <1>12 DEF Enqueue
<1>13. ASSUME NEW e \in Entities, Echo(e) PROVE Goal
  BY <1>11, <1>13 DEF Echo
<1>14. ASSUME NEW e \in Entities, NEW st \in {"conflicted", "quarantined"}, Discard(e, st) PROVE Goal
  BY <1>11, <1>14 DEF Discard
<1>15. ASSUME NEW e \in Entities, NEW k \in ForeignKinds, ForeignWrite(e, k) PROVE Goal
  BY <1>11, <1>15 DEF ForeignWrite
<1>16. ASSUME LateApply \/ Reconcile \/ RetryFailed \/ UNCHANGED vars PROVE Goal
  BY <1>11, <1>16 DEF LateApply, Reconcile, RetryFailed, vars
<1>17. ASSUME NEW l \in Lanes, Flush(l) PROVE Goal
  BY <1>4, <1>5, <1>6, <1>7, <1>17 DEF Flush
<1> QED BY <1>3, <1>8, <1>9, <1>10, <1>12, <1>13, <1>14, <1>15, <1>16, <1>17 DEF Next

\* What a flush reads.
LEMMA ReadBatchRows ==
    ASSUME ServerInv, ReadBatch
    PROVE  /\ lane["batch"].pc # "replied" /\ lane'["batch"].pc = "read"
           /\ lane'["batch"].reply = lane["batch"].reply
           /\ \A s \in DOMAIN lane'["batch"].batch :
                /\ s \in DOMAIN journal /\ journal[s].status \in Unresolved /\ First(s)
                /\ lane'["batch"].batch[s] = ResolvedBase(journal, s)
           /\ UNCHANGED <<journal, server, clock, synced, feed, faults>>
<1>1. PICK notDue :
        /\ lane' = [lane EXCEPT !["batch"].pc = "read",
                      !["batch"].batch = [s \in FirstOf(Eligible(journal) \ notDue) |-> ResolvedBase(journal, s)]]
        /\ lane["batch"].pc \in {"idle", "settled"}
        /\ UNCHANGED <<local, synced, remote, foreign, faults>>
  BY DEF ReadBatch
<1>2. PICK rows : rows = FirstOf(Eligible(journal) \ notDue)
  OBVIOUS
<1>3. lane' = [lane EXCEPT !["batch"].pc = "read",
                  !["batch"].batch = [s \in rows |-> ResolvedBase(journal, s)]]
  BY <1>1, <1>2
<1>4. \A s \in rows : s \in Eligible(journal)
  BY <1>2 DEF FirstOf
<1>5. \A s \in rows : s \in DOMAIN journal /\ journal[s].status \in Unresolved /\ First(s)
  BY <1>4 DEF Eligible, Blocking, WithStatus, RowsOf, First, Unresolved
<1>6. /\ DOMAIN lane'["batch"].batch = rows /\ lane'["batch"].pc = "read"
      /\ lane'["batch"].reply = lane["batch"].reply
      /\ \A s \in rows : lane'["batch"].batch[s] = ResolvedBase(journal, s)
  BY <1>3 DEF ServerInv, OrderInv, Shape, LaneShape, IsLane, Lanes
<1> QED BY <1>1, <1>5, <1>6 DEF local, remote

\* A mutation keeps its entity and its kind.
LEMMA RowsKept ==
    ASSUME OverlayInv, Modes = {"optimistic"}, [Next]_vars, NEW s \in DOMAIN journal, s \in DOMAIN journal'
    PROVE  journal'[s].ent = journal[s].ent /\ journal'[s].kind = journal[s].kind
<1> DEFINE Goal == journal'[s].ent = journal[s].ent /\ journal'[s].kind = journal[s].kind
<1> SUFFICES Goal
  OBVIOUS
<1>0. ServerInv
  BY DEF OverlayInv
<1>1. CASE journal' = journal \/ Clears
  BY <1>1 DEF Clears
<1>2. ASSUME NEW e \in Entities, NEW k \in WriteKinds, NEW m \in Modes, Enqueue(e, k, m) PROVE Goal
  BY <1>0, <1>2, EnqueueRows
<1>3. ASSUME NEW l \in Lanes, MarkSending(l) PROVE Goal
  BY <1>0, <1>3, MarkSendingRows
<1>4. ASSUME NEW l \in Lanes, Settle(l) PROVE Goal
  BY <1>4, SettleRows
<1>5. CASE RetryFailed \/ Restart
  BY <1>0, <1>5, MoveRows
<1> HIDE DEF Goal
<1> QED BY <1>1, <1>2, <1>3, <1>4, <1>5, JournalKinds

LEMMA JournalVersStep ==
    ASSUME VerInv, Modes = {"optimistic"}, [Next]_vars
    PROVE  JournalVers'
<1>0. OverlayInv /\ ServerInv /\ FeedInv /\ JournalVers /\ LaneVers
  BY DEF VerInv, OverlayInv
<1>1. /\ clock \in Nat /\ clock' \in Nat /\ Later(clock, clock')
      /\ \A e \in Entities : /\ server[e].ver \in Nat
                             /\ LaterRow(clock, clock', server[e].ver, server'[e].ver)
  BY <1>0, ServerLater
<1>2. \A s \in DOMAIN journal : journal[s].ent \in Entities
  BY <1>0 DEF ServerInv, OrderInv, Shape, IsRow
<1>3. ASSUME NEW s \in DOMAIN journal, NEW r, r.base = journal[s].base, r.ver = journal[s].ver,
             r.status = journal[s].status, r.kind = journal[s].kind
      PROVE  RowAt(r, clock', server'[journal[s].ent].ver)
  <2>1. RowAt(journal[s], clock, server[journal[s].ent].ver)
    BY <1>0 DEF JournalVers
  <2>2. RowAt(r, clock, server[journal[s].ent].ver)
    BY <1>3, <2>1 DEF RowAt
  <2> QED BY <1>1, <1>2, <2>2, LaterKnown
<1>4. ASSUME NEW s \in DOMAIN journal, s \in DOMAIN journal', journal'[s] = journal[s]
      PROVE  RowAt(journal'[s], clock', server'[journal'[s].ent].ver)
  BY <1>3, <1>4
<1>5. CASE journal' = journal \/ Clears
  BY <1>4, <1>5 DEF JournalVers, Clears
<1>6. ASSUME NEW e \in Entities, NEW k \in WriteKinds, NEW m \in Modes, Enqueue(e, k, m) PROVE JournalVers'
  <2>1. /\ DOMAIN journal' = DOMAIN journal \cup {issued + 1}
        /\ \A s \in DOMAIN journal : journal'[s] = journal[s]
        /\ journal'[issued + 1].status = "pending" /\ journal'[issued + 1].ver = 0
        /\ journal'[issued + 1].base \in {0, synced[e].ver} /\ clock' = clock
    BY <1>0, <1>6, EnqueueRows
  <2>2. synced[e].ver \in 0 .. clock
    BY <1>0 DEF FeedInv, Leads
  <2>3. RowAt(journal'[issued + 1], clock', server'[journal'[issued + 1].ent].ver)
    BY <1>1, <2>1, <2>2 DEF RowAt
  <2> QED BY <1>4, <2>1, <2>3 DEF JournalVers
<1>7. ASSUME NEW l \in Lanes, MarkSending(l) PROVE JournalVers'
  <2>1. ASSUME NEW s \in DOMAIN journal, s \in DOMAIN lane["batch"].batch, l = "batch"
        PROVE  RowAt(journal'[s], clock', server'[journal'[s].ent].ver)
    <3>1. /\ journal'[s].status = "sending" /\ journal[s].status \in Unresolved
          /\ journal'[s].ver = journal[s].ver /\ journal'[s].base = lane["batch"].batch[s]
      BY <1>0, <1>7, <2>1, MarkSendingRows
    <3>2. journal'[s].base \in 0 .. clock /\ journal[s].ver = 0
      BY <1>0, <2>1, <3>1 DEF LaneVers, JournalVers, RowAt
    <3>3. clock' = clock
      BY <1>7 DEF MarkSending, remote
    <3> QED BY <1>1, <3>1, <3>2, <3>3 DEF RowAt
  <2> QED BY <1>0, <1>4, <1>7, <2>1, MarkSendingRows DEF JournalVers
<1>8. ASSUME NEW l \in Lanes, Settle(l) PROVE JournalVers'
  <2>1. ASSUME NEW s \in DOMAIN journal, s \in DOMAIN lane["batch"].batch, l = "batch"
        PROVE  RowAt(journal'[s], clock', server'[journal'[s].ent].ver)
    <3>1. /\ lane["batch"].pc = "replied" /\ journal[s].status = "sending"
          /\ journal'[s].ent = journal[s].ent /\ journal'[s].kind = journal[s].kind
          /\ journal'[s].base = journal[s].base
          /\ lane["batch"].reply.kind = "acks" =>
               /\ journal'[s].status = lane["batch"].reply.acks[s].st
               /\ journal'[s].status \in {"acked", "conflicted"}
               /\ journal'[s].ver = IF journal[s].kind = "delete" /\ journal'[s].status = "acked"
                                    THEN journal[s].ver ELSE lane["batch"].reply.acks[s].ver
          /\ lane["batch"].reply.kind # "acks" =>
               /\ journal'[s].status \in {"failed", "quarantined"}
               /\ journal'[s].ver = journal[s].ver
      BY <1>8, <2>1, <1>0, SettleRows
    <3>2. journal[s].base \in 0 .. clock /\ journal[s].ver = 0
      BY <1>0, <2>1, <3>1 DEF JournalVers, RowAt, Unresolved
    <3>3. clock' = clock /\ server' = server
      BY <1>8 DEF Settle, remote
    <3>4. journal[s].ent \in Entities
      BY <1>2
    <3>5. CASE lane["batch"].reply.kind = "acks"
      <4>1. AckAt(lane["batch"].reply.acks[s], clock, server[journal[s].ent].ver)
        BY <1>0, <2>1, <3>1, <3>5 DEF LaneVers
      <4>2. "acked" \notin Unresolved /\ "conflicted" \notin Unresolved
        BY DEF Unresolved
      <4> QED BY <1>1, <3>1, <3>2, <3>3, <3>4, <3>5, <4>1, <4>2 DEF RowAt, AckAt, Known
    <3>6. CASE lane["batch"].reply.kind # "acks"
      BY <1>1, <3>1, <3>2, <3>3, <3>6 DEF RowAt
    <3> QED BY <3>5, <3>6
  <2> QED BY <1>0, <1>4, <1>8, <2>1, SettleRows DEF JournalVers
<1>9. CASE RetryFailed \/ Restart
  <2>1. ASSUME NEW s \in DOMAIN journal, journal'[s] # journal[s]
        PROVE  RowAt(journal'[s], clock', server'[journal'[s].ent].ver)
    <3>1. /\ journal[s].status \in Unresolved /\ journal'[s].status \in Unresolved
          /\ journal'[s].base = journal[s].base /\ journal'[s].ver = journal[s].ver
      BY <1>0, <1>9, <2>1, MoveRows
    <3>2. journal[s].base \in 0 .. clock /\ journal[s].ver = 0
      BY <1>0, <3>1 DEF JournalVers, RowAt
    <3>3. clock' = clock
      BY <1>9 DEF RetryFailed, Restart, remote
    <3> QED BY <1>1, <3>1, <3>2, <3>3 DEF RowAt, Unresolved
  <2> QED BY <1>0, <1>4, <1>9, <2>1, MoveRows DEF JournalVers
<1> QED BY <1>5, <1>6, <1>7, <1>8, <1>9, JournalKinds

LEMMA LaneVersStep ==
    ASSUME VerInv, Modes = {"optimistic"}, [Next]_vars
    PROVE  LaneVers'
<1>0. OverlayInv /\ ServerInv /\ FeedInv /\ JournalVers /\ LaneVers /\ "batch" \in Lanes
  BY DEF VerInv, OverlayInv, Lanes
<1>1. /\ clock \in Nat /\ clock' \in Nat /\ Later(clock, clock')
      /\ \A e \in Entities : /\ server[e].ver \in Nat
                             /\ LaterRow(clock, clock', server[e].ver, server'[e].ver)
  BY <1>0, ServerLater
<1> DEFINE b == lane["batch"]
           new == lane'["batch"]
<1>2. ASSUME new.batch = b.batch
      PROVE  /\ \A s \in DOMAIN new.batch : new.batch[s] \in 0 .. clock'
             /\ \A s \in DOMAIN new.batch : /\ s \in DOMAIN journal /\ journal[s].ent \in Entities
                                            /\ journal'[s].ent = journal[s].ent
  <2>1. \A s \in DOMAIN new.batch : b.batch[s] \in 0 .. clock
    BY <1>0, <1>2 DEF LaneVers
  <2>2. ServerInv'
    BY <1>0, NextKeepsServer
  <2>3. \A s \in DOMAIN new.batch : s \in DOMAIN journal /\ s \in DOMAIN journal'
    <3>1. \A s \in DOMAIN new.batch : s \in DOMAIN journal'
      BY <1>0, <2>2 DEF ServerInv, OrderInv, LaneRows, LaneRow
    <3> QED BY <1>0, <1>2, <3>1 DEF ServerInv, OrderInv, LaneRows, LaneRow
  <2>4. \A s \in DOMAIN journal : journal[s].ent \in Entities
    BY <1>0 DEF ServerInv, OrderInv, Shape, IsRow
  <2>5. \A s \in DOMAIN new.batch : new.batch[s] \in 0 .. clock'
    BY <1>1, <1>2, <2>1 DEF Later
  <2> QED BY <1>0, <2>3, <2>4, <2>5, RowsKept
<1>3. CASE new = b
  <2>1. ASSUME b.pc = "replied", b.reply.kind = "acks", NEW s \in DOMAIN b.batch
        PROVE  AckAt(b.reply.acks[s], clock', server'[journal'[s].ent].ver)
    <3>1. AckAt(b.reply.acks[s], clock, server[journal[s].ent].ver)
      BY <1>0, <2>1 DEF LaneVers
    <3>2. journal[s].ent \in Entities /\ journal'[s].ent = journal[s].ent
      BY <1>2, <1>3, <2>1
    <3> QED BY <1>1, <3>1, <3>2, LaterKnown
  <2> QED BY <1>2, <1>3, <2>1 DEF LaneVers
<1>4. CASE Emptied(new)
  BY <1>4 DEF Emptied, LaneVers
<1>5. CASE ReadBatch /\ new.pc = "read"
  BY <1>0, <1>5, ReadBatchRows, BaseKnown DEF LaneVers
<1>6. CASE MarkSending("batch") /\ new.pc = "sent" /\ new.batch = b.batch /\ new.reply = b.reply
  BY <1>2, <1>6 DEF LaneVers
<1>7. CASE new.reply.kind # "acks" /\ new.batch = b.batch
  BY <1>2, <1>7 DEF LaneVers
<1>8. CASE ServerApply("batch") /\ Applied("batch")
  <2>1. PICK k : /\ k = [s \in DOMAIN b.batch |-> Answer("batch", s)]
                 /\ lane' = [lane EXCEPT !["batch"].pc = "replied", !["batch"].reply = [kind |-> "acks", acks |-> k]]
    BY <1>8 DEF Applied, Reply
  <2>2. new.batch = b.batch /\ new.reply.acks = k
    BY <1>0, <2>1 DEF ServerInv, OrderInv, Shape, LaneShape, IsLane
  <2>3. clock' = clock + 1
    BY <1>8 DEF Applied
  <2>4. ASSUME NEW s \in DOMAIN b.batch
        PROVE  AckAt(k[s], clock', server'[journal[s].ent].ver)
    <3> DEFINE a == Answer("batch", s)
    <3>1. /\ server[journal[s].ent] \in VRow /\ server'[journal[s].ent] = a.row
          /\ Answered(a, server[journal[s].ent], journal[s].kind, b.batch[s], s, clock + 1)
      BY <1>0, <1>8, AppliedRows
    <3>2. k[s] = a
      BY <2>1
    <3>3. server[journal[s].ent].ver \in 0 .. clock
      <4>1. journal[s].ent \in Entities
        BY <1>0, OnTheWire
      <4> QED BY <1>0, <4>1 DEF FeedInv, Leads
    <3> HIDE DEF a
    <3> QED BY <1>1, <2>3, <3>1, <3>2, <3>3 DEF Answered, AckAt, Known
  <2> QED BY <1>2, <2>2, <2>4 DEF LaneVers
<1> HIDE DEF new, b
<1> QED BY <1>0, <1>3, <1>4, <1>5, <1>6, <1>7, <1>8, LaneKinds DEF new, b

LEMMA VerStep ==
    ASSUME VerInv, Modes = {"optimistic"}, [Next]_vars
    PROVE  VerInv'
<1>1. OverlayInv /\ ServerInv /\ FeedInv
  BY DEF VerInv, OverlayInv
<1> QED BY <1>1, OverlayStep, FeedStep, JournalVersStep, LaneVersStep DEF VerInv

LEMMA VerInit == Init => VerInv
<1> SUFFICES ASSUME Init PROVE VerInv
  OBVIOUS
<1>1. DOMAIN journal = {} /\ DOMAIN lane["batch"].batch = {} /\ lane["batch"].pc # "replied"
  BY DEF Init, Idle, Lanes
<1> QED BY <1>1, OverlayInit, FeedInit DEF VerInv, JournalVers, LaneVers

-----------------------------------------------------------------------------
(***************************************************************************)
(* Author order at the server, for a table whose writes are all            *)
(* optimistic.  A request that may still arrive is behind every later      *)
(* write: where the server's row is one, it is gone or has a version later *)
(* than the request's base, and a judged mutation is declined.             *)
(***************************************************************************)
Behind(m, s) ==
    /\ m.base \in 0 .. clock
    /\ server[m.ent].val > s => server[m.ent].ver = 0 \/ server[m.ent].ver > m.base

OrphansBehind == \A req \in orphans : \A s \in DOMAIN req.rows : Behind(req.rows[s], s)

LateInv == VerInv /\ OrphansBehind

LEMMA OrphanBasics ==
    ASSUME VerInv
    PROVE  /\ ServerInv /\ ServerShape /\ OrderInv /\ issued \in Nat /\ clock \in Nat
           /\ \A e \in Entities : server[e].ver \in Nat /\ server[e].val \in Nat
           /\ \A req \in orphans : \A s \in DOMAIN req.rows :
                s \in Nat /\ req.rows[s].ent \in Entities /\ req.rows[s].kind \in Kinds
<1>1. ServerInv /\ ServerShape /\ OrderInv /\ OrphanRows /\ issued \in Nat
  BY DEF VerInv, OverlayInv, ServerInv, OrderInv, Shape
<1> QED BY <1>1 DEF ServerShape, OrphanRows, IsRequest

LEMMA OrphansBehindStep ==
    ASSUME LateInv, Modes = {"optimistic"}, [Next]_vars
    PROVE  OrphansBehind'
<1>0. VerInv /\ OrphansBehind
  BY DEF LateInv
<1>1. ASSUME NEW req \in orphans', NEW s \in DOMAIN req.rows, req \in orphans
      PROVE  Behind(req.rows[s], s)'
  <2>1. /\ Behind(req.rows[s], s) /\ clock \in Nat /\ req.rows[s].ent \in Entities
        /\ clock' = clock \/ clock' = clock + 1
        /\ \/ server'[req.rows[s].ent] = server[req.rows[s].ent]
           \/ clock' = clock + 1 /\ server'[req.rows[s].ent].ver \in {0, clock + 1}
    BY <1>0, <1>1, OrphanBasics, ServerRows DEF OrphansBehind
  <2> QED BY <2>1 DEF Behind
<1>2. ASSUME NEW req \in orphans', NEW s \in DOMAIN req.rows, UNCHANGED <<server, clock>>,
             NEW l \in Lanes, lane[l].pc = "sent", req = Orphan(l)
      PROVE  Behind(req.rows[s], s)'
  <2>1. req.rows = Request(l)
    BY <1>2 DEF Orphan
  <2>2. /\ s \in DOMAIN lane["batch"].batch /\ s \in DOMAIN journal
        /\ journal[s].ent = req.rows[s].ent /\ journal[s].status = "sending"
        /\ req.rows[s].base = lane["batch"].batch[s] /\ s \in Nat
    BY <1>0, <1>2, <2>1, SentRows, OrphanBasics DEF OrderInv, Shape
  <2>3. req.rows[s].base \in 0 .. clock
    BY <1>0, <2>2 DEF VerInv, LaneVers
  <2>4. server[req.rows[s].ent].val <= s /\ server[req.rows[s].ent].val \in Nat
    <3>1. journal[s].ent \in Entities
      BY <1>0, <2>2, OrphanBasics DEF OrderInv, Shape, IsRow
    <3> QED BY <1>0, <2>2, <3>1, OrphanBasics DEF ServerInv, NothingOlder, Unresolved
  <2> QED BY <1>2, <2>2, <2>3, <2>4 DEF Behind
<1> QED BY <1>1, <1>2, OrphansStep DEF OrphansBehind

\* A judged mutation that is behind the row leaves it alone.
LEMMA JudgedIsDeclined ==
    ASSUME NEW cur, cur.ver \in Nat, NEW m, m.kind \in Kinds, m.base \in Nat, Judged(m), NEW s, NEW v,
           cur.ver = 0 \/ cur.ver > m.base
    PROVE  Apply(cur, m.kind, m.base, s, v).row = cur
<1>1. m.kind \in {"update", "delete"} /\ m.base > 0 /\ Policy = "reject-if-stale"
  BY DEF Judged, Kinds
<1>2. CASE cur.ver = 0
  <2>1. ~Stale(cur, m.base)
    BY <1>1, <1>2 DEF Stale
  <2> QED BY <1>1, <1>2, <2>1 DEF Apply, Ack
<1>3. CASE cur.ver > m.base /\ cur.ver > 0
  BY <1>1, <1>3 DEF Apply, Ack, Stale
<1> QED BY <1>2, <1>3

\* A later write is replaced only by a late mutation that is not judged.
LEMMA OvertakenStep ==
    ASSUME LateInv, Modes = {"optimistic"}, [Next]_vars, NEW e \in Entities, Overtaken(e)
    PROVE  \E req \in orphans \ orphans' :
             LET s == server'[e].val
             IN  s \in DOMAIN req.rows /\ req.rows[s].ent = e /\ ~Judged(req.rows[s])
<1>0. /\ VerInv /\ OrphansBehind /\ ServerInv /\ ServerShape /\ OrderInv
      /\ server[e].val \in Nat /\ server[e].ver \in Nat /\ server'[e] # server[e]
  <2>1. server'[e].val # server[e].val
    BY OrphanBasics DEF LateInv, Overtaken
  <2> QED BY <2>1, OrphanBasics DEF LateInv
<1>1. ASSUME NEW l \in Lanes, ServerApply(l) PROVE FALSE
  <2>1. lane[l].pc = "sent" /\ (UNCHANGED remote \/ Commit(Request(l)))
    BY <1>1, ServerApplyForm DEF ServerApply
  <2>2. Commit(Request(l))
    BY <1>0, <2>1 DEF remote
  <2>3. PICK s \in DOMAIN Request(l) : Request(l)[s].ent = e /\ server'[e].val = s
    BY <1>0, <2>1, <2>2, SentRows, CommitRows
  <2>4. s \in DOMAIN journal /\ journal[s].ent = e /\ journal[s].status = "sending" /\ s \in Nat
    BY <1>0, <2>1, <2>3, SentRows DEF OrderInv, Shape
  <2>5. server[e].val <= s
    BY <1>0, <2>4 DEF ServerInv, NothingOlder, Unresolved
  <2> QED BY <1>0, <2>3, <2>4, <2>5 DEF Overtaken
<1>2. ASSUME NEW f \in Entities, NEW k \in ForeignKinds, ForeignWrite(f, k) PROVE FALSE
  <2>1. server' = [server EXCEPT ![f] = [ver |-> IF k = "delete" THEN 0 ELSE clock + 1, val |-> Foreign]]
    BY <1>2 DEF ForeignWrite
  <2>2. server'[e].val = Foreign \/ server'[e] = server[e]
    BY <1>0, <2>1 DEF ServerShape
  <2> QED BY <1>0, <2>2 DEF Overtaken, Foreign
<1>3. ASSUME NEW f \in Entities, NEW k \in WriteKinds, NEW m \in Modes, Enqueue(f, k, m) PROVE FALSE
  BY <1>0, <1>3 DEF Enqueue, remote
<1>4. LateApply
  BY <1>0, <1>1, <1>2, <1>3, OtherSteps
<1>5. PICK req \in orphans : orphans' = orphans \ {req} /\ (UNCHANGED remote \/ Commit(req.rows))
  BY <1>4 DEF LateApply
<1>6. Commit(req.rows) /\ req \in orphans \ orphans'
  BY <1>0, <1>5 DEF remote
<1>7. PICK s \in DOMAIN req.rows :
        /\ req.rows[s].ent = e /\ server'[e].val = s
        /\ server'[e] = Apply(server[e], req.rows[s].kind, req.rows[s].base, s, clock + 1).row
  BY <1>0, <1>6, CommitRows DEF ServerInv, OrphanRows
<1>8. ~Judged(req.rows[s])
  <2> SUFFICES ASSUME Judged(req.rows[s]) PROVE FALSE
    OBVIOUS
  <2>1. server[e].ver = 0 \/ server[e].ver > req.rows[s].base
    BY <1>0, <1>6, <1>7 DEF OrphansBehind, Behind, Overtaken
  <2>2. req.rows[s].kind \in Kinds /\ req.rows[s].base \in Nat
    BY <1>0, <1>6, OrphanBasics DEF OrphansBehind, Behind
  <2>3. Apply(server[e], req.rows[s].kind, req.rows[s].base, s, clock + 1).row = server[e]
    BY <1>0, <2>1, <2>2, JudgedIsDeclined
  <2> QED BY <1>0, <1>7, <2>3
<1> QED BY <1>6, <1>7, <1>8

(***************************************************************************)
(* On a table without units: whatever is retried, lost, late, recovered or *)
(* discarded, the server replaces a later write of this client by an       *)
(* earlier one only for a request that arrives after its sender gave up,   *)
(* and only where that mutation carries nothing the policy could judge it  *)
(* by: a create, a write without a base, any write under last-write-wins.  *)
(* MutationJournalOvertake.cfg and MutationJournalLate.cfg show the two    *)
(* cases that remain.                                                      *)
(***************************************************************************)
THEOREM ServerTheorem == ASSUME Modes = {"optimistic"} PROVE Spec => ServerAuthorOrder
<1> DEFINE InOrder == \A e \in Entities : Overtaken(e) =>
             \E req \in orphans \ orphans' :
               LET s == server'[e].val
               IN  s \in DOMAIN req.rows /\ req.rows[s].ent = e /\ ~Judged(req.rows[s])
<1>1. Init => LateInv
  <2>1. Init => orphans = {}
    BY DEF Init
  <2> QED BY <2>1, VerInit DEF LateInv, OrphansBehind
<1>2. LateInv /\ [Next]_vars => LateInv'
  BY VerStep, OrphansBehindStep DEF LateInv
<1>3. LateInv /\ [Next]_vars => InOrder
  BY OvertakenStep
<1> QED BY <1>1, <1>2, <1>3, PTL DEF Spec, ServerAuthorOrder

-----------------------------------------------------------------------------
(***************************************************************************)
(* The chain of an entity's own writes (ADR-0015), for a table whose       *)
(* writes are all optimistic and as long as every answer arrives: when the *)
(* server's row is this client's write w at version v, then the client is  *)
(* being told so, or knows it from the acked row, or has synced it.  A     *)
(* base older than the row it is checked against therefore means that      *)
(* another actor wrote the row.                                            *)
(***************************************************************************)
AckingAt(e, w, v) ==
    /\ w \in DOMAIN lane["batch"].batch
    /\ lane["batch"].pc = "replied" /\ lane["batch"].reply.kind = "acks"
    /\ lane["batch"].reply.acks[w].st = "acked" /\ lane["batch"].reply.acks[w].ver = v
    /\ journal[w].ent = e /\ journal[w].kind # "delete"
AckedAt(e, w, v) ==
    /\ w \in DOMAIN journal /\ journal[w].ent = e /\ journal[w].kind # "delete"
    /\ journal[w].status = "acked" /\ journal[w].ver = v
NoneAcked(e) == \A t \in DOMAIN journal :
    journal[t].ent = e /\ journal[t].status = "acked" => journal[t].ver = 0
ConvergedAt(e, w, v) == w \notin DOMAIN journal /\ synced[e].ver = v /\ NoneAcked(e)

Own(r) == r.val # Foreign /\ r.ver > 0
Accounted == \A e \in Entities : Own(server[e]) =>
    \/ AckingAt(e, server[e].val, server[e].ver)
    \/ AckedAt(e, server[e].val, server[e].ver)
    \/ ConvergedAt(e, server[e].val, server[e].ver)

\* Mutation s, based on version base, is not made stale by row r's own writer.
Fresh(r, s, base) == base > 0 /\ r.ver > base => r.val \in {Foreign, s}

BaseFresh == \A s \in DOMAIN journal :
    journal[s].status \in Unresolved => Fresh(server[journal[s].ent], s, journal[s].base)
BaseFirst == \A s \in DOMAIN journal :
    journal[s].status \in Unresolved /\ journal[s].base > 0 => First(s)
LaneFresh == \A s \in DOMAIN lane["batch"].batch :
    Fresh(server[journal[s].ent], s, lane["batch"].batch[s])

\* Answer a to mutation s, when the row has become r.
OwnAnswer(a, r, kind, s) ==
    /\ a.st = "acked" /\ a.ver > 0 => r.val \in {Foreign, s} /\ kind # "delete"
    /\ a.st = "conflicted" /\ a.ver > 0 => a.who = Foreign
LaneAnswers == lane["batch"].reply.kind = "acks" =>
    /\ lane["batch"].pc = "replied"
    /\ \A s \in DOMAIN lane["batch"].batch :
         OwnAnswer(lane["batch"].reply.acks[s], server[journal[s].ent], journal[s].kind, s)

ChainFacts == Accounted /\ BaseFresh /\ BaseFirst /\ LaneFresh /\ LaneAnswers
ChainInv == VerInv /\ faults \in Nat /\ (faults = 0 => ChainFacts /\ orphans = {})

\* What a chain step starts from.
LEMMA ChainBasics ==
    ASSUME VerInv
    PROVE  /\ OverlayInv /\ ServerInv /\ FeedInv /\ OrderInv /\ LaneVers /\ JournalVers
           /\ issued \in Nat /\ clock \in Nat
           /\ \A s \in DOMAIN journal : s \in 1 .. issued /\ s \in Nat /\ journal[s].ent \in Entities
           /\ \A e \in Entities : /\ server[e].ver \in Nat /\ synced[e].ver \in Nat
                                  /\ server[e].val \in 0 .. issued
                                  /\ Leads(feed[e], synced[e].ver, server[e].ver, clock)
           /\ \A s \in DOMAIN lane["batch"].batch : s \in DOMAIN journal
           /\ "acked" \notin Unresolved /\ "conflicted" \notin Unresolved /\ "batch" \in Lanes
<1>1. OverlayInv /\ ServerInv /\ FeedInv /\ OrderInv /\ ServerShape /\ JournalVers /\ LaneVers
  BY DEF VerInv, OverlayInv, ServerInv
<1>2. /\ issued \in Nat /\ clock \in Nat
      /\ \A s \in DOMAIN journal : s \in 1 .. issued /\ s \in Nat /\ journal[s].ent \in Entities
  BY <1>1 DEF FeedInv, OrderInv, Shape, IsRow
<1>3. \A e \in Entities : /\ server[e].ver \in Nat /\ synced[e].ver \in Nat
                          /\ server[e].val \in 0 .. issued
                          /\ Leads(feed[e], synced[e].ver, server[e].ver, clock)
  BY <1>1 DEF FeedInv, VRow, ServerShape
<1>4. \A s \in DOMAIN lane["batch"].batch : s \in DOMAIN journal
  BY <1>1 DEF OrderInv, LaneRows, LaneRow, Lanes
<1> QED BY <1>1, <1>2, <1>3, <1>4 DEF Unresolved, Lanes

\* A step that drops resolved rows and tells nothing new.
LEMMA ClearsChain ==
    ASSUME VerInv, ServerInv', ChainFacts, Clears, server' = server,
           \/ lane'["batch"] = lane["batch"]
           \/ lane["batch"].pc # "replied" /\ Emptied(lane'["batch"]),
           \A e \in Entities : server[e].ver > 0 =>
             /\ \A w \in DOMAIN journal \ DOMAIN journal' : AckedAt(e, w, server[e].ver) =>
                  /\ synced'[e].ver = server[e].ver
                  /\ \A t \in DOMAIN journal' :
                       journal[t].ent = e /\ journal[t].status = "acked" => journal[t].ver = 0
             /\ synced[e].ver = server[e].ver => synced'[e].ver = synced[e].ver
    PROVE  ChainFacts'
<1>0. /\ DOMAIN journal' \subseteq DOMAIN journal /\ \A s \in DOMAIN journal' : journal'[s] = journal[s]
  BY DEF Clears
<1>1. \A s \in DOMAIN lane'["batch"].batch :
        s \in DOMAIN journal' /\ lane'["batch"] = lane["batch"] /\ journal'[s] = journal[s]
  BY <1>0 DEF ServerInv, OrderInv, LaneRows, LaneRow, Lanes, Emptied
<1>2. Accounted'
  <2> SUFFICES ASSUME NEW e \in Entities, Own(server[e]), NEW w, w = server[e].val, NEW v, v = server[e].ver
               PROVE  AckingAt(e, w, v)' \/ AckedAt(e, w, v)' \/ ConvergedAt(e, w, v)'
    BY DEF Accounted
  <2>0. v > 0
    BY DEF Own
  <2>1. CASE AckingAt(e, w, v)
    BY <1>1, <2>1 DEF AckingAt, ServerInv, OrderInv, LaneRows, LaneRow, Lanes, Emptied
  <2>2. CASE AckedAt(e, w, v)
    <3>1. CASE w \in DOMAIN journal'
      BY <1>0, <2>2, <3>1 DEF AckedAt
    <3>2. CASE w \notin DOMAIN journal'
      <4>1. w \in DOMAIN journal \ DOMAIN journal'
        BY <2>2, <3>2 DEF AckedAt
      <4>2. /\ synced'[e].ver = v
            /\ \A t \in DOMAIN journal' :
                 journal[t].ent = e /\ journal[t].status = "acked" => journal[t].ver = 0
        BY <2>0, <2>2, <4>1
      <4> QED BY <1>0, <3>2, <4>2 DEF ConvergedAt, NoneAcked
    <3> QED BY <3>1, <3>2
  <2>3. CASE ConvergedAt(e, w, v)
    <3>1. synced'[e].ver = v
      BY <2>0, <2>3 DEF ConvergedAt
    <3> QED BY <1>0, <2>3, <3>1 DEF ConvergedAt, NoneAcked
  <2> QED BY <2>1, <2>2, <2>3 DEF ChainFacts, Accounted
<1>3. BaseFresh'
  BY <1>0 DEF ChainFacts, BaseFresh
<1>4. BaseFirst'
  BY <1>0 DEF ChainFacts, BaseFirst, First
<1>5. LaneFresh'
  BY <1>1 DEF ChainFacts, LaneFresh
<1>6. LaneAnswers'
  <2>1. CASE lane'["batch"] = lane["batch"]
    BY <1>1, <2>1 DEF ChainFacts, LaneAnswers
  <2>2. CASE Emptied(lane'["batch"])
    BY <2>2 DEF Emptied, LaneAnswers
  <2> QED BY <2>1, <2>2
<1> QED BY <1>2, <1>3, <1>4, <1>5, <1>6 DEF ChainFacts

\* The trigger and reconcileTable drop an acked write only when its version
\* has been synced, and then every acked write of the entity with it.
LEMMA TriggerDrops ==
    ASSUME NEW j, NEW e, NEW ver
    PROVE  LET k == TriggerJournal(j, e, ver)
           IN  /\ \A s \in DOMAIN j \ DOMAIN k :
                    j[s].ent = e /\ (j[s].status = "acked" /\ j[s].kind # "delete" =>
                                       ver # 0 /\ Barrier(j[s], ver))
               /\ \A s \in DOMAIN k : k[s] = j[s] /\ s \in DOMAIN j
               /\ ver # 0 => ~ \E s \in DOMAIN k : /\ k[s].ent = e /\ k[s].status = "acked" /\ k[s].kind # "delete"
                                                   /\ k[s].ver > 0 /\ Barrier(k[s], ver)
<1> DEFINE kept == Drop(j, Superseded(j, e))
           gone == {s \in WithStatus(kept, e, {"acked"}) :
                      IF ver = 0 THEN kept[s].kind = "delete"
                      ELSE kept[s].kind # "delete" /\ kept[s].ver > 0 /\ Barrier(kept[s], ver)}
<1>1. /\ DOMAIN kept = DOMAIN j \ Superseded(j, e) /\ \A s \in DOMAIN kept : kept[s] = j[s]
      /\ \A s \in Superseded(j, e) : j[s].ent = e /\ j[s].status = "conflicted"
  BY DEF Drop, Restrict, Superseded, WithStatus, RowsOf
<1>2. \A s : s \in gone <=>
        /\ s \in DOMAIN kept /\ kept[s].ent = e /\ kept[s].status = "acked"
        /\ IF ver = 0 THEN kept[s].kind = "delete"
           ELSE kept[s].kind # "delete" /\ kept[s].ver > 0 /\ Barrier(kept[s], ver)
  BY DEF WithStatus, RowsOf
<1>3. /\ DOMAIN TriggerJournal(j, e, ver) = DOMAIN kept \ gone
      /\ \A s \in DOMAIN kept \ gone : TriggerJournal(j, e, ver)[s] = kept[s]
  BY DEF Drop, Restrict, TriggerJournal
<1> HIDE DEF kept, gone
<1> QED BY <1>1, <1>2, <1>3

LEMMA EchoChain ==
    ASSUME VerInv, ServerInv', ChainFacts, NEW e \in Entities, Echo(e)
    PROVE  ChainFacts'
<1>0. /\ FeedInv /\ clock \in Nat
      /\ \A f \in Entities : /\ server[f].ver \in Nat /\ synced[f].ver \in Nat
                             /\ Leads(feed[f], synced[f].ver, server[f].ver, clock)
      /\ \A s \in DOMAIN journal : journal[s].ent \in Entities
  BY ChainBasics
<1>1. /\ server' = server /\ Len(feed[e]) > 0
      /\ \A f \in Entities : f # e => synced'[f] = synced[f]
      /\ \E i \in 1 .. Len(feed[e]) : synced'[e] = feed[e][i]
  BY <1>0, EchoFeed
<1>2. Clears /\ lane' = lane
  BY EchoClears DEF Echo
<1>3. PICK n \in 1 .. Len(feed[e]) :
        LET run == SubSeq(feed[e], 1, n)
            net == run[n]
            deletes == \E i \in 1 .. n : run[i].ver = 0
            j1 == IF deletes /\ synced[e].ver > 0 THEN TriggerJournal(journal, e, 0) ELSE journal
        IN  /\ journal' = IF net.ver > 0 THEN TriggerJournal(j1, e, net.ver) ELSE j1
            /\ synced' = [synced EXCEPT ![e] = net]
  BY DEF Echo
<1> DEFINE net == SubSeq(feed[e], 1, n)[n]
           first == (\E i \in 1 .. n : SubSeq(feed[e], 1, n)[i].ver = 0) /\ synced[e].ver > 0
           j1 == IF first THEN TriggerJournal(journal, e, 0) ELSE journal
<1>4. /\ journal' = IF net.ver > 0 THEN TriggerJournal(j1, e, net.ver) ELSE j1
      /\ synced'[e] = net
  BY <1>3, <1>0 DEF FeedInv
<1> HIDE DEF net, first
<1>5. /\ \A s \in DOMAIN journal \ DOMAIN j1 :
           journal[s].ent = e /\ (journal[s].status = "acked" => journal[s].kind = "delete")
      /\ \A s \in DOMAIN j1 : j1[s] = journal[s] /\ s \in DOMAIN journal
  BY TriggerDrops
<1> HIDE DEF j1
<1>6. /\ \A s \in DOMAIN j1 \ DOMAIN journal' :
           j1[s].ent = e /\ (j1[s].status = "acked" /\ j1[s].kind # "delete" =>
                               net.ver > 0 /\ Barrier(j1[s], net.ver))
      /\ \A s \in DOMAIN journal' : journal'[s] = j1[s] /\ s \in DOMAIN j1
      /\ net.ver > 0 => ~ \E s \in DOMAIN journal' :
            /\ journal'[s].ent = e /\ journal'[s].status = "acked" /\ journal'[s].kind # "delete"
            /\ journal'[s].ver > 0 /\ Barrier(journal'[s], net.ver)
  BY <1>4, TriggerDrops
<1>7. ASSUME NEW f \in Entities, server[f].ver > 0, synced[f].ver = server[f].ver
      PROVE  synced'[f].ver = synced[f].ver
  <2>1. f # e
    BY <1>0, <1>1, <1>7, LeadsBound
  <2> QED BY <1>1, <2>1
<1>8. ASSUME NEW f \in Entities, server[f].ver > 0, NEW w \in DOMAIN journal \ DOMAIN journal',
             AckedAt(f, w, server[f].ver)
      PROVE  /\ synced'[f].ver = server[f].ver
             /\ \A t \in DOMAIN journal' :
                  journal[t].ent = f /\ journal[t].status = "acked" => journal[t].ver = 0
  <2>1. /\ f = e /\ w \in DOMAIN j1 /\ net.ver > 0 /\ server[e].ver <= net.ver
    BY <1>5, <1>6, <1>8 DEF AckedAt, Barrier
  <2>2. net.ver <= server[e].ver /\ net.ver \in Nat
    <3>1. \A i \in 1 .. Len(feed[e]) : feed[e][i].ver <= server[e].ver /\ feed[e][i].ver \in Nat
      <4>1. \A i \in 1 .. Len(feed[e]) : feed[e][i] \in VRow
        BY <1>0 DEF Leads
      <4> QED BY <1>0, <1>8, <2>1, <4>1, LeadsBound DEF VRow
    <3> QED BY <1>1, <1>4, <3>1
  <2>3. net.ver = server[e].ver
    BY <1>0, <2>1, <2>2
  <2>4. ASSUME NEW t \in DOMAIN journal', journal[t].ent = e, journal[t].status = "acked", journal[t].ver # 0
        PROVE  FALSE
    <3>1. t \in DOMAIN journal /\ journal'[t] = journal[t]
      BY <1>5, <1>6
    <3>2. journal[t].kind # "delete" /\ journal[t].ver > 0 /\ journal[t].ver <= server[e].ver
      BY <1>0, <1>8, <2>1, <2>4, <3>1 DEF VerInv, JournalVers, RowAt, Known
    <3> QED BY <1>6, <2>1, <2>3, <2>4, <3>1, <3>2 DEF Barrier
  <2> QED BY <1>4, <2>1, <2>3, <2>4
<1> QED BY <1>1, <1>2, <1>7, <1>8, ClearsChain

LEMMA ReconcileChain ==
    ASSUME VerInv, ServerInv', ChainFacts, Modes = {"optimistic"}, ReconcileTable,
           server' = server, synced' = synced,
           \/ lane'["batch"] = lane["batch"]
           \/ lane["batch"].pc # "replied" /\ Emptied(lane'["batch"])
    PROVE  ChainFacts'
<1>0. /\ \A f \in Entities : /\ server[f].ver \in Nat /\ synced[f].ver \in Nat
                             /\ Leads(feed[f], synced[f].ver, server[f].ver, clock)
      /\ clock \in Nat /\ \A s \in DOMAIN journal : journal[s].ent \in Entities
  BY ChainBasics
<1> DEFINE j0 == RetireConflicts(journal)
           j1 == RetireBlind(j0)
           j2 == Drop(j1, UNION {Landed(j1, e) : e \in Entities})
           j3 == Drop(j2, UNION {DeletesDone(j2, e) : e \in Entities})
<1>1. journal' = j3
  BY DEF ReconcileTable
<1>2. /\ \A s \in DOMAIN journal \ DOMAIN j0 : journal[s].status = "conflicted"
      /\ \A s \in DOMAIN j0 : j0[s] = journal[s] /\ s \in DOMAIN journal
  BY DEF Drop, Restrict, RetireConflicts, Superseded, WithStatus
<1>3. /\ \A s \in DOMAIN j1 : j1[s] = j0[s] /\ s \in DOMAIN j0
      /\ \A s \in DOMAIN j0 \ DOMAIN j1 : j0[s].mode = "blind"
  <2> HIDE DEF j0
  <2> QED BY DEF RetireBlind, Drop, Restrict
<1>4. /\ DOMAIN j2 = DOMAIN j1 \ UNION {Landed(j1, e) : e \in Entities}
      /\ \A s \in DOMAIN j2 : j2[s] = j1[s]
  BY DEF Drop, Restrict
<1>5. /\ \A s \in DOMAIN j3 : j3[s] = j2[s] /\ s \in DOMAIN j2
      /\ \A s \in DOMAIN j2 \ DOMAIN j3 : j2[s].kind = "delete"
  <2> HIDE DEF j2
  <2> QED BY DEF Drop, Restrict, DeletesDone
<1>6. \A e \in Entities : \A s : s \in Landed(j1, e) <=>
        /\ s \in DOMAIN j1 /\ j1[s].ent = e /\ j1[s].status = "acked" /\ j1[s].kind # "delete"
        /\ j1[s].ver > 0 /\ synced[e].ver > 0 /\ Barrier(j1[s], synced[e].ver)
  BY DEF Landed, WithStatus, RowsOf
<1>7. \A s \in DOMAIN journal : journal[s].mode # "blind"
  BY DEF VerInv, OverlayInv, ServerInv, OrderInv, Shape, IsRow
<1>8. Clears
  BY ReconcileClears
<1> HIDE DEF j0, j1, j2, j3
<1>9. ASSUME NEW f \in Entities, server[f].ver > 0, NEW w \in DOMAIN journal \ DOMAIN journal',
             AckedAt(f, w, server[f].ver)
      PROVE  /\ synced'[f].ver = server[f].ver
             /\ \A t \in DOMAIN journal' :
                  journal[t].ent = f /\ journal[t].status = "acked" => journal[t].ver = 0
  <2>1. /\ w \in DOMAIN journal /\ journal[w].ent = f /\ journal[w].kind # "delete"
        /\ journal[w].status = "acked" /\ journal[w].ver = server[f].ver
    BY <1>9 DEF AckedAt
  <2>2. w \in DOMAIN j1 /\ j1[w] = journal[w]
    BY <1>2, <1>3, <1>7, <2>1
  <2>3. w \notin DOMAIN j2
    BY <1>1, <1>4, <1>5, <1>9, <2>1, <2>2
  <2>4. PICK e \in Entities : w \in Landed(j1, e)
    BY <1>4, <2>2, <2>3
  <2>5. e = f /\ server[f].ver <= synced[f].ver /\ synced[f].ver > 0
    BY <1>6, <2>1, <2>2, <2>4 DEF Barrier
  <2>6. synced[f].ver = server[f].ver
    BY <1>0, <1>9, <2>5, LeadsBound
  <2>7. ASSUME NEW t \in DOMAIN journal', journal[t].ent = f, journal[t].status = "acked", journal[t].ver # 0
        PROVE  FALSE
    <3>1. t \in DOMAIN j2 /\ t \in DOMAIN j1 /\ t \in DOMAIN journal /\ j1[t] = journal[t]
      BY <1>1, <1>2, <1>3, <1>4, <1>5
    <3>2. journal[t].kind # "delete" /\ journal[t].ver > 0 /\ journal[t].ver <= server[f].ver
      BY <1>9, <2>7, <3>1 DEF VerInv, JournalVers, RowAt, Known
    <3>3. t \in Landed(j1, f)
      BY <1>6, <2>5, <2>6, <2>7, <3>1, <3>2 DEF Barrier
    <3> QED BY <1>4, <3>1, <3>3
  <2> QED BY <2>6, <2>7
<1> QED BY <1>8, <1>9, ClearsChain

\* A step that keeps resolved rows as they are and rebases owed ones on what
\* the batch holds.
LEMMA RemarksChain ==
    ASSUME VerInv, ChainFacts, server' = server, synced' = synced, DOMAIN journal' = DOMAIN journal,
           \A s \in DOMAIN journal :
             \/ journal'[s] = journal[s]
             \/ /\ journal[s].status \in Unresolved /\ journal'[s].status \in Unresolved
                /\ journal'[s].ent = journal[s].ent /\ journal'[s].kind = journal[s].kind
                /\ \/ journal'[s].base = journal[s].base
                   \/ s \in DOMAIN lane["batch"].batch /\ journal'[s].base = lane["batch"].batch[s],
           lane'["batch"].batch = lane["batch"].batch, lane'["batch"].reply = lane["batch"].reply,
           lane'["batch"].pc = lane["batch"].pc \/ (lane["batch"].pc # "replied" /\ lane'["batch"].pc # "replied")
    PROVE  ChainFacts'
<1>0. /\ OrderInv /\ \A s \in DOMAIN lane["batch"].batch : s \in DOMAIN journal
      /\ "acked" \notin Unresolved
  BY ChainBasics
<1>1. \A s \in DOMAIN journal : /\ journal'[s].ent = journal[s].ent /\ journal'[s].kind = journal[s].kind
                                /\ journal'[s].status \in Unresolved <=> journal[s].status \in Unresolved
                                /\ journal[s].status \notin Unresolved => journal'[s] = journal[s]
  OBVIOUS
<1>2. Accounted'
  <2> SUFFICES ASSUME NEW e \in Entities, Own(server[e]), NEW w, w = server[e].val, NEW v, v = server[e].ver
               PROVE  AckingAt(e, w, v)' \/ AckedAt(e, w, v)' \/ ConvergedAt(e, w, v)'
    BY DEF Accounted
  <2>1. CASE AckingAt(e, w, v)
    BY <1>0, <1>1, <2>1 DEF AckingAt
  <2>2. CASE AckedAt(e, w, v)
    BY <1>0, <1>1, <2>2 DEF AckedAt
  <2>3. CASE ConvergedAt(e, w, v)
    <3>1. \A t \in DOMAIN journal : journal'[t].status = "acked" => journal'[t] = journal[t]
      BY <1>0, <1>1
    <3> QED BY <1>1, <2>3, <3>1 DEF ConvergedAt, NoneAcked
  <2> QED BY <2>1, <2>2, <2>3 DEF ChainFacts, Accounted
<1>3. ASSUME NEW s \in DOMAIN journal, First(s) PROVE First(s)'
  BY <1>1, <1>3 DEF First
<1>4. BaseFresh'
  <2> SUFFICES ASSUME NEW s \in DOMAIN journal, journal'[s].status \in Unresolved
               PROVE  Fresh(server[journal[s].ent], s, journal'[s].base)
    BY <1>1 DEF BaseFresh
  <2>1. CASE journal'[s].base = journal[s].base
    BY <1>1, <2>1 DEF ChainFacts, BaseFresh
  <2>2. CASE s \in DOMAIN lane["batch"].batch /\ journal'[s].base = lane["batch"].batch[s]
    BY <2>2 DEF ChainFacts, LaneFresh
  <2> QED BY <2>1, <2>2
<1>5. BaseFirst'
  <2> SUFFICES ASSUME NEW s \in DOMAIN journal, journal'[s].status \in Unresolved, journal'[s].base > 0
               PROVE  First(s)
    BY <1>3 DEF BaseFirst
  <2>1. CASE s \in DOMAIN lane["batch"].batch
    BY <1>0, <2>1 DEF OrderInv, BatchFirst
  <2>2. CASE journal'[s].base = journal[s].base
    BY <1>1, <2>2 DEF ChainFacts, BaseFirst
  <2> QED BY <2>1, <2>2
<1>6. LaneFresh'
  BY <1>0, <1>1 DEF ChainFacts, LaneFresh
<1>7. LaneAnswers'
  BY <1>0, <1>1 DEF ChainFacts, LaneAnswers
<1> QED BY <1>2, <1>4, <1>5, <1>6, <1>7 DEF ChainFacts

LEMMA EnqueueChain ==
    ASSUME VerInv, ChainFacts, NEW e \in Entities, NEW k \in WriteKinds, NEW m \in Modes, Enqueue(e, k, m)
    PROVE  ChainFacts'
<1> DEFINE n == issued + 1
<1>0. /\ ServerInv /\ \A s \in DOMAIN lane["batch"].batch : s \in DOMAIN journal
      /\ "acked" \notin Unresolved /\ issued \in Nat /\ "pending" # "acked"
      /\ \A f \in Entities : server[f].val \in 0 .. issued /\ server[f].ver \in Nat /\ synced[f].ver \in Nat
  BY ChainBasics
<1>1. /\ DOMAIN journal' = DOMAIN journal \cup {n}
      /\ \A s \in DOMAIN journal : s \in 1 .. issued /\ journal'[s] = journal[s]
      /\ journal'[n].ent = e /\ journal'[n].status = "pending"
      /\ \/ journal'[n].base = 0
         \/ journal'[n].base = synced[e].ver /\ \A s \in DOMAIN journal : journal[s].ent # e
      /\ UNCHANGED <<server, clock, synced, feed, lane, faults>>
  BY <1>0, EnqueueRows
<1>2. /\ n \in Nat /\ n \notin 0 .. issued /\ n \notin DOMAIN journal
      /\ \A s \in DOMAIN journal : s \in Nat /\ s < n
  BY <1>0, <1>1
<1> HIDE DEF n
<1>3. Accounted'
  <2> SUFFICES ASSUME NEW f \in Entities, Own(server[f]), NEW w, w = server[f].val, NEW v, v = server[f].ver
               PROVE  AckingAt(f, w, v)' \/ AckedAt(f, w, v)' \/ ConvergedAt(f, w, v)'
    BY <1>1 DEF Accounted
  <2>1. CASE AckingAt(f, w, v)
    BY <1>0, <1>1, <2>1 DEF AckingAt
  <2>2. CASE AckedAt(f, w, v)
    BY <1>1, <2>2 DEF AckedAt
  <2>3. CASE ConvergedAt(f, w, v)
    BY <1>0, <1>1, <1>2, <2>3 DEF ConvergedAt, NoneAcked
  <2> QED BY <2>1, <2>2, <2>3 DEF ChainFacts, Accounted
<1>4. Fresh(server[e], n, journal'[n].base)
  <2> SUFFICES ASSUME journal'[n].base > 0, server[e].ver > journal'[n].base, server[e].val # Foreign
               PROVE  FALSE
    BY DEF Fresh
  <2>1. /\ \A s \in DOMAIN journal : journal[s].ent # e
        /\ journal'[n].base = synced[e].ver
    BY <1>1
  <2>2. Own(server[e])
    BY <1>0, <2>1 DEF Own
  <2>3. synced[e].ver = server[e].ver
    BY <1>0, <2>1, <2>2 DEF ChainFacts, Accounted, AckingAt, AckedAt, ConvergedAt
  <2> QED BY <1>0, <2>1, <2>3
<1>5. BaseFresh'
  <2> SUFFICES ASSUME NEW s \in DOMAIN journal', journal'[s].status \in Unresolved
               PROVE  Fresh(server[journal'[s].ent], s, journal'[s].base)
    BY <1>1 DEF BaseFresh
  <2>1. CASE s = n
    BY <1>1, <1>4, <2>1
  <2>2. CASE s \in DOMAIN journal
    BY <1>1, <2>2 DEF ChainFacts, BaseFresh
  <2> QED BY <1>1, <2>1, <2>2
<1>6. ASSUME NEW s \in DOMAIN journal, First(s), NEW t \in DOMAIN journal', journal'[t].ent = journal'[s].ent, t < s
      PROVE  journal'[t].status \notin Unresolved
  <2>1. t # n
    BY <1>2, <1>6
  <2>2. t \in DOMAIN journal /\ journal'[t] = journal[t] /\ journal'[s] = journal[s]
    BY <1>1, <2>1
  <2> QED BY <1>6, <2>2 DEF First
<1>7. ASSUME journal'[n].base > 0, NEW t \in DOMAIN journal', journal'[t].ent = e, t < n
      PROVE  FALSE
  <2>1. t \in DOMAIN journal /\ journal'[t] = journal[t]
    BY <1>1, <1>2, <1>7
  <2>2. journal'[n].base # 0
    BY <1>7
  <2> QED BY <1>1, <1>7, <2>1, <2>2
<1>8. BaseFirst'
  <2> SUFFICES ASSUME NEW s \in DOMAIN journal', journal'[s].status \in Unresolved, journal'[s].base > 0
               PROVE  First(s)'
    BY DEF BaseFirst
  <2>1. CASE s = n
    BY <1>1, <1>7, <2>1 DEF First
  <2>2. CASE s \in DOMAIN journal
    <3>1. journal'[s] = journal[s]
      BY <1>1, <2>2
    <3>2. First(s)
      BY <2>2, <3>1 DEF ChainFacts, BaseFirst
    <3> QED BY <1>6, <2>2, <3>2 DEF First
  <2> QED BY <1>1, <2>1, <2>2
<1>9. LaneFresh' /\ LaneAnswers'
  BY <1>0, <1>1 DEF ChainFacts, LaneFresh, LaneAnswers
<1> QED BY <1>3, <1>5, <1>8, <1>9 DEF ChainFacts

LEMMA ForeignChain ==
    ASSUME VerInv, ChainFacts, NEW e \in Entities, NEW k \in ForeignKinds, ForeignWrite(e, k)
    PROVE  ChainFacts'
<1>0. /\ FeedInv /\ \A s \in DOMAIN lane["batch"].batch : s \in DOMAIN journal
      /\ \A s \in DOMAIN journal : journal[s].ent \in Entities
  BY ChainBasics
<1>1. /\ UNCHANGED <<journal, synced, lane>>
      /\ server'[e].val = Foreign /\ \A f \in Entities : f # e => server'[f] = server[f]
  BY <1>0 DEF ForeignWrite, local, FeedInv
<1>2. Accounted'
  <2> SUFFICES ASSUME NEW f \in Entities, f # e, Own(server[f]), NEW w, w = server[f].val, NEW v, v = server[f].ver
               PROVE  AckingAt(f, w, v)' \/ AckedAt(f, w, v)' \/ ConvergedAt(f, w, v)'
    BY <1>1 DEF Accounted, Own
  <2>1. AckingAt(f, w, v) \/ AckedAt(f, w, v) \/ ConvergedAt(f, w, v)
    BY DEF ChainFacts, Accounted
  <2> QED BY <1>1, <2>1 DEF AckingAt, AckedAt, ConvergedAt, NoneAcked
<1>3. BaseFresh'
  BY <1>0, <1>1 DEF ChainFacts, BaseFresh, Fresh
<1>4. BaseFirst'
  BY <1>1 DEF ChainFacts, BaseFirst, First
<1>5. LaneFresh'
  BY <1>0, <1>1 DEF ChainFacts, LaneFresh, Fresh
<1>6. LaneAnswers'
  BY <1>0, <1>1 DEF ChainFacts, LaneAnswers, OwnAnswer
<1> QED BY <1>2, <1>3, <1>4, <1>5, <1>6 DEF ChainFacts

\* A request that failed: nothing was applied, and nothing is answered.
LEMMA RefusedChain ==
    ASSUME VerInv, ChainFacts, UNCHANGED <<server, synced, journal>>,
           lane["batch"].pc # "replied", lane'["batch"].batch = lane["batch"].batch,
           lane'["batch"].reply.kind # "acks"
    PROVE  ChainFacts'
<1>1. Accounted'
  BY DEF ChainFacts, Accounted, AckingAt, AckedAt, ConvergedAt, NoneAcked
<1>2. BaseFresh' /\ BaseFirst'
  BY DEF ChainFacts, BaseFresh, BaseFirst, First
<1>3. LaneFresh' /\ LaneAnswers'
  BY DEF ChainFacts, LaneFresh, LaneAnswers
<1> QED BY <1>1, <1>2, <1>3 DEF ChainFacts

\* Steps that leave the batch lane and the journal alone.
LEMMA QuietChain ==
    ASSUME VerInv, ChainFacts, UNCHANGED <<server, synced, journal>>, lane'["batch"] = lane["batch"]
    PROVE  ChainFacts'
  BY RemarksChain

LEMMA DiscardChain ==
    ASSUME VerInv, ServerInv', ChainFacts,
           NEW e \in Entities, NEW st \in {"conflicted", "quarantined"}, Discard(e, st)
    PROVE  ChainFacts'
<1>1. /\ Clears /\ server' = server /\ synced' = synced /\ lane' = lane
      /\ journal' = Drop(journal, TerminalRows(e, st))
  BY DiscardClears DEF Discard, remote
<1>2. \A w \in DOMAIN journal \ DOMAIN journal' : journal[w].status # "acked"
  BY <1>1 DEF Drop, Restrict, TerminalRows, WithStatus, RowsOf
<1> QED BY <1>1, <1>2, ClearsChain DEF AckedAt

LEMMA MarkSendingChain ==
    ASSUME VerInv, ChainFacts, Modes = {"optimistic"}, NEW l \in Lanes, MarkSending(l)
    PROVE  ChainFacts'
<1>0. ServerInv /\ LaneShape
  BY DEF VerInv, OverlayInv, ServerInv, OrderInv, Shape
<1>1. /\ UNCHANGED <<server, synced>> /\ lane' = [lane EXCEPT ![l].pc = "sent"] /\ lane[l].pc = "read"
  BY DEF MarkSending, remote
<1>2. CASE l = "batch"
  <2>1. /\ lane'["batch"].batch = lane["batch"].batch /\ lane'["batch"].reply = lane["batch"].reply
        /\ lane'["batch"].pc = "sent" /\ lane["batch"].pc = "read"
    BY <1>0, <1>1, <1>2 DEF LaneShape, IsLane, Lanes
  <2>2. /\ DOMAIN journal' = DOMAIN journal
        /\ \A s \in DOMAIN journal :
             \/ journal'[s] = journal[s]
             \/ /\ journal[s].status \in Unresolved /\ journal'[s].status \in Unresolved
                /\ journal'[s].ent = journal[s].ent /\ journal'[s].kind = journal[s].kind
                /\ s \in DOMAIN lane["batch"].batch /\ journal'[s].base = lane["batch"].batch[s]
    BY <1>0, <1>2, MarkSendingRows DEF Unresolved
  <2> QED BY <1>1, <2>1, <2>2, RemarksChain
<1>3. CASE l = "unit"
  <2>1. lane'["batch"] = lane["batch"]
    BY <1>0, <1>1, <1>3 DEF LaneShape, Lanes
  <2>2. /\ DOMAIN journal' = DOMAIN journal /\ \A s \in DOMAIN journal : journal'[s] = journal[s]
    BY <1>0, <1>3, MarkSendingRows
  <2> QED BY <1>1, <2>1, <2>2, RemarksChain
<1> QED BY <1>2, <1>3 DEF Lanes

\* The answers become the rows' own.
LEMMA SettleChain ==
    ASSUME VerInv, ChainFacts, Modes = {"optimistic"}, NEW l \in Lanes, Settle(l)
    PROVE  ChainFacts'
<1>0. /\ OverlayInv /\ OrderInv /\ LaneShape /\ JournalVers /\ "acked" \notin Unresolved
      /\ {"conflicted"} \cap Unresolved = {} /\ {"sending", "failed", "quarantined"} \subseteq Unresolved
      /\ \A s \in DOMAIN lane["batch"].batch : s \in DOMAIN journal /\ First(s)
  BY ChainBasics DEF OrderInv, Shape, Unresolved, BatchFirst
<1>1. /\ UNCHANGED <<server, synced>> /\ DOMAIN journal' = DOMAIN journal
      /\ lane' = [lane EXCEPT ![l] = AfterSettle(l)] /\ lane[l].pc = "replied"
  BY DEF Settle, remote
<1>2. CASE l = "unit"
  <2>1. lane'["batch"] = lane["batch"]
    BY <1>0, <1>1, <1>2 DEF LaneShape, Lanes
  <2>2. \A s \in DOMAIN journal : journal'[s] = journal[s]
    BY <1>0, <1>2, SettleRows
  <2> QED BY <1>1, <2>1, <2>2, RemarksChain
<1>3. CASE l = "batch"
  <2> DEFINE B == DOMAIN lane["batch"].batch
             acks == lane["batch"].reply.kind = "acks"
             a(s) == lane["batch"].reply.acks[s]
  <2>1. /\ DOMAIN lane'["batch"].batch = {} /\ lane'["batch"].reply.kind # "acks"
        /\ lane["batch"].pc = "replied"
    BY <1>0, <1>1, <1>3 DEF LaneShape, Lanes, AfterSettle, Idle
  <2>2. \A s \in DOMAIN journal \ B : journal'[s] = journal[s]
    BY <1>0, <1>3, SettleRows
  <2>3. \A s \in DOMAIN journal :
          journal'[s].ent = journal[s].ent /\ journal'[s].kind = journal[s].kind
          /\ journal'[s].base = journal[s].base
    BY <1>0, <1>3, SettleRows
  <2>4. \A s \in B : /\ journal[s].status = "sending" /\ journal[s].ver = 0
                     /\ acks => /\ journal'[s].status = a(s).st
                                /\ journal'[s].status \in {"acked", "conflicted"}
                                /\ journal'[s].ver = IF journal[s].kind = "delete" /\ a(s).st = "acked"
                                                     THEN 0 ELSE a(s).ver
                     /\ ~acks => journal'[s].status \in {"failed", "quarantined"}
    <3> TAKE s \in B
    <3>1. journal[s].status = "sending"
      BY <1>0, <1>3, SettleRows
    <3>2. journal[s].ver = 0
      BY <1>0, <3>1 DEF JournalVers, RowAt
    <3> QED BY <1>0, <1>3, <3>1, <3>2, SettleRows
  <2>5. /\ \A s \in B : OwnAnswer(a(s), server[journal[s].ent], journal[s].kind, s) \/ ~acks
    BY DEF ChainFacts, LaneAnswers
  <2> HIDE DEF a, acks, B
  <2>6. \A s \in DOMAIN journal : /\ journal[s].status \notin Unresolved => journal'[s] = journal[s]
                                  /\ journal'[s].status \in Unresolved => journal[s].status \in Unresolved
    BY <1>0, <2>2, <2>4
  <2>7. Accounted'
    <3> SUFFICES ASSUME NEW e \in Entities, Own(server[e]), NEW w, w = server[e].val, NEW v, v = server[e].ver
                 PROVE  AckingAt(e, w, v)' \/ AckedAt(e, w, v)' \/ ConvergedAt(e, w, v)'
      BY <1>1 DEF Accounted
    <3>1. CASE AckingAt(e, w, v)
      <4>1. /\ w \in B /\ w \in DOMAIN journal /\ acks /\ a(w).st = "acked" /\ a(w).ver = v
            /\ journal[w].ent = e /\ journal[w].kind # "delete"
        BY <1>0, <3>1 DEF AckingAt, B, acks, a
      <4>2. journal'[w].status = "acked" /\ journal'[w].ver = v
        BY <2>4, <4>1
      <4> QED BY <1>1, <2>3, <4>1, <4>2 DEF AckedAt
    <3>2. CASE AckedAt(e, w, v)
      BY <1>0, <1>1, <2>6, <3>2 DEF AckedAt
    <3>3. CASE ConvergedAt(e, w, v)
      <4>1. ASSUME NEW t \in DOMAIN journal, journal[t].ent = e, journal'[t].status = "acked"
            PROVE  journal'[t].ver = 0
        <5>1. CASE t \in B
          <6>1. acks /\ a(t).st = "acked" /\ (journal'[t].ver = 0 \/ journal'[t].ver = a(t).ver)
            BY <1>0, <2>4, <4>1, <5>1
          <6>2. a(t).ver > 0 => w = t
            BY <2>5, <4>1, <5>1, <6>1 DEF OwnAnswer, Own
          <6>3. t # w
            BY <3>3 DEF ConvergedAt
          <6>4. a(t).ver \in Nat
            BY <2>1, <5>1, <6>1, ChainBasics DEF LaneVers, AckAt, B, acks, a
          <6> QED BY <6>1, <6>2, <6>3, <6>4
        <5>2. CASE t \notin B
          BY <2>2, <3>3, <4>1, <5>2 DEF ConvergedAt, NoneAcked
        <5> QED BY <5>1, <5>2
      <4> QED BY <1>1, <2>3, <3>3, <4>1 DEF ConvergedAt, NoneAcked
    <3> QED BY <3>1, <3>2, <3>3 DEF ChainFacts, Accounted
  <2>8. BaseFresh'
    BY <1>1, <2>3, <2>6 DEF ChainFacts, BaseFresh
  <2>9. BaseFirst'
    BY <1>1, <2>3, <2>6 DEF ChainFacts, BaseFirst, First
  <2>10. LaneFresh' /\ LaneAnswers'
    BY <2>1 DEF LaneFresh, LaneAnswers
  <2> QED BY <2>7, <2>8, <2>9, <2>10 DEF ChainFacts
<1> QED BY <1>2, <1>3 DEF Lanes

\* What a batch is based on.
LEMMA ReadBatchChain ==
    ASSUME VerInv, ChainFacts, ReadBatch
    PROVE  ChainFacts'
<1>0. /\ ServerInv /\ JournalVers /\ "acked" \notin Unresolved /\ clock \in Nat
      /\ \A s \in DOMAIN journal : s \in Nat /\ journal[s].ent \in Entities
      /\ \A e \in Entities : server[e].ver \in Nat /\ synced[e].ver \in Nat /\ server[e].val \in Nat
  BY ChainBasics
<1>1. /\ lane["batch"].pc # "replied" /\ lane'["batch"].reply = lane["batch"].reply
      /\ \A s \in DOMAIN lane'["batch"].batch :
           /\ s \in DOMAIN journal /\ journal[s].status \in Unresolved /\ First(s)
           /\ lane'["batch"].batch[s] = ResolvedBase(journal, s)
      /\ UNCHANGED <<journal, server, synced>>
  BY <1>0, ReadBatchRows
<1>2. Accounted'
  BY <1>1 DEF ChainFacts, Accounted, AckingAt, AckedAt, ConvergedAt, NoneAcked
<1>3. BaseFresh' /\ BaseFirst'
  BY <1>1 DEF ChainFacts, BaseFresh, BaseFirst, First
<1>4. ASSUME NEW s \in DOMAIN journal, journal[s].status \in Unresolved
      PROVE  Fresh(server[journal[s].ent], s, ResolvedBase(journal, s))
  <2> DEFINE e == journal[s].ent
             w == server[e].val
             v == server[e].ver
             acked == {journal[t].ver : t \in {t \in WithStatus(journal, e, {"acked"}) : t < s}}
             base == ResolvedBase(journal, s)
  <2>1. CASE journal[s].base > 0
    <3>1. base = journal[s].base
      BY <2>1 DEF ResolvedBase
    <3> QED BY <1>4, <3>1 DEF ChainFacts, BaseFresh
  <2>2. CASE ~(journal[s].base > 0)
    <3> SUFFICES ASSUME base > 0, v > base, w # Foreign, w # s
                 PROVE  FALSE
      BY DEF Fresh
    <3>1. journal[s].base = 0
      BY <1>0, <2>2 DEF JournalVers, RowAt
    <3>2. IF acked \ {0} # {} THEN base = Max(acked) ELSE base = synced[e].ver
      BY <3>1 DEF ResolvedBase
    <3>3. acked \subseteq 0 .. clock
      BY <1>0 DEF JournalVers, RowAt, WithStatus, RowsOf
    <3>4. e \in Entities /\ v \in Nat /\ w \in Nat /\ synced[e].ver \in Nat
      BY <1>0
    <3>5. base \in Nat /\ \A x \in acked : x \in Nat /\ (x <= base \/ x = 0)
      <4>1. CASE acked \ {0} # {}
        <5>1. Max(acked) \in acked /\ \A y \in acked : y <= Max(acked)
          <6> HIDE DEF acked
          <6> QED BY <1>0, <3>3, <4>1, MaxOf
        <5>2. base = Max(acked)
          BY <3>2, <4>1
        <5>3. \A x \in acked : x \in Nat
          BY <3>3
        <5> HIDE DEF acked, base
        <5> QED BY <5>1, <5>2, <5>3
      <4>2. CASE acked \ {0} = {}
        <5> HIDE DEF acked, base
        <5> QED BY <3>2, <3>4, <4>2
      <4> QED BY <4>1, <4>2
    <3>6. Own(server[e])
      <4> HIDE DEF base
      <4> QED BY <3>4, <3>5 DEF Own
    <3>7. w < s
      BY <1>0, <1>4 DEF ServerInv, NothingOlder
    <3> HIDE DEF base
    <3>8. CASE AckedAt(e, w, v)
      <4>1. v \in acked
        BY <3>7, <3>8 DEF AckedAt, WithStatus, RowsOf
      <4> HIDE DEF acked, v, w, e
      <4> QED BY <3>4, <3>5, <4>1
    <3>9. CASE ConvergedAt(e, w, v)
      <4>1. acked \ {0} = {}
        BY <3>9 DEF ConvergedAt, NoneAcked, WithStatus, RowsOf
      <4>2. synced[e].ver = v
        BY <3>9 DEF ConvergedAt
      <4> HIDE DEF acked, v, w, e
      <4> QED BY <3>2, <3>4, <3>5, <4>1, <4>2
    <3> QED BY <1>1, <3>4, <3>6, <3>8, <3>9 DEF ChainFacts, Accounted, AckingAt
  <2> QED BY <2>1, <2>2
<1>5. LaneFresh'
  BY <1>1, <1>4 DEF LaneFresh
<1>6. LaneAnswers'
  BY <1>1 DEF ChainFacts, LaneAnswers
<1> QED BY <1>2, <1>3, <1>5, <1>6 DEF ChainFacts

\* The server applies a batch: a row changes only by the mutation that is
\* then being answered.
LEMMA ApplyChain ==
    ASSUME VerInv, ChainFacts, Modes = {"optimistic"},
           UNCHANGED <<journal, synced>>, lane["batch"].pc = "sent", Applied("batch")
    PROVE  ChainFacts'
<1> DEFINE B == DOMAIN lane["batch"].batch
           a(s) == Answer("batch", s)
           cur(s) == server[journal[s].ent]
<1>0. /\ ServerInv /\ FeedInv /\ LaneShape /\ OrderInv /\ "batch" \in Lanes
      /\ "acked" \notin Unresolved /\ clock \in Nat
      /\ \A s \in DOMAIN journal : s \in Nat /\ journal[s].ent \in Entities
      /\ \A e \in Entities : server[e] \in VRow /\ server[e].ver \in Nat
  BY ChainBasics DEF OrderInv, Shape, FeedInv
<1>1. /\ lane'["batch"].pc = "replied" /\ lane'["batch"].batch = lane["batch"].batch
      /\ lane'["batch"].reply.kind = "acks"
      /\ \A s \in B : lane'["batch"].reply.acks[s] = a(s)
  BY <1>0 DEF Applied, Reply, LaneShape, IsLane
<1>2. /\ \A s \in B : /\ s \in DOMAIN journal /\ s \in Nat /\ First(s)
                      /\ journal[s].status = "sending" /\ journal[s].status \in Unresolved
                      /\ journal[s].ent \in Entities
                      /\ server'[journal[s].ent] = a(s).row
                      /\ Answered(a(s), cur(s), journal[s].kind, lane["batch"].batch[s], s, clock + 1)
      /\ \A e \in Entities : (\A s \in B : journal[s].ent # e) => server'[e] = server[e]
  <2>1. \A s \in B : server'[journal[s].ent] = a(s).row
                     /\ Answered(a(s), cur(s), journal[s].kind, lane["batch"].batch[s], s, clock + 1)
    BY <1>0, AppliedRows
  <2>2. \A s \in B : /\ s \in DOMAIN journal /\ s \in Nat /\ First(s)
                     /\ journal[s].status = "sending" /\ journal[s].status \in Unresolved
                     /\ journal[s].ent \in Entities
    BY <1>0, OnTheWire
  <2> QED BY <2>1, <2>2 DEF Applied
<1> HIDE DEF a
<1>3. ASSUME NEW e \in Entities, server'[e] # server[e]
      PROVE  \E s \in B : journal[s].ent = e /\ server'[e] = a(s).row /\ a(s).row.val = s
                          /\ (\/ a(s).row.ver = 0
                              \/ /\ a(s).row.ver = a(s).ver /\ a(s).st = "acked"
                                 /\ journal[s].kind # "delete")
  <2>1. PICK s \in B : journal[s].ent = e
    BY <1>2, <1>3
  <2>2. server'[e] = a(s).row /\ a(s).row # cur(s)
        /\ Answered(a(s), cur(s), journal[s].kind, lane["batch"].batch[s], s, clock + 1)
    BY <1>2, <1>3, <2>1
  <2> QED BY <2>1, <2>2 DEF Answered
<1>4. Accounted'
  <2> SUFFICES ASSUME NEW e \in Entities, Own(server[e])',
                      NEW w, w = server'[e].val, NEW v, v = server'[e].ver
               PROVE  AckingAt(e, w, v)' \/ AckedAt(e, w, v)' \/ ConvergedAt(e, w, v)'
    BY DEF Accounted
  <2>1. CASE server'[e] = server[e]
    <3>1. AckingAt(e, w, v) \/ AckedAt(e, w, v) \/ ConvergedAt(e, w, v)
      BY <2>1 DEF ChainFacts, Accounted
    <3> QED BY <3>1 DEF AckingAt, AckedAt, ConvergedAt, NoneAcked
  <2>2. CASE server'[e] # server[e]
    <3>1. PICK s \in B : journal[s].ent = e /\ server'[e] = a(s).row /\ a(s).row.val = s
                          /\ (\/ a(s).row.ver = 0
                              \/ /\ a(s).row.ver = a(s).ver /\ a(s).st = "acked"
                                 /\ journal[s].kind # "delete")
      BY <1>3, <2>2
    <3>2. v # 0
      BY DEF Own
    <3>3. /\ w = s /\ s \in B /\ a(s).ver = v /\ a(s).st = "acked"
          /\ journal[s].kind # "delete" /\ journal[s].ent = e
      BY <3>1, <3>2
    <3> QED BY <1>1, <3>3 DEF AckingAt
  <2> QED BY <2>1, <2>2
<1>5. BaseFresh'
  <2> SUFFICES ASSUME NEW t \in DOMAIN journal, journal[t].status \in Unresolved
               PROVE  Fresh(server'[journal[t].ent], t, journal[t].base)
    BY DEF BaseFresh
  <2>1. CASE server'[journal[t].ent] = cur(t)
    BY <2>1 DEF ChainFacts, BaseFresh
  <2>2. CASE server'[journal[t].ent] # cur(t)
    <3> SUFFICES ASSUME journal[t].base > 0
                 PROVE  server'[journal[t].ent].val = t
      BY DEF Fresh
    <3>1. PICK s \in B : journal[s].ent = journal[t].ent /\ server'[journal[t].ent].val = s
      BY <1>0, <1>3, <2>2
    <3>2. First(t) /\ First(s) /\ s \in Nat /\ t \in Nat
          /\ s \in DOMAIN journal /\ journal[s].status \in Unresolved
      BY <1>0, <1>2 DEF ChainFacts, BaseFirst
    <3>3. ~(s < t) /\ ~(t < s)
      BY <3>1, <3>2 DEF First
    <3> QED BY <3>1, <3>2, <3>3
  <2> QED BY <2>1, <2>2
<1>6. BaseFirst'
  BY DEF ChainFacts, BaseFirst, First
<1>7. ASSUME NEW s \in B PROVE a(s).row = cur(s) \/ a(s).row.val = s
  BY <1>2 DEF Answered
<1>8. LaneFresh'
  <2> SUFFICES ASSUME NEW s \in B PROVE Fresh(a(s).row, s, lane["batch"].batch[s])
    BY <1>1, <1>2 DEF LaneFresh
  <2> QED BY <1>7 DEF ChainFacts, LaneFresh, Fresh
<1>9. LaneAnswers'
  <2> SUFFICES ASSUME NEW s \in B PROVE OwnAnswer(a(s), a(s).row, journal[s].kind, s)
    BY <1>1, <1>2 DEF LaneAnswers
  <2>1. Answered(a(s), cur(s), journal[s].kind, lane["batch"].batch[s], s, clock + 1)
    BY <1>2
  <2>2. a(s).st = "acked" /\ a(s).ver > 0 => a(s).row.val = s /\ journal[s].kind # "delete"
    BY <2>1 DEF Answered
  <2>3. ASSUME a(s).st = "conflicted", a(s).ver > 0 PROVE a(s).who = Foreign
    <3> DEFINE e == journal[s].ent
               base == lane["batch"].batch[s]
    <3>1. a(s).who = server[e].val /\ base > 0 /\ server[e].ver > base
      BY <2>1, <2>3 DEF Answered
    <3>2. server[e].val \in {Foreign, s}
      BY <3>1 DEF ChainFacts, LaneFresh, Fresh
    <3>3. server[e].val # s
      <4> SUFFICES ASSUME server[e].val = s, Own(server[e])
                   PROVE  FALSE
        <5>1. base \in Nat /\ server[e].ver \in Nat /\ s # Foreign
          BY <1>2, ChainBasics DEF LaneVers, Foreign
        <5> QED BY <3>1, <5>1 DEF Own
      <4>1. AckedAt(e, s, server[e].ver) \/ ConvergedAt(e, s, server[e].ver)
        BY <1>2 DEF ChainFacts, Accounted, AckingAt
      <4> QED BY <1>0, <1>2, <4>1 DEF AckedAt, ConvergedAt
    <3> QED BY <3>1, <3>2, <3>3
  <2> QED BY <2>2, <2>3 DEF OwnAnswer
<1> QED BY <1>4, <1>5, <1>6, <1>8, <1>9 DEF ChainFacts

\* A request that is applied, or fails at the server.
LEMMA ServerApplyChain ==
    ASSUME VerInv, ChainFacts, Modes = {"optimistic"}, NEW l \in Lanes, ServerApply(l)
    PROVE  ChainFacts'
<1>0. ServerInv /\ LaneShape /\ OrderInv /\ DOMAIN lane["unit"].batch = {}
  BY UnitsEmpty, ChainBasics DEF OrderInv, Shape
<1>1. lane[l].pc = "sent" /\ UNCHANGED <<journal, synced>>
  BY DEF ServerApply, local
<1>2. CASE l = "unit"
  <2>1. lane'["batch"] = lane["batch"] /\ server' = server
    <3>1. CASE UNCHANGED remote /\ \E r : r.kind # "acks" /\ Reply(l, r)
      BY <1>0, <1>2, <3>1 DEF remote, Reply, LaneShape, Lanes
    <3>2. CASE Applied(l)
      <4>1. server' = server
        BY <1>0, <1>2, <3>2, ChainBasics DEF Applied, ServerInv, ServerShape
      <4> QED BY <1>0, <1>2, <3>2, <4>1 DEF Applied, Reply, LaneShape, Lanes
    <3> QED BY <1>0, <3>1, <3>2, ServerApplies
  <2> QED BY <1>1, <2>1, QuietChain
<1>3. CASE l = "batch"
  <2>1. CASE UNCHANGED remote /\ \E r : r.kind # "acks" /\ Reply(l, r)
    <3> PICK r : r.kind # "acks" /\ Reply(l, r)
      BY <2>1
    <3>1. /\ lane'["batch"].batch = lane["batch"].batch /\ lane'["batch"].reply.kind # "acks"
          /\ server' = server
      BY <1>0, <1>3, <2>1 DEF remote, Reply, LaneShape, IsLane, Lanes
    <3>2. lane["batch"].pc # "replied"
      BY <1>1, <1>3
    <3> QED BY <1>1, <3>1, <3>2, RefusedChain
  <2>2. CASE Applied(l)
    BY <1>1, <1>3, <2>2, ApplyChain
  <2> QED BY <1>0, <2>1, <2>2, ServerApplies
<1> QED BY <1>2, <1>3 DEF Lanes

LEMMA ChainInit == Init => ChainInv
<1> SUFFICES ASSUME Init PROVE ChainInv
  OBVIOUS
<1>1. /\ DOMAIN journal = {} /\ DOMAIN lane["batch"].batch = {}
      /\ lane["batch"].reply.kind # "acks" /\ lane["batch"].pc # "replied" /\ faults = 0
      /\ \A e \in Entities : server[e].val = Foreign
      /\ orphans = {}
  BY DEF Init, Idle, Lanes, Absent
<1>2. VerInv
  BY VerInit
<1>3. ChainFacts
  BY <1>1 DEF ChainFacts, Accounted, Own, BaseFresh, BaseFirst, LaneFresh, LaneAnswers
<1> QED BY <1>1, <1>2, <1>3 DEF ChainInv

\* A fault, or a step that keeps the chain.
LEMMA ChainStep ==
    ASSUME ChainInv, Modes = {"optimistic"}, [Next]_vars
    PROVE  ChainInv'
<1> DEFINE Goal == \/ faults' = faults + 1
                   \/ faults' = faults /\ (ChainFacts => ChainFacts') /\ orphans' = orphans
                   \/ faults' = faults /\ orphans # {}
<1>0. VerInv /\ VerInv' /\ ServerInv /\ ServerInv' /\ LaneShape /\ OrderInv
  <2>1. VerInv /\ VerInv'
    BY VerStep DEF ChainInv
  <2> QED BY <2>1 DEF VerInv, OverlayInv, ServerInv, OrderInv, Shape
<1> SUFFICES Goal
  BY <1>0 DEF ChainInv
<1>1. ASSUME NEW e \in Entities, NEW k \in WriteKinds, NEW m \in Modes, Enqueue(e, k, m) PROVE Goal
  BY <1>0, <1>1, EnqueueChain DEF Enqueue
<1>2. ASSUME NEW e \in Entities, Echo(e) PROVE Goal
  <2>1. faults' = faults /\ orphans' = orphans
    BY <1>2 DEF Echo
  <2> QED BY <1>0, <1>2, <2>1, EchoChain
<1>3. ASSUME Reconcile PROVE Goal
  <2>1. /\ ReconcileTable /\ server' = server /\ synced' = synced /\ lane' = lane
        /\ faults' = faults /\ orphans' = orphans
    BY <1>3 DEF Reconcile, remote
  <2> QED BY <1>0, <2>1, ReconcileChain
<1>4. ASSUME ReadBatch PROVE Goal
  <2>1. faults' = faults /\ orphans' = orphans
    BY <1>4 DEF ReadBatch
  <2> QED BY <1>0, <1>4, <2>1, ReadBatchChain
<1>5. ASSUME ReadUnit PROVE Goal
  <2>1. /\ UNCHANGED <<server, synced, journal, faults, orphans>> /\ lane'["batch"] = lane["batch"]
    BY <1>0, <1>5 DEF ReadUnit, LaneShape, Lanes, local, remote
  <2> QED BY <1>0, <2>1, QuietChain
<1>6. ASSUME NEW l \in Lanes, MarkSending(l) PROVE Goal
  BY <1>0, <1>6, MarkSendingChain DEF MarkSending
<1>7. ASSUME NEW l \in Lanes, ServerApply(l) PROVE Goal
  <2>1. faults' = faults /\ orphans' = orphans
    BY <1>7 DEF ServerApply
  <2> QED BY <1>0, <1>7, <2>1, ServerApplyChain
<1>8. ASSUME NEW l \in Lanes, Settle(l) PROVE Goal
  <2>1. faults' = faults /\ orphans' = orphans
    BY <1>8 DEF Settle
  <2> QED BY <1>0, <1>8, <2>1, SettleChain
<1>9. ASSUME NEW l \in Lanes, FinishFlush(l) PROVE Goal
  <2>1. /\ ReconcileTable /\ server' = server /\ synced' = synced /\ faults' = faults
        /\ orphans' = orphans
        /\ lane[l].pc = "settled" /\ lane' = [lane EXCEPT ![l] = Idle]
    BY <1>9 DEF FinishFlush, remote
  <2>2. \/ lane'["batch"] = lane["batch"]
        \/ lane["batch"].pc # "replied" /\ Emptied(lane'["batch"])
    BY <1>0, <2>1 DEF LaneShape, Lanes, Idle, Emptied
  <2> QED BY <1>0, <2>1, <2>2, ReconcileChain
<1>10. ASSUME NEW l \in Lanes, LoseRequest(l) \/ LoseAnswer(l) \/ Decline(l) PROVE Goal
  BY <1>10 DEF LoseRequest, LoseAnswer, Decline
<1>11. ASSUME NEW e \in Entities, NEW st \in {"conflicted", "quarantined"}, Discard(e, st) PROVE Goal
  BY <1>0, <1>11, DiscardChain DEF Discard
<1>12. ASSUME RetryFailed PROVE Goal
  <2>1. /\ UNCHANGED <<server, synced, lane, faults, orphans>>
    BY <1>12 DEF RetryFailed, remote
  <2>2. /\ DOMAIN journal' = DOMAIN journal
        /\ \A s \in DOMAIN journal :
             \/ journal'[s] = journal[s]
             \/ /\ journal[s].status \in Unresolved /\ journal'[s].status \in Unresolved
                /\ journal'[s].ent = journal[s].ent /\ journal'[s].kind = journal[s].kind
                /\ journal'[s].base = journal[s].base
    BY <1>0, <1>12, MoveRows
  <2> QED BY <1>0, <2>1, <2>2, RemarksChain
<1>13. ASSUME Restart PROVE Goal
  BY <1>13 DEF Restart
<1>14. ASSUME NEW e \in Entities, NEW k \in ForeignKinds, ForeignWrite(e, k) PROVE Goal
  BY <1>0, <1>14, ForeignChain DEF ForeignWrite
<1>15. ASSUME LateApply PROVE Goal
  BY <1>15 DEF LateApply
<1>16. ASSUME UNCHANGED vars PROVE Goal
  BY <1>0, <1>16, QuietChain DEF vars
<1> HIDE DEF Goal
<1> QED
  BY <1>1, <1>2, <1>3, <1>4, <1>5, <1>6, <1>7, <1>8, <1>9, <1>10, <1>11, <1>12, <1>13,
     <1>14, <1>15, <1>16 DEF Next, Flush

\* ADR-0015, while every answer arrives: an answer that calls a write stale
\* names another actor's write.  Accounted is what the answers, the acked
\* rows and the synced row between them know of the server's row.
THEOREM ChainTheorem == ASSUME Modes = {"optimistic"} PROVE Spec => []ChainIsNeverStale
<1>1. ChainInv /\ [Next]_vars => ChainInv'
  BY ChainStep
<1>2. ChainInv => ChainIsNeverStale
  <2> SUFFICES ASSUME ChainInv, faults = 0, NEW l \in Lanes, lane[l].reply.kind = "acks",
                      NEW s \in DOMAIN lane[l].batch,
                      lane[l].reply.acks[s].st = "conflicted", lane[l].reply.acks[s].ver > 0
               PROVE  lane[l].reply.acks[s].who = Foreign
    BY DEF ChainIsNeverStale, NoSelfConflict
  <2>1. ServerInv /\ ChainFacts
    BY DEF ChainInv, VerInv, OverlayInv
  <2>2. l = "batch"
    BY <2>1, OnTheWire
  <2> QED BY <2>1, <2>2 DEF ChainFacts, LaneAnswers, OwnAnswer
<1> QED BY <1>1, <1>2, ChainInit, PTL DEF Spec
=============================================================================
