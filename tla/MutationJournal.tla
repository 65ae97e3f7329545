-------------------------- MODULE MutationJournal --------------------------
(***************************************************************************)
(* The write path: the client's mutation journal and overlay               *)
(* (packages/client/src/mutation.ts, schema.ts), the server that applies   *)
(* the mutations (packages/server/src/mutations) and the synced echo that  *)
(* comes back through the read path.                                       *)
(*                                                                         *)
(* A local write appends a journal row and upserts an overlay row, which   *)
(* the read model shows instead of the synced row.  flush() sends the      *)
(* oldest unresolved row of every entity; flushUnit() sends a pessimistic  *)
(* write to the authoritative endpoint.  The server answers per mutation   *)
(* with the row's new Server version; the overlay is dropped when the echo *)
(* of that version has been synced, by a trigger on the synced table or by *)
(* reconcileTable after the flush.                                         *)
(*                                                                         *)
(* A payload is the sequence number of the mutation that wrote it.         *)
(***************************************************************************)
EXTENDS Naturals, Sequences, FiniteSets, FiniteSetsExt, Functions

CONSTANTS
    Entities,      \* primary keys of one writable table
    Policy,        \* the table's conflict policy
    Modes,         \* write modes in use: "optimistic", "pessimistic", "blind"
    WriteKinds,    \* local writes in use: "create", "update", "delete"
    ForeignKinds,  \* what other actors do: "create", "update", "delete"
    BatchSize,     \* flushBatchSize
    MaxAttempts,   \* maxMutationAttempts
    MaxWrites,     \* bound on local writes
    MaxForeign,    \* bound on other actors' writes
    MaxFaults      \* bound on lost requests and answers, rejections and crashes

ASSUME PolicyAssumption == Policy \in {"last-write-wins", "reject-if-stale"}
ASSUME ModesAssumption == Modes \subseteq {"optimistic", "pessimistic", "blind"}
ASSUME KindsAssumption ==
    WriteKinds \cup ForeignKinds \subseteq {"create", "update", "delete"}
ASSUME BoundsAssumption ==
    /\ BatchSize \in Nat \ {0} /\ MaxAttempts \in Nat \ {0}
    /\ MaxWrites \in Nat /\ MaxForeign \in Nat /\ MaxFaults \in Nat

VARIABLES
    journal,   \* the journal rows, by mutation_seq
    issued,    \* the last mutation_seq handed out
    overlay,   \* the overlay row of each entity
    synced,    \* the synced read cache
    server,    \* the server's table
    clock,     \* the last Server version handed out
    feed,      \* committed server rows not yet applied to the synced table
    lane,      \* the flush in progress on each lane
    orphans,   \* requests still on their way whose sender has given up
    foreign,   \* other actors' writes so far
    faults     \* faults so far

vars == <<journal, issued, overlay, synced, server, clock, feed, lane, orphans, foreign, faults>>
local == <<journal, issued, overlay>>
remote == <<server, clock, feed>>

Kinds == {"create", "update", "delete"}
Statuses == {"pending", "sending", "failed", "acked", "quarantined", "conflicted", "rejected"}
Lanes == {"batch", "unit"}

\* Version 0 is SQL NULL or an absent row; payload 0 is another actor's.
Foreign == 0
Absent == [ver |-> 0, val |-> Foreign]
NoOverlay == [kind |-> "none", val |-> 0]
Idle == [pc |-> "idle", batch |-> <<>>, reply |-> [kind |-> "none"]]

RowsOf(j, e) == {s \in DOMAIN j : j[s].ent = e}
WithStatus(j, e, S) == {s \in RowsOf(j, e) : j[s].status \in S}

\* What blocks a later mutation of the entity in readPendingBatchRows.
Unresolved == {"pending", "failed", "sending", "quarantined"}
\* What keeps the overlay in reconcileTable and in the settled-unit discard.
Owed == {"pending", "sending", "failed"}

\* The read model view: overlay rows except pending deletes, then synced rows.
ReadModel(e) ==
    CASE overlay[e].kind = "pending_delete" -> Absent
      [] overlay[e].kind = "none" -> synced[e]
      [] OTHER -> [ver |-> synced[e].ver, val |-> overlay[e].val]

Init ==
    /\ journal = <<>>
    /\ issued = 0
    /\ overlay = [e \in Entities |-> NoOverlay]
    /\ clock = 1
    /\ server \in [Entities -> {Absent, [ver |-> 1, val |-> Foreign]}]
    /\ synced = server
    /\ feed = [e \in Entities |-> <<>>]
    /\ lane = [l \in Lanes |-> Idle]
    /\ orphans = {}
    /\ foreign = 0
    /\ faults = 0

-----------------------------------------------------------------------------
(***************************************************************************)
(* Local writes: create, update, delete (enqueueBatch).                    *)
(***************************************************************************)

\* The record enqueueBatch sees: the overlay row (a pending delete too), or
\* the synced row.
HasRecord(e) == overlay[e].kind # "none" \/ synced[e].ver > 0

QueuedForDeletion(e) ==
    /\ RowsOf(journal, e) # {}
    /\ LET last == journal[Max(RowsOf(journal, e))]
       IN  last.kind = "delete" /\ last.status # "acked"

\* A blind update needs no local record (updateBlind, ADR-0022).
MayEnqueue(e, kind, mode) ==
    IF kind = "create" THEN mode # "blind" /\ RowsOf(journal, e) = {}
    ELSE /\ IF mode = "blind" THEN kind = "update" ELSE HasRecord(e)
         /\ ~QueuedForDeletion(e)

\* captureChainHeadBase: only the first write of a chain records the version
\* it was authored against.
CaptureChainHeadBase(e, kind, mode) ==
    IF kind = "create" \/ mode = "blind" \/ RowsOf(journal, e) # {} THEN 0 ELSE synced[e].ver

OverlayFor(e, kind, mode, n) ==
    IF mode = "blind" THEN overlay[e]
    ELSE CASE kind = "create" -> [kind |-> "pending_create", val |-> n]
           [] kind = "delete" -> [kind |-> "pending_delete", val |-> overlay[e].val]
           [] kind = "update" ->
                [kind |-> IF overlay[e].kind = "pending_create" THEN "pending_create"
                          ELSE "pending_update", val |-> n]

Enqueue(e, kind, mode) ==
    /\ issued < MaxWrites
    /\ MayEnqueue(e, kind, mode)
    /\ issued' = issued + 1
    /\ journal' = [s \in DOMAIN journal \cup {issued + 1} |->
                     IF s # issued + 1 THEN journal[s]
                     ELSE [ent |-> e, kind |-> kind, mode |-> mode, status |-> "pending",
                           base |-> CaptureChainHeadBase(e, kind, mode), ver |-> 0,
                           attempts |-> 0]]
    /\ overlay' = [overlay EXCEPT ![e] = OverlayFor(e, kind, mode, issued + 1)]
    /\ UNCHANGED <<synced, remote, lane, orphans, foreign, faults>>

-----------------------------------------------------------------------------
(***************************************************************************)
(* Clearing: the <table>_reconcile_on_sync trigger and reconcileTable.     *)
(***************************************************************************)

\* A conflicted row is retired by a later acked write of its entity.
Superseded(j, e) ==
    {s \in WithStatus(j, e, {"conflicted"}) : \E t \in WithStatus(j, e, {"acked"}) : t > s}

Drop(j, S) == Restrict(j, DOMAIN j \ S)

\* The convergence barrier of ADR-0010.
BarrierStrict(row, ver) == row.ver < ver    \* mutant: waits for a later version
Barrier(row, ver) == row.ver <= ver

\* The trigger, for a synced row of version ver (0: the row was deleted).
TriggerJournal(j, e, ver) ==
    LET kept == Drop(j, Superseded(j, e))
    IN  Drop(kept, {s \in WithStatus(kept, e, {"acked"}) :
                      IF ver = 0 THEN kept[s].kind = "delete"
                      ELSE kept[s].kind # "delete" /\ kept[s].ver > 0 /\ Barrier(kept[s], ver)})

\* The trigger removes the overlay when no journal row of the entity is left.
OverlayForgotten(j, o, e) == o          \* mutant: only the journal is cleared
TriggerOverlay(j, o, e) == IF RowsOf(j, e) = {} THEN NoOverlay ELSE o

\* Applying a run of committed rows in one read-path commit: the fold keeps
\* the last row, and clears the old row first when the run holds a delete
\* (foldKey); each of the two statements fires the trigger if it hits a row.
Echo(e) ==
    \E n \in 1 .. Len(feed[e]) :
        LET run == SubSeq(feed[e], 1, n)
            net == run[n]
            deletes == \E i \in 1 .. n : run[i].ver = 0
            j1 == IF deletes /\ synced[e].ver > 0 THEN TriggerJournal(journal, e, 0) ELSE journal
            o1 == IF deletes /\ synced[e].ver > 0 THEN TriggerOverlay(j1, overlay[e], e) ELSE overlay[e]
            j2 == IF net.ver > 0 THEN TriggerJournal(j1, e, net.ver) ELSE j1
            o2 == IF net.ver > 0 THEN TriggerOverlay(j2, o1, e) ELSE o1
        IN  /\ synced' = [synced EXCEPT ![e] = net]
            /\ journal' = j2
            /\ overlay' = [overlay EXCEPT ![e] = o2]
            /\ feed' = [feed EXCEPT ![e] = SubSeq(@, n + 1, Len(@))]
            /\ UNCHANGED <<issued, server, clock, lane, orphans, foreign, faults>>

\* reconcileTable, statement by statement: retire resolved conflicts; retire
\* acked blind updates, which have no echo; clear the acked rows whose echo has
\* landed with the overlays nothing is owed on; clear the acked deletes whose
\* synced row is gone with their overlays.
RetireConflicts(j) == Drop(j, UNION {Superseded(j, e) : e \in Entities})
RetireBlind(j) == Drop(j, {s \in DOMAIN j : j[s].status = "acked" /\ j[s].mode = "blind"})

Landed(j, e) ==
    {s \in WithStatus(j, e, {"acked"}) :
        j[s].kind # "delete" /\ j[s].ver > 0 /\ synced[e].ver > 0 /\ Barrier(j[s], synced[e].ver)}

DeletesDone(j, e) ==
    {s \in WithStatus(j, e, {"acked"}) : j[s].kind = "delete" /\ synced[e].ver = 0}

\* mutant: the overlay goes with the first acked row, whatever is still owed
OverlayNotGuarded(j, e) == Landed(j, e) # {}
OverlayCleared(j, e) == Landed(j, e) # {} /\ WithStatus(j, e, Owed) = {}

ReconcileTable ==
    LET j1 == RetireBlind(RetireConflicts(journal))
        j2 == Drop(j1, UNION {Landed(j1, e) : e \in Entities})
        j3 == Drop(j2, UNION {DeletesDone(j2, e) : e \in Entities})
    IN  /\ journal' = j3
        /\ overlay' = [e \in Entities |->
                         IF OverlayCleared(j1, e) \/ DeletesDone(j2, e) # {}
                         THEN NoOverlay ELSE overlay[e]]
        /\ UNCHANGED issued

\* reconcile() from the convergence driver or the application.
Reconcile ==
    /\ ReconcileTable
    /\ UNCHANGED <<synced, remote, lane, orphans, foreign, faults>>

-----------------------------------------------------------------------------
(***************************************************************************)
(* Flushing.  The batch lane is flush(), serialised by flushQueue; the     *)
(* unit lane is a foreground flushUnit, which does not wait for it.        *)
(***************************************************************************)

\* Per-entity flush serialization.
Unblocked == {"sending"}                \* mutant: only rows on the wire block
Blocking == Unresolved
Eligible(j) ==
    {s \in DOMAIN j : /\ j[s].status \in {"pending", "failed"}
                      /\ j[s].mode = "optimistic"
                      /\ ~ \E t \in WithStatus(j, j[s].ent, Blocking) : t < s}

\* buildResolvedBaseServerVersion: the captured base, else the newest acked
\* predecessor's version, else the synced version.
BaseFromSynced(j, s) == IF j[s].base > 0 THEN j[s].base ELSE synced[j[s].ent].ver  \* mutant
ResolvedBase(j, s) ==
    LET acked == {j[t].ver : t \in {t \in WithStatus(j, j[s].ent, {"acked"}) : t < s}}
    IN  CASE j[s].base > 0 -> j[s].base
          [] j[s].base = 0 /\ acked \ {0} # {} -> Max(acked)
          [] OTHER -> synced[j[s].ent].ver

FirstOf(S) == {s \in S : Cardinality({t \in S : t < s}) < BatchSize}

\* A failed row waits for its backoff, so any set of them may not be due yet.
ReadBatch ==
    \E notDue \in SUBSET {s \in DOMAIN journal : journal[s].status = "failed"} :
        LET rows == FirstOf(Eligible(journal) \ notDue)
        IN  /\ rows # {}
            /\ lane["batch"].pc \in {"idle", "settled"}
            /\ lane' = [lane EXCEPT !["batch"].pc = "read",
                          !["batch"].batch = [s \in rows |-> ResolvedBase(journal, s)]]
            /\ UNCHANGED <<local, synced, remote, orphans, foreign, faults>>

ReadUnit ==
    \E s \in DOMAIN journal :
        /\ journal[s].mode # "optimistic"
        /\ journal[s].status \in {"pending", "failed"}
        /\ lane["unit"].pc = "idle"
        /\ lane' = [lane EXCEPT !["unit"].pc = "read",
                      !["unit"].batch = [t \in {s} |-> ResolvedBase(journal, t)]]
        /\ UNCHANGED <<local, synced, remote, orphans, foreign, faults>>

\* applyMutationStatusUpdates(sending): the resolved base is persisted.
MarkSending(l) ==
    /\ lane[l].pc = "read"
    /\ journal' = [s \in DOMAIN journal |->
                     IF s \notin DOMAIN lane[l].batch THEN journal[s]
                     ELSE [journal[s] EXCEPT !.status = "sending", !.base = lane[l].batch[s],
                                             !.attempts = @ + 1]]
    /\ lane' = [lane EXCEPT ![l].pc = "sent"]
    /\ UNCHANGED <<issued, overlay, synced, remote, orphans, foreign, faults>>

Reply(l, reply) == lane' = [lane EXCEPT ![l].pc = "replied", ![l].reply = reply]

\* What the apply function does with one mutation on the current row: the
\* ack, the new row, and (history) whose write the row was.
Stale(cur, base) == Policy = "reject-if-stale" /\ base > 0 /\ cur.ver > base

Ack(status, ver, cur, row) == [st |-> status, ver |-> ver, who |-> cur.val, row |-> row]

Apply(cur, kind, base, s, v) ==
    CASE kind = "create" /\ cur.ver > 0 -> Ack("error", 0, cur, cur)
      [] kind = "create" /\ cur.ver = 0 -> Ack("acked", v, cur, [ver |-> v, val |-> s])
      [] kind # "create" /\ Stale(cur, base) -> Ack("conflicted", cur.ver, cur, cur)
      [] kind = "update" /\ cur.ver = 0 ->
            Ack(IF Policy = "reject-if-stale" THEN "conflicted" ELSE "acked", 0, cur, cur)
      [] kind = "update" /\ cur.ver > 0 /\ ~Stale(cur, base) ->
            Ack("acked", v, cur, [ver |-> v, val |-> s])
      [] kind = "delete" /\ cur.ver = 0 -> Ack("acked", 0, cur, cur)
      [] kind = "delete" /\ cur.ver > 0 /\ ~Stale(cur, base) ->
            Ack("acked", 0, cur, [ver |-> 0, val |-> s])

\* A request: each mutation with its entity, kind and base.
Request(l) ==
    [s \in DOMAIN lane[l].batch |->
        [ent |-> journal[s].ent, kind |-> journal[s].kind, base |-> lane[l].batch[s]]]

Answers(req) ==
    [s \in DOMAIN req |-> Apply(server[req[s].ent], req[s].kind, req[s].base, s, clock + 1)]
Errs(req) == \E s \in DOMAIN req : Answers(req)[s].st = "error"

Commit(req) ==
    LET acks == Answers(req)
        changed == {s \in DOMAIN req : acks[s].row # server[req[s].ent]}
    IN  /\ clock' = clock + 1
        /\ server' = [e \in Entities |->
             IF \E s \in changed : req[s].ent = e
             THEN acks[CHOOSE s \in changed : req[s].ent = e].row ELSE server[e]]
        /\ feed' = [e \in Entities |->
             IF server'[e].ver # server[e].ver THEN Append(feed[e], server'[e]) ELSE feed[e]]

\* One transaction per request: an exception (a primary key collision) undoes
\* all of it, and is a 500 on the batch route, a rejection of the unit on the
\* authoritative one.  A conflict declines the mutation alone (batch).
ServerApply(l) ==
    /\ lane[l].pc = "sent"
    /\ IF Errs(Request(l))
       THEN /\ Reply(l, IF l = "unit" THEN [kind |-> "rejected"] ELSE [kind |-> "failed"])
            /\ UNCHANGED remote
       ELSE /\ Reply(l, [kind |-> "acks", acks |-> Answers(Request(l))])
            /\ Commit(Request(l))
    /\ UNCHANGED <<local, synced, orphans, foreign, faults>>

\* What becomes of a request nobody waits for: it is lost, or still on its
\* way (a gateway timeout, a dropped connection, a client that died).
Orphan(l) == [at |-> faults, rows |-> Request(l)]

\* The sender gives up: lost on the way, declined before the transaction
\* (5xx, auth), or no answer in time.
LoseRequest(l) ==
    /\ faults < MaxFaults
    /\ lane[l].pc = "sent"
    /\ Reply(l, [kind |-> "failed"])
    /\ orphans' \in {orphans, orphans \cup {Orphan(l)}}
    /\ faults' = faults + 1
    /\ UNCHANGED <<local, synced, remote, foreign>>

\* The server has no ledger of what it has applied: a request that arrives
\* late is applied like any other, whatever was sent again meanwhile.
LateApply ==
    \E req \in orphans :
        /\ orphans' = orphans \ {req}
        /\ IF Errs(req.rows) THEN UNCHANGED remote ELSE Commit(req.rows)
        /\ UNCHANGED <<local, synced, lane, foreign, faults>>

\* The server committed, the client never hears of it.
LoseAnswer(l) ==
    /\ faults < MaxFaults
    /\ lane[l].pc = "replied"
    /\ lane[l].reply.kind = "acks"
    /\ Reply(l, [kind |-> "failed"])
    /\ faults' = faults + 1
    /\ UNCHANGED <<local, synced, remote, orphans, foreign>>

\* Validation names the mutations it rejects; nothing is applied.  The
\* authoritative endpoint may decline a unit for a business reason.
Decline(l) ==
    /\ faults < MaxFaults
    /\ lane[l].pc = "sent"
    /\ IF l = "unit" THEN Reply(l, [kind |-> "rejected"])
       ELSE \E named \in (SUBSET DOMAIN lane[l].batch) \ {{}} :
                Reply(l, [kind |-> "invalid", named |-> named])
    /\ faults' = faults + 1
    /\ UNCHANGED <<local, synced, remote, orphans, foreign>>

\* resolveBatchFailureOutcome.
FailureOutcome(row) == IF row.attempts >= MaxAttempts THEN "quarantined" ELSE "failed"

Outcome(row, s, reply) ==
    CASE reply.kind = "acks" ->
            [row EXCEPT !.status = reply.acks[s].st,
                        !.ver = IF row.kind = "delete" /\ reply.acks[s].st = "acked"
                                THEN @ ELSE reply.acks[s].ver]
      [] reply.kind = "failed" -> [row EXCEPT !.status = FailureOutcome(row)]
      [] reply.kind = "rejected" -> [row EXCEPT !.status = "rejected"]
      [] reply.kind = "invalid" ->
            [row EXCEPT !.status = IF s \in reply.named THEN "quarantined" ELSE "failed"]

\* flushUnit rethrows a failed request, and does not reconcile.
AfterSettle(l) ==
    IF l = "unit" /\ lane[l].reply.kind = "failed" THEN Idle ELSE [Idle EXCEPT !.pc = "settled"]

\* The status updates of the answer.  A rejected unit drops its overlay at
\* once, unless another write of the entity is still owed.
Settle(l) ==
    LET batch == DOMAIN lane[l].batch
        rejected == {journal[s].ent : s \in {t \in batch \cap DOMAIN journal :
                                               lane[l].reply.kind = "rejected"}}
    IN  /\ lane[l].pc = "replied"
        /\ journal' = [s \in DOMAIN journal |->
                         IF s \in batch THEN Outcome(journal[s], s, lane[l].reply) ELSE journal[s]]
        /\ overlay' = [e \in Entities |->
                         IF e \in rejected /\ WithStatus(journal', e, Owed) = {}
                         THEN NoOverlay ELSE overlay[e]]
        /\ lane' = [lane EXCEPT ![l] = AfterSettle(l)]
        /\ UNCHANGED <<issued, synced, remote, orphans, foreign, faults>>

\* The loop of runFlush ends when no row is eligible and due; flushUnit sends
\* once.  Both then reconcile.
FinishFlush(l) ==
    /\ lane[l].pc = "settled"
    /\ l = "batch" => \A s \in Eligible(journal) : journal[s].status = "failed"
    /\ ReconcileTable
    /\ lane' = [lane EXCEPT ![l] = Idle]
    /\ UNCHANGED <<synced, remote, orphans, foreign, faults>>

-----------------------------------------------------------------------------
(***************************************************************************)
(* The application's other operations, other actors, and crashes.          *)
(***************************************************************************)

\* discardConflict and discardQuarantined (discardTerminalEntity).
AllRows(e, status) == RowsOf(journal, e)    \* mutant: discards the entity's whole chain
TerminalRows(e, status) == WithStatus(journal, e, {status})

Discard(e, status) ==
    LET kept == Drop(journal, TerminalRows(e, status))
    IN  /\ WithStatus(journal, e, {status}) # {}
        /\ journal' = kept
        /\ overlay' = [overlay EXCEPT ![e] = IF RowsOf(kept, e) = {} THEN NoOverlay ELSE @]
        /\ UNCHANGED <<issued, synced, remote, lane, orphans, foreign, faults>>

Move(from, to) ==
    journal' = [s \in DOMAIN journal |->
                  IF journal[s].status \in from THEN [journal[s] EXCEPT !.status = to] ELSE journal[s]]

RetryFailed ==
    /\ Move({"failed"}, "pending")
    /\ UNCHANGED <<issued, overlay, synced, remote, lane, orphans, foreign, faults>>

NotRecovered == {}                      \* mutant: boot recovers nothing
Recovered == {"sending"}

\* A crash and the boot that follows: every sending row is pending again, or,
\* when the boot is a restore from a backup, every owed row is quarantined.
\* A request that was out stays out, or is lost.
Restart ==
    /\ faults < MaxFaults
    /\ faults' = faults + 1
    /\ Move(Recovered, "pending") \/ Move(Owed, "quarantined")
    /\ lane' = [l \in Lanes |-> Idle]
    /\ \E out \in SUBSET {l \in Lanes : lane[l].pc = "sent"} :
           orphans' = orphans \cup {Orphan(l) : l \in out}
    /\ UNCHANGED <<issued, overlay, synced, remote, foreign>>

ForeignWrite(e, kind) ==
    /\ foreign < MaxForeign
    /\ (server[e].ver = 0) = (kind = "create")
    /\ foreign' = foreign + 1
    /\ clock' = clock + 1
    /\ server' = [server EXCEPT ![e] =
                    [ver |-> IF kind = "delete" THEN 0 ELSE clock + 1, val |-> Foreign]]
    /\ feed' = [feed EXCEPT ![e] = Append(@, server'[e])]
    /\ UNCHANGED <<local, synced, lane, orphans, faults>>

Flush(l) ==
    \/ MarkSending(l) \/ ServerApply(l) \/ Settle(l) \/ FinishFlush(l)

Next ==
    \/ \E e \in Entities, k \in WriteKinds, m \in Modes : Enqueue(e, k, m)
    \/ \E e \in Entities : Echo(e)
    \/ Reconcile
    \/ ReadBatch
    \/ ReadUnit
    \/ \E l \in Lanes : Flush(l) \/ LoseRequest(l) \/ LoseAnswer(l) \/ Decline(l)
    \/ LateApply
    \/ \E e \in Entities, st \in {"conflicted", "quarantined"} : Discard(e, st)
    \/ RetryFailed
    \/ Restart
    \/ \E e \in Entities, k \in ForeignKinds : ForeignWrite(e, k)

Spec == Init /\ [][Next]_vars

\* The convergence driver keeps calling flush and reconcile, a request is
\* answered or fails, and the read path keeps delivering.  A pessimistic unit
\* is flushed once, in the foreground; sending it again, discards and
\* retryFailed are up to the application.
Fairness ==
    /\ WF_vars(ReadBatch)
    /\ \A l \in Lanes : WF_vars(Flush(l))
    /\ WF_vars(Reconcile)
    /\ \A e \in Entities : WF_vars(Echo(e))

FairSpec == Spec /\ Fairness
-----------------------------------------------------------------------------
Seqs == 1 .. MaxWrites
Row == [ent : Entities, kind : Kinds, mode : Modes, status : Statuses,
        base : Nat, ver : Nat, attempts : Nat]
ServerRow == [ver : Nat, val : 0 .. MaxWrites]

\* The journal, the overlay, the server's rows and the lanes are well formed.
TypeOK ==
    /\ issued \in 0 .. MaxWrites
    /\ DOMAIN journal \subseteq 1 .. issued
    /\ \A s \in DOMAIN journal : journal[s] \in Row
    /\ overlay \in [Entities -> [kind : {"none", "pending_create", "pending_update", "pending_delete"},
                                 val : 0 .. MaxWrites]]
    /\ synced \in [Entities -> ServerRow]
    /\ server \in [Entities -> ServerRow]
    /\ clock \in Nat
    /\ feed \in [Entities -> Seq(ServerRow)]
    /\ \A l \in Lanes :
         /\ lane[l].pc \in {"idle", "read", "sent", "replied", "settled"}
         /\ DOMAIN lane[l].batch \subseteq DOMAIN journal
    /\ \A req \in orphans :
         /\ req.at \in 0 .. MaxFaults
         /\ DOMAIN req.rows \subseteq 1 .. issued
         /\ \A s \in DOMAIN req.rows : req.rows[s] \in [ent : Entities, kind : Kinds, base : Nat]
    /\ foreign \in 0 .. MaxForeign
    /\ faults \in 0 .. MaxFaults

(***************************************************************************)
(* Per-entity flush serialization (ADR-0014) and its limit: what goes out  *)
(* before an earlier unresolved write of its entity, in a batch or marked  *)
(* sending, is a unit's row.  readUnitPendingRows has no gate; no row of a *)
(* batch overtakes, whatever fails, is parked or is recovered at a boot.   *)
(***************************************************************************)
GoesOut(s) == journal[s].status = "sending" \/ \E l \in Lanes : s \in DOMAIN lane[l].batch

OnlyUnitsOvertake ==
    \A s \in DOMAIN journal :
        GoesOut(s) /\ (\E t \in WithStatus(journal, journal[s].ent, Unresolved) : t < s)
            => journal[s].mode # "optimistic"

(***************************************************************************)
(* "An entity's writes reach the server in the order the client enqueued   *)
(* them" (CONTEXT.md:53): the server never replaces a later write of this  *)
(* client by an earlier one.  Units break it (no gate), and so does a      *)
(* request that is handled after its sender gave up and sent it again.     *)
(***************************************************************************)
Overtaken(e) == Foreign < server'[e].val /\ server'[e].val < server[e].val

WritesReachInOrder == [][\A e \in Entities : ~Overtaken(e)]_vars

(***************************************************************************)
(* What holds of it without units, over retries, restarts and requests     *)
(* that arrive late: only a late request replaces a later write, and only  *)
(* by a mutation that carries nothing the server could judge it by.        *)
(* reject-if-stale declines every other late update or delete.             *)
(***************************************************************************)
Judged(m) == Policy = "reject-if-stale" /\ m.kind # "create" /\ m.base > 0

ServerAuthorOrder ==
    [][\A e \in Entities : Overtaken(e) =>
        \E req \in orphans \ orphans' :
            LET s == server'[e].val
            IN  s \in DOMAIN req.rows /\ req.rows[s].ent = e /\ ~Judged(req.rows[s])]_vars

(***************************************************************************)
(* A mutation leaves the journal only when it is resolved: an owed row is  *)
(* never dropped by a trigger, a reconcile, a discard or a restart.        *)
(***************************************************************************)
OwedRowsStay ==
    [][\A s \in DOMAIN journal \ DOMAIN journal' : journal[s].status \notin Owed]_vars

(***************************************************************************)
(* No orphaned overlay: an overlay row is there because some write of its  *)
(* entity is still to be settled, converged, resolved or discarded.  An    *)
(* overlay whose last such journal row is gone would hide the server's     *)
(* row for ever.                                                           *)
(***************************************************************************)
OverlayHasOwner ==
    \A e \in Entities : overlay[e].kind # "none" =>
        WithStatus(journal, e, Statuses \ {"rejected"}) # {}

(***************************************************************************)
(* The read model shows the newest write of an entity while it is owed.    *)
(***************************************************************************)
Newest(e) == Max(RowsOf(journal, e))

OwesNewest(e) ==
    /\ RowsOf(journal, e) # {}
    /\ journal[Newest(e)].status \in Owed
    /\ journal[Newest(e)].mode # "blind"

Shows(e) ==
    IF journal[Newest(e)].kind = "delete" THEN ReadModel(e) = Absent ELSE ReadModel(e).val = Newest(e)

OwedWritesAreRead == \A e \in Entities : OwesNewest(e) => Shows(e)

(***************************************************************************)
(* Read your writes, deletes included: a local write is read at once, and  *)
(* its overlay keeps it read while it is owed, through acks, refusals,     *)
(* echoes, reconciles, retries and restarts.  One step of the code breaks  *)
(* it: the clear of an acked delete, which looks for no newer write        *)
(* (mutation.ts:3330) and takes the overlay of what followed the delete.   *)
(***************************************************************************)
Reads(e) ==
    OwesNewest(e) =>
        IF journal[Newest(e)].kind = "delete" THEN overlay[e].kind = "pending_delete"
        ELSE overlay[e].kind \in {"pending_create", "pending_update"} /\ overlay[e].val = Newest(e)

DeleteCleared(e) ==
    \E s \in RowsOf(journal, e) \ DOMAIN journal' :
        journal[s].kind = "delete" /\ journal[s].status = "acked"

ReadYourWrites ==
    [][\A e \in Entities :
        ~Reads(e)' => \/ DeleteCleared(e)
                      \/ ~Reads(e) /\ RowsOf(journal', e) \subseteq RowsOf(journal, e)]_vars

(***************************************************************************)
(* ADR-0015: a stale write means that somebody else wrote the row; a       *)
(* client's own chain of writes never makes itself stale.                  *)
(***************************************************************************)
NoSelfConflict ==
    \A l \in Lanes : lane[l].reply.kind = "acks" =>
        \A s \in DOMAIN lane[l].batch :
            lane[l].reply.acks[s].st = "conflicted" /\ lane[l].reply.acks[s].ver > 0
                => lane[l].reply.acks[s].who = Foreign

(***************************************************************************)
(* The same while every answer arrives: in a run without faults the        *)
(* resolved base of a chained write is never behind the chain itself.      *)
(***************************************************************************)
ChainIsNeverStale == faults = 0 => NoSelfConflict

(***************************************************************************)
(* Every optimistic write is settled: an owed mutation is eventually       *)
(* acked, refused or parked, unless it waits behind a write of its entity  *)
(* that only the user can move: a quarantined one, or a unit that is not   *)
(* sent again by itself.                                                   *)
(***************************************************************************)
WaitsForUser(s) ==
    \E t \in WithStatus(journal, journal[s].ent, Unresolved) :
        t < s /\ (journal[t].status = "quarantined" \/ journal[t].mode # "optimistic")

WritesSettle ==
    \A s \in Seqs :
        (s \in DOMAIN journal /\ journal[s].status \in Owed /\ journal[s].mode = "optimistic") ~>
            \/ s \notin DOMAIN journal
            \/ journal[s].status \notin Owed
            \/ WaitsForUser(s)

(***************************************************************************)
(* Convergence: an acked write is eventually cleared, overlay and all, so  *)
(* the read model follows the server again.                                *)
(***************************************************************************)
AckedConverges ==
    \A s \in Seqs :
        (s \in DOMAIN journal /\ journal[s].status = "acked") ~> s \notin DOMAIN journal
=============================================================================
