------------------------------ MODULE SyncEngine ------------------------------
(***************************************************************************)
(* One engine of the read path: syncCircuitsShapes in                      *)
(* packages/client/src/circuits/sync-engine.ts with its inbox, its group   *)
(* of stream readers and the fold.  K streams are read one response ahead, *)
(* their batches are delivered one at a time into the inbox, and when      *)
(* every shape's last response reached its tail (and, the first time, the  *)
(* server's barrier is clear) everything held is applied in one            *)
(* transaction together with the offsets it acknowledges.                  *)
(*                                                                         *)
(* A batch is the range of the stream it carries: `hi` is its offset, and  *)
(* its changes are the entries after `lo`.  The streams are external.      *)
(***************************************************************************)
EXTENDS Naturals, Sequences, SequencesExt

CONSTANTS
    ShapeNames,        \* the shapes in the order a commit applies them
    TableOf,           \* the table each shape applies into; several may share one
    Keys,
    Home,              \* the scope of each row: the shape it belongs to
    Method,            \* initialInsertMethod: "copy", "json" or "insert"
    MaxCommitRetries,
    MaxWrites,         \* bound on changes the server makes
    MaxTroubles,       \* bound on flips, failed calls, replaced streams, crashes and desyncs together
    Windows            \* the interleavings nothing in the code guards, see below

Shapes == ToSet(ShapeNames)

\* The names are the keys of one object.
ASSUME NamesAssumption == ShapeNames \in Seq(Shapes) /\ IsInjective(ShapeNames)
ASSUME SharingAssumption == TableOf \in [Shapes -> STRING]
ASSUME HomeAssumption == Home \in [Keys -> Shapes]
ASSUME MethodAssumption == Method \in {"copy", "json", "insert"}
ASSUME RetryAssumption == MaxCommitRetries \in Nat \ {0}

(***************************************************************************)
(*   "desync_crash"  the process dies inside desync();                     *)
(*   "move"          a row moves from one scope of a table to another.     *)
(***************************************************************************)
ASSUME EngineWindows == Windows \subseteq {"desync_crash", "move"}

VARIABLES
    streams,    \* the server: shape -> the logs of its streams, by handle
    truth,      \* the server: the rows the subject may read
    flips,      \* the server: evictions computed and not yet in a stream (pendingFlips)
    failed,     \* the server has abandoned a flip (flipFailures)
    rows,       \* the local synced tables
    cursor,     \* the persisted subscription state
    desync,     \* where desync() is suspended
    phase,      \* "closed": no engine; "reading": syncCircuitsShapes has opened one
    url,        \* shape -> the handle this engine was granted
    reader,     \* shape -> its stream reader
    queue,      \* the delivery chain of the shape group: the head is being delivered
    inbox,      \* StreamInbox
    commit,     \* where commitInFlight is suspended
    flags,      \* the engine's remaining variables
    history,    \* read by properties only
    used        \* what is spent of each bound

server == <<streams, truth, flips, failed>>
engine == <<phase, url, reader, queue, inbox, commit, flags>>
vars == <<server, rows, cursor, desync, engine, history, used>>

None == [offset |-> 0, known |-> FALSE]
At(n) == [offset |-> n, known |-> TRUE]

Spend(what, bound) ==
    /\ used[what] < bound
    /\ used' = [used EXCEPT ![what] = @ + 1]

-----------------------------------------------------------------------------
(***************************************************************************)
(* The server, external.  A row of the truth says in which shape's scope   *)
(* it is.                                                                  *)
(***************************************************************************)
Log(s) == streams[s][Len(streams[s])]
AppendLog(str, s, c) == [str EXCEPT ![s][Len(str[s])] = Append(@, c)]
Change(op, k, v) == [op |-> op, key |-> k, val |-> v]

Holder(t, k) == {r \in truth : r.table = t /\ r.key = k}

\* A write puts the row k in the scope of shape s.
ServerUpsert(s, k) ==
    LET old == Holder(TableOf[s], k)
        v   == used.writes + 1
        left == {r \in old : r.scope # s}
        str == IF left = {} THEN streams
               ELSE AppendLog(streams, (CHOOSE r \in left : TRUE).scope, Change("delete", k, 0))
    IN  /\ Home[k] # s => "move" \in Windows
        /\ ~\E f \in flips : f.key = k
        /\ Spend("writes", MaxWrites)
        /\ truth' = (truth \ old) \cup {[table |-> TableOf[s], key |-> k, scope |-> s, val |-> v]}
        /\ streams' = AppendLog(str, s, Change("upsert", k, v))
        /\ UNCHANGED <<flips, failed, rows, cursor, desync, engine, history>>

ServerDelete(r) ==
    /\ r \in truth
    /\ Spend("writes", MaxWrites)
    /\ truth' = truth \ {r}
    /\ streams' = AppendLog(streams, r.scope, Change("delete", r.key, 0))
    /\ UNCHANGED <<flips, failed, rows, cursor, desync, engine, history>>

\* A subquery's membership changes: the eviction is computed, and appended later.
ServerFlip(r) ==
    /\ r \in truth
    /\ Spend("troubles", MaxTroubles)
    /\ truth' = truth \ {r}
    /\ flips' = flips \cup {r}
    /\ history' = [history EXCEPT !.revoked = @ \cup {<<r.scope, r.key, r.val>>}]
    /\ UNCHANGED <<streams, failed, rows, cursor, desync, engine>>

DeliverFlip(r) ==
    /\ r \in flips /\ ~failed
    /\ flips' = flips \ {r}
    /\ streams' = AppendLog(streams, r.scope, Change("delete", r.key, 0))
    /\ UNCHANGED <<truth, failed, rows, cursor, desync, engine, history, used>>

\* The retries of a flip are exhausted: its count stays pending for good.
AbandonFlip ==
    /\ flips # {} /\ ~failed
    /\ failed' = TRUE
    /\ UNCHANGED <<streams, truth, flips, rows, cursor, desync, engine, history, used>>

\* A stream is retired; the next subscribe names a new one that starts with
\* the rows as they are.
Recreate(s) ==
    /\ Spend("troubles", MaxTroubles)
    /\ ~\E f \in flips : f.scope = s
    /\ LET mine == {r \in truth : r.scope = s}
           Snapshot == [i \in 1..Len(SetToSeq(mine)) |->
                           Change("upsert", SetToSeq(mine)[i].key, SetToSeq(mine)[i].val)]
       IN  streams' = [streams EXCEPT ![s] = Append(@, Snapshot)]
    /\ UNCHANGED <<truth, flips, failed, rows, cursor, desync, engine, history>>

-----------------------------------------------------------------------------
(***************************************************************************)
(* Opening.                                                                *)
(***************************************************************************)
Reading == phase = "reading"

EmptyInbox == [s \in Shapes |->
    [batches |-> <<>>, applied |-> None, upToDate |-> FALSE, reported |-> FALSE]]
ClosedReader == [asked |-> FALSE, from |-> 0, got |-> <<>>, busy |-> FALSE, ended |-> FALSE]
Idle == [pc |-> "idle", attempt |-> 1]

\* The handle decides: the stored offset addresses the stream it was read from.
Resumable(s) == cursor # <<>> /\ cursor[s].handle = Len(streams[s])

\* The subscribe names the current stream of each shape; getSubscriptionState.
SyncCircuitsShapes ==
    /\ phase = "closed" /\ desync = "idle"
    /\ phase' = "reading"
    /\ url' = [s \in Shapes |-> Len(streams[s])]
    /\ reader' = [s \in Shapes |->
                    [ClosedReader EXCEPT !.asked = TRUE,
                                         !.from = IF Resumable(s) THEN cursor[s].offset ELSE 0]]
    /\ queue' = <<>>
    /\ inbox' = EmptyInbox
    /\ commit' = Idle
    /\ flags' = [truncate |-> {s \in Shapes : ~Resumable(s) /\ cursor # <<>>},
                 bulk |-> {s \in Shapes : ~Resumable(s) /\ Method # "insert"},
                 aligned |-> FALSE, degraded |-> FALSE, initialSync |-> FALSE]
    /\ history' = [history EXCEPT !.tail = [s \in Shapes |-> Len(Log(s))], !.atBarrier = {},
                                  !.handed = {}]
    /\ UNCHANGED <<server, rows, cursor, desync, used>>

\* The engine is gone: unsubscribe(), or the process has died.  A transaction
\* under way rolls back.
Closed ==
    /\ phase' = "closed"
    /\ reader' = [s \in Shapes |-> ClosedReader]
    /\ queue' = <<>>
    /\ inbox' = EmptyInbox
    /\ commit' = Idle
    /\ flags' = [flags EXCEPT !.truncate = {}, !.bulk = {}, !.aligned = FALSE,
                              !.degraded = FALSE, !.initialSync = FALSE]
    /\ UNCHANGED <<url, server>>

\* A stream ended: the group above unsubscribes and subscribes again.
Restart ==
    /\ Reading /\ \E s \in Shapes : reader[s].ended
    /\ Closed
    /\ UNCHANGED <<rows, cursor, desync, history, used>>

Crash ==
    /\ Spend("troubles", MaxTroubles)
    /\ desync # "idle" => "desync_crash" \in Windows
    /\ desync' = "idle"
    /\ history' = [history EXCEPT !.stranded = @ \/ desync # "idle"]
    /\ Closed
    /\ UNCHANGED <<rows, cursor>>

\* desync(): stopGroup, then the subscription row, then the tables.
DesyncForgets ==
    /\ desync = "idle"
    /\ Spend("troubles", MaxTroubles)
    /\ desync' = "forgotten"
    /\ cursor' = <<>>
    /\ Closed
    /\ UNCHANGED <<rows, history>>

DesyncTruncates ==
    /\ desync = "forgotten"
    /\ desync' = "idle"
    /\ rows' = {}
    /\ history' = [history EXCEPT !.stranded = FALSE]
    /\ UNCHANGED <<server, cursor, engine, used>>

-----------------------------------------------------------------------------
(***************************************************************************)
(* readShapeStream: one response ahead.  The request after a batch is sent *)
(* when the batch is handed over, the one after that when it has settled.  *)
(***************************************************************************)
\* onBatch: the batch joins the delivery chain, and the next request goes out.
HandOver(rd, resp) == [rd EXCEPT !.asked = TRUE, !.from = resp.hi, !.got = <<>>, !.busy = TRUE]

\* The entries up to `hi`, up to date when that is the tail.
ResponseUpToDate(s, hi) ==       \* mutant: every response counts as the tail
    [shape |-> s, lo |-> reader[s].from, hi |-> hi, upToDate |-> TRUE]
Response(s, hi) ==
    [shape |-> s, lo |-> reader[s].from, hi |-> hi, upToDate |-> hi = Len(Log(s))]

\* A response is read.  An empty one is a long poll that timed out at the tail.
Answer(s) ==
    \E hi \in reader[s].from .. Len(Log(s)) :
        LET resp == Response(s, hi)
        IN  /\ Reading /\ reader[s].asked
            /\ url[s] = Len(streams[s])
            /\ hi = reader[s].from => resp.upToDate
            /\ reader' = [reader EXCEPT ![s] =
                            IF @.busy THEN [@ EXCEPT !.asked = FALSE, !.got = <<resp>>]
                            ELSE HandOver(@, resp)]
            /\ queue' = IF reader[s].busy THEN queue ELSE Append(queue, resp)
            /\ UNCHANGED <<server, rows, cursor, desync, phase, url, inbox, commit, flags, history, used>>

\* The stream was retired: the failure is held until the batch before it has
\* been applied, then onEnd reports it.
StreamEnds(s) ==
    /\ Reading /\ reader[s].asked /\ ~reader[s].busy
    /\ url[s] # Len(streams[s])
    /\ reader' = [reader EXCEPT ![s].asked = FALSE, ![s].ended = TRUE]
    /\ UNCHANGED <<server, rows, cursor, desync, phase, url, queue, inbox, commit, flags, history, used>>

-----------------------------------------------------------------------------
(***************************************************************************)
(* StreamInbox.                                                            *)
(***************************************************************************)
\* Batches that follow each other are kept as the range they make up together.
Push(bs, b) ==
    IF bs # <<>> /\ Last(bs).hi = b.lo THEN [bs EXCEPT ![Len(bs)].hi = b.hi]
    ELSE Append(bs, [lo |-> b.lo, hi |-> b.hi])

\* A batch at or below the applied offset is dropped; its report counts.
IngestBatch(box, b) ==
    [box EXCEPT ![b.shape].upToDate = b.upToDate,
                ![b.shape].reported = @ \/ b.upToDate,
                ![b.shape].batches =
                    IF box[b.shape].applied.known /\ b.hi <= box[b.shape].applied.offset THEN @
                    ELSE Push(@, b)]

IsGroupUpToDate(box) == \A s \in Shapes : box[s].upToDate
EveryShapeReported(box) == \A s \in Shapes : box[s].reported

\* peekAll: the changes held for a shape, in stream order.
Held(s) ==
    LET bs == inbox[s].batches
    IN  FoldLeft(LAMBDA acc, b : acc \o SubSeq(streams[s][url[s]], b.lo + 1, b.hi), <<>>, bs)

PendingOffset(s) ==
    IF inbox[s].batches # <<>> THEN Last(inbox[s].batches).hi ELSE inbox[s].applied.offset

AckAll ==
    [s \in Shapes |->
        [inbox[s] EXCEPT !.batches = <<>>,
                         !.applied = IF inbox[s].batches = <<>> THEN @
                                     ELSE At(Last(inbox[s].batches).hi)]]

-----------------------------------------------------------------------------
(***************************************************************************)
(* foldChangeBatch: one net operation per key.                             *)
(***************************************************************************)
OpsOf(changes, k) == {i \in DOMAIN changes : changes[i].key = k}
LastOp(changes, k) == changes[Max(OpsOf(changes, k))]
Deleted(changes, k) == \E i \in OpsOf(changes, k) : changes[i].op = "delete"
KeysOf(changes) == {changes[i].key : i \in DOMAIN changes}

\* The net rows: the last change of each key whose last one is no delete.
NetUpserts(changes) ==
    {LastOp(changes, k) : k \in {j \in KeysOf(changes) : LastOp(changes, j).op # "delete"}}

FoldWithoutClear(changes) ==     \* mutant: a re-created key is not cleared first
    [deletes |-> {k \in KeysOf(changes) : LastOp(changes, k).op = "delete"}, upserts |-> NetUpserts(changes)]
FoldChangeBatch(changes) ==
    [deletes |-> {k \in KeysOf(changes) : Deleted(changes, k)}, upserts |-> NetUpserts(changes)]

InTable(R, t, k) == {r \in R : r.table = t /\ r.key = k}

\* DELETE ... USING json_to_recordset.
ApplyBulkDeletes(R, t, ks) == {r \in R : ~(r.table = t /\ r.key \in ks)}

\* INSERT ... ON CONFLICT (pk) DO UPDATE: the local-only column is kept.
ApplyUpserts(R, t, s, ups) ==
    {r \in R : ~(r.table = t /\ \E c \in ups : c.key = r.key)} \cup
    {[table |-> t, key |-> c.key, val |-> c.val, scope |-> s,
      own |-> \E r \in InTable(R, t, c.key) : r.own] : c \in ups}

ApplyFolded(R, t, s, changes) ==
    LET folded == FoldChangeBatch(changes)
    IN  ApplyUpserts(ApplyBulkDeletes(R, t, folded.deletes), t, s, folded.upserts)

-----------------------------------------------------------------------------
(***************************************************************************)
(* commitHeld: one transaction over every shape, in the order of the names.*)
(***************************************************************************)
NoClear(R, s) == R                \* mutant: the rows of the old stream stay
\* The scoped clear of a shape that shares its table, TRUNCATE of one that
\* does not.
Clear(R, s) ==
    IF \E o \in Shapes \ {s} : TableOf[o] = TableOf[s]
    THEN {r \in R : ~(r.table = TableOf[s] /\ r.scope = s)}
    ELSE {r \in R : r.table # TableOf[s]}

\* The leading run of upserts is folded and bulk-loaded by an INSERT without
\* ON CONFLICT; COPY hands the last net row back.
LeadingRun(changes) ==
    LET d == SelectInSeq(changes, LAMBDA c : c.op = "delete")
    IN  IF d = 0 THEN changes ELSE SubSeq(changes, 1, d - 1)

\* Where each key of a run is seen first: the order of the net rows.
FirstSeen(run) == {i \in DOMAIN run : \A j \in DOMAIN run : run[j].key = run[i].key => i <= j}

BulkKeys(run) ==
    IF Method # "copy" THEN KeysOf(run)
    ELSE {run[i].key : i \in {f \in FirstSeen(run) : \E later \in FirstSeen(run) : later > f}}

\* The part of a shape's changes the fast path loads.
Bulk(s) == IF s \in flags.bulk THEN BulkKeys(LeadingRun(Held(s))) ELSE {}

\* applyMessagesToTableWithJson / WithCopy: a duplicate key fails the statement,
\* and with it the transaction.
BulkLoads(R, t, ks) == \A k \in ks : InTable(R, t, k) = {}

ApplyShape(tx, s) ==
    LET t       == TableOf[s]
        cleared == IF s \in flags.truncate THEN Clear(tx.rows, s) ELSE tx.rows
        bulk    == Bulk(s)
    IN  [ok   |-> tx.ok /\ BulkLoads(cleared, t, bulk),
         rows |-> ApplyFolded(cleared, t, s, Held(s))]

Transaction == FoldLeft(ApplyShape, [ok |-> TRUE, rows |-> rows], ShapeNames)

\* updateSubscriptionState, in the same transaction.
CursorAtRead ==                   \* mutant: the offset read ahead is recorded
    [s \in Shapes |-> [handle |-> url[s], offset |-> reader[s].from]]
NewCursor == [s \in Shapes |-> [handle |-> url[s], offset |-> PendingOffset(s)]]

\* useBulkBackfill is cleared inside the transaction, whatever becomes of it:
\* for a collision the statement throws first.
AlwaysBulk == flags.bulk          \* mutant: the flag is never cleared
StillBulk == {s \in flags.bulk : Bulk(s) = {}}

\* History: what a commit holds of a backfill is left to the fold, all of it.
HandedBack == {s \in flags.bulk : Bulk(s) = {} /\ Held(s) # <<>>}

\* Mutant: the response read ahead is not handed over.
SettleOnly(next) ==
    /\ commit' = next
    /\ reader' = [reader EXCEPT ![Head(queue).shape].busy = FALSE]
    /\ queue' = Tail(queue)
\* The delivery settles: a response held for its shape is handed over now.
Settle(next) ==
    LET s  == Head(queue).shape
        rd == reader[s]
    IN  /\ commit' = next
        /\ IF rd.got = <<>>
           THEN /\ reader' = [reader EXCEPT ![s].busy = FALSE]
                /\ queue' = Tail(queue)
           ELSE /\ reader' = [reader EXCEPT ![s] = HandOver(rd, rd.got[1])]
                /\ queue' = Append(Tail(queue), rd.got[1])

\* group.subscribe's callback, up to its first await: ingest, then
\* enqueueCommit with the synchronous part of gateOpen.
Deliver ==
    LET box == IngestBatch(inbox, Head(queue))
    IN  /\ Reading /\ queue # <<>> /\ commit.pc = "idle"
        /\ inbox' = box
        /\ IF flags.degraded \/ ~IsGroupUpToDate(box)
              \/ (~flags.aligned /\ ~EveryShapeReported(box))
           THEN Settle(Idle)
           ELSE /\ commit' = [Idle EXCEPT !.pc = IF flags.aligned THEN "tx" ELSE "barrier"]
                /\ UNCHANGED <<reader, queue>>
        /\ UNCHANGED <<server, rows, cursor, desync, phase, url, flags, history, used>>

\* readBarrier answers.
BarrierClear ==
    /\ Reading /\ commit.pc = "barrier"
    /\ ~failed /\ flips = {}
    /\ flags' = [flags EXCEPT !.aligned = TRUE]
    /\ commit' = [commit EXCEPT !.pc = "tx"]
    /\ history' = [history EXCEPT !.atBarrier = history.revoked]
    /\ UNCHANGED <<server, rows, cursor, desync, phase, url, reader, queue, inbox, used>>

\* Flips are pending, or the barrier cannot be read: the group waits for its
\* next delivery.
BarrierWaits ==
    /\ Reading /\ commit.pc = "barrier"
    /\ \/ flips # {} /\ ~failed /\ UNCHANGED used
       \/ Spend("troubles", MaxTroubles)
    /\ Settle(Idle)
    /\ UNCHANGED <<server, rows, cursor, desync, phase, url, inbox, flags, history>>

\* A flip was lost: terminal for the group.
BarrierDegraded ==
    /\ Reading /\ commit.pc = "barrier" /\ failed
    /\ flags' = [flags EXCEPT !.degraded = TRUE]
    /\ Settle(Idle)
    /\ UNCHANGED <<server, rows, cursor, desync, phase, url, inbox, history, used>>

CommitHeld ==
    /\ Reading /\ commit.pc = "tx" /\ Transaction.ok
    /\ rows' = Transaction.rows
    /\ cursor' = NewCursor
    /\ inbox' = AckAll
    /\ flags' = [flags EXCEPT !.truncate = {}, !.bulk = StillBulk,
                              !.initialSync = @ \/ IsGroupUpToDate(inbox)]
    /\ history' = [history EXCEPT !.handed = @ \cup HandedBack]
    /\ Settle(Idle)
    /\ UNCHANGED <<server, desync, phase, url, used>>

\* The transaction fails: by itself, or because of a fault, which may last
\* over several attempts.
TransactionFails ==
    IF ~Transaction.ok \/ commit.attempt > 1 THEN UNCHANGED used
    ELSE Spend("troubles", MaxTroubles)

\* The transaction fails and is tried again, until the retries are used up:
\* then the batches are held and the engine commits nothing more.
RetryForever ==                   \* mutant: the retries are not counted
    /\ Reading /\ commit.pc = "tx"
    /\ TransactionFails
    /\ commit' = [commit EXCEPT !.attempt = @ + 1]
    /\ UNCHANGED <<server, rows, cursor, desync, phase, url, reader, queue, inbox, flags, history>>
CommitFails ==
    /\ Reading /\ commit.pc = "tx"
    /\ commit.attempt < MaxCommitRetries
    /\ TransactionFails
    /\ \E b \in {flags.bulk} \cup (IF Transaction.ok THEN {StillBulk} ELSE {}) :
          flags' = [flags EXCEPT !.bulk = b]
    /\ commit' = [commit EXCEPT !.attempt = @ + 1]
    /\ UNCHANGED <<server, rows, cursor, desync, phase, url, reader, queue, inbox, history>>

CommitGivesUp ==
    /\ Reading /\ commit.pc = "tx"
    /\ commit.attempt >= MaxCommitRetries
    /\ TransactionFails
    /\ flags' = [flags EXCEPT !.degraded = TRUE]
    /\ Settle(Idle)
    /\ UNCHANGED <<server, rows, cursor, desync, phase, url, inbox, history>>

-----------------------------------------------------------------------------
Init ==
    /\ streams = [s \in Shapes |-> <<<<>>>>]
    /\ truth = {} /\ flips = {} /\ failed = FALSE
    /\ rows = {} /\ cursor = <<>> /\ desync = "idle"
    /\ phase = "closed"
    /\ url = [s \in Shapes |-> 1]
    /\ reader = [s \in Shapes |-> ClosedReader]
    /\ queue = <<>> /\ inbox = EmptyInbox /\ commit = Idle
    /\ flags = [truncate |-> {}, bulk |-> {}, aligned |-> FALSE, degraded |-> FALSE,
                initialSync |-> FALSE]
    /\ history = [tail |-> [s \in Shapes |-> 0], revoked |-> {}, atBarrier |-> {},
                  handed |-> {}, stranded |-> FALSE]
    /\ used = [writes |-> 0, troubles |-> 0]

Serve ==
    \/ \E s \in Shapes, k \in Keys : ServerUpsert(s, k)
    \/ \E r \in truth : ServerDelete(r)
    \/ \E r \in truth : ServerFlip(r)
    \/ \E r \in flips : DeliverFlip(r)
    \/ AbandonFlip
    \/ \E s \in Shapes : Recreate(s)

Next ==
    \/ Serve
    \/ SyncCircuitsShapes
    \/ Restart
    \/ Crash
    \/ DesyncForgets
    \/ DesyncTruncates
    \/ \E s \in Shapes : Answer(s)
    \/ \E s \in Shapes : StreamEnds(s)
    \/ Deliver
    \/ BarrierClear
    \/ BarrierWaits
    \/ BarrierDegraded
    \/ CommitHeld
    \/ CommitFails
    \/ CommitGivesUp

(***************************************************************************)
(* What was asked for is answered, what was awaited resumes, a transaction *)
(* ends in one way or another, a flip is delivered; writes, faults, resets,*)
(* crashes and desyncs are not promised.                                   *)
(***************************************************************************)
Fairness ==
    /\ WF_vars(SyncCircuitsShapes) /\ WF_vars(Restart) /\ WF_vars(DesyncTruncates)
    /\ WF_vars(\E r \in flips : DeliverFlip(r))
    /\ \A s \in Shapes : WF_vars(Answer(s)) /\ WF_vars(StreamEnds(s))
    /\ WF_vars(Deliver) /\ WF_vars(BarrierClear) /\ WF_vars(BarrierWaits)
    /\ WF_vars(BarrierDegraded) /\ []<>(commit.pc # "tx")

Spec == Init /\ [][Next]_vars /\ Fairness

-----------------------------------------------------------------------------
\* The state is well formed: a shape reads a stream that exists, and what it holds
\* is a range of positions of that stream.
TypeOK ==
    /\ phase \in {"closed", "reading"} /\ desync \in {"idle", "forgotten"}
    /\ commit.pc \in {"idle", "barrier", "tx"} /\ commit.attempt \in 1..MaxCommitRetries
    /\ flags.truncate \subseteq Shapes /\ flags.bulk \subseteq Shapes
    /\ \A s \in Shapes : url[s] \in DOMAIN streams[s]
    /\ \A i \in DOMAIN queue : queue[i].shape \in Shapes /\ queue[i].lo <= queue[i].hi

(***************************************************************************)
(* The engine implements GroupReplica: rows and offsets commit together,   *)
(* no batch is lost or applied out of order, no row of a replaced stream   *)
(* stays, whatever the crashes, retries, resets and restarts.  While       *)
(* desync() is clearing the tables the group is forgotten already.         *)
(***************************************************************************)
Replica == INSTANCE GroupReplica WITH
    cursor <- IF cursor = <<>> THEN [s \in Shapes |-> [handle |-> 1, offset |-> 0]] ELSE cursor,
    rows <- IF desync = "forgotten" THEN {} ELSE rows
ImplementsReplica == Replica!Spec

\* A group says it is ready only with everything its streams held when it
\* subscribed: no shape is presented half way through its backfill.
ReadyIsCaughtUp ==
    flags.initialSync => \A s \in Shapes : cursor[s].offset >= history.tail[s]

\* The bulk load, an INSERT without ON CONFLICT, never meets a key its table
\* holds: "the bulk backfill path is only ever correct onto an empty table" (where
\* useBulkBackfill is declared).  Not so: see SyncEngineBulk.cfg.
BulkLoadsNeverCollide == commit.pc = "tx" => Transaction.ok

\* Nothing but a fault fails a transaction, with two exceptions: a backfill that
\* stayed open because COPY handed its only net row to the fold, and rows that a
\* crash inside desync() left behind.  In every other order of responses, commits,
\* retries, replaced streams, restarts, crashes and desyncs the flag is cleared in
\* time and the tables are (useBulkBackfill, needsTruncate).
BulkLoadsAreNew ==
    commit.pc = "tx" /\ ~Transaction.ok =>
        history.stranded \/ \E s \in flags.bulk : s \in history.handed

\* The commit that makes a group ready shows no row whose eviction was computed
\* before the barrier was read: "a boot that claimed consistency in that window
\* would present a store missing an eviction" (syncCircuitsShapes).  Not so: see
\* SyncEngineEvictions.cfg.
EvictionsBeforeReady ==
    [][~flags.initialSync /\ flags'.initialSync
        => ~\E r \in rows' : <<r.scope, r.key, r.val>> \in history.atBarrier]_vars

\* When the server is quiet the local rows become the server's, through resets,
\* restarts, crashes and an unsatisfied barrier, unless the engine is degraded.
Same == {[table |-> r.table, key |-> r.key, val |-> r.val, scope |-> r.scope] : r \in rows}
        = truth
CatchesUp == <>[](flags.degraded \/ failed \/ Same)

\* The fold applied in bulk equals the ordered per-row apply, for any rows and
\* local-only columns the table may hold.
FoldIsOrdered ==
    commit.pc = "tx" => \A s \in Shapes : \A own \in BOOLEAN : \A present \in SUBSET Keys :
        LET R == {[table |-> TableOf[s], key |-> k, val |-> 0, scope |-> s, own |-> own] : k \in present}
        IN  ApplyFolded(R, TableOf[s], s, Held(s)) = Replica!OrderedApplyAll(R, TableOf[s], s, Held(s))
=============================================================================
