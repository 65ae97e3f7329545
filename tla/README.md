# A TLA+ verification of pgxsinkit

pgxsinkit is an offline-first sync engine for the browser. A client keeps a
PostgreSQL (pgwasm) in the tab or in a worker; it reads the server's tables
through streamed "shapes" into *synced* tables, writes locally into an *overlay*
and a *mutation journal*, and pushes the journal to a write API. The read model
is a view that shows the overlay over the synced rows. This directory holds
TLA+ models of the parts of it where an interleaving, a crash or a lost message
decides whether a user's write survives, the TLC configurations that check them
on small instances, and TLAPS proofs of their main invariants for every size.

Source paths below are relative to the repository; `mutation.ts` without a
directory is `packages/client/src/mutation.ts`.

## 1. Inventory

| Component | State it keeps | Operations | What is hard | What makes it correct |
|---|---|---|---|---|
| **Recovery marker** (`mutation.ts` 560-700, 1430-1520; `local-store.ts`) | a durable row `recovery_needed`, a cached flag `recoveryMarkerDirty`, a counter `markSendingInFlight` | ensure, mark sending, settle, boot recovery | several async callers on one connection; raw `BEGIN`/`COMMIT`; crash at any await | a boot that skips recovery strands no `sending` row |
| **Mutation journal and overlay** (`mutation.ts`, `mutation-state.ts`, `schema.ts`) | per table: journal rows (status, base, ack version, attempts), overlay rows | create, update, delete, blind update, flush, flushUnit, reconcile, retryFailed, discardConflict, discardQuarantined, boot recovery, restore | the flush is several awaits long; echoes, local writes and unit flushes run between them | author order per entity; nothing owed is dropped; the read model shows owed writes; acked writes converge |
| **Write API** (`packages/server/src/mutations`) | the tables | apply a batch or a unit in one transaction | conflict detection against a version the client resolved earlier; retries of what was applied | declines what is stale, applies the rest atomically |
| **Convergence driver** (`convergence.ts`) | running, queued, disposed, the current pass | start, stop, requestPass, trigger signals | coalescing signals into one follow-up; stop during a pass | no signal is lost; no pass on a closed store |
| **Client lifecycle** (`index.ts`, `lifecycle-slot.ts`) | ready stages, the lifecycle slot | stop, destroy, export, dropReadCache, discardEphemeral | destroy checks, awaits and wipes, while writes are still accepted | destroy loses nothing it was asked to keep |
| **Group lifecycle** (`circuits/group-sync.ts`, `subscription-client.ts`, desync in `index.ts`) | per group: generation, start and restart latches, engine handle, session, pending revocations; the persisted cursor row | activate, subscribe, clear what is revoked, open, restart, re-mint, stop, tear down | every await of an open may see a stop, a teardown or another restart | one restart at a time; no engine or session outlives its group; a started group reads or recovers; announced rows are gone |
| **Sync engine** (`circuits/`: stream-source, stream-inbox, shape-group, sync-engine) | per shape: buffered batches, offsets, up-to-date flags, epochs; per group: aligned, commit queue | deliver, commit, must-refetch, restart ladder, token refresh | K streams, one commit; a reset that lands during a commit | rows and offsets commit together; a group is presented only when all its shapes have caught up |
| **Apply** (`sync/fold.ts`, `apply.ts`, `subscription-state.ts`) | synced tables, subscription metadata | fold, bulk apply, save offsets | a crash between chunks; several states of a row in one batch | the fold equals the ordered apply |
| **Event lane** (`event-lane.ts`; server `events/`) | the outbox, backoff, holds; the server's queue and dead letters | append, flush, apply verdicts, sweep; consume, archive | lost verdicts, redelivery, visibility timeouts | an event leaves the outbox only on a server verdict; at least once |
| **Worker placement** (`worker/`: election-coordinator, engine-control, engine-router, attach-sync-client) | leader locks, ports, pending calls, handoff queue | elect, relocate, attach, route | a leader tab that vanishes; a call whose outcome is unknown | one engine per store; every call is answered or reported unknown |
| **Live queries** (`worker/live-query-manager.ts`, `live-diff.ts`) | shared queries with reference counts, keep-alive timers | subscribe, unsubscribe, dispose | unsubscribe racing a subscribe | no leak, no diff against the wrong base |
| **Store boot and ownership** (`store-boot.ts`, `store-ownership-lock.ts`, `store-lifecycle.ts`, `store-meta.ts`, `opfs-effects.ts`) | the meta record, the commitment sentinel, the directory and the database, the marker of a pending deletion, the ownership lock | classify, mint, commit, adopt, fall back, destroy, resume | a crash or a failing effect between any two of them; homes that cannot see OPFS | a used store is neither deleted nor shadowed; a destroyed one stays gone; no leftover keeps a boot from coming up |
| **pgwasm** (`packages/pgwasm`) | the engine, its query mutex and transaction mutex, the OPFS file pool | query, exec, transaction, live queries, file I/O | statements of several callers on one session | one statement at a time |
| **OPFS file system** (`packages/pgwasm/src/opfs`) | an arena of extents, two metadata files with logs, two activation slots | file calls, sync, repack, recovery | torn and absent writes; extents that change owner; deferred records | opens again after a crash at any step; what was synced is there; no file shows another's bytes |

How they interact: local writes, flushes and the read path share **one**
database connection, serialised per statement by pgwasm's mutex, not per
transaction. The read path's upsert into a synced table fires the
`<table>_reconcile_on_sync` trigger, which edits the journal and the overlay.
The convergence driver calls flush and reconcile; local writes signal it after
their commit; stop and destroy halt it, await its pass and close the handle. The
event lane has its own outbox in the same database and its own driver. In a
browser all of this runs in one *engine*: a SharedWorker, or a dedicated worker
that the elected tab spawns; the other tabs call it through ports. The engine's
database lies in the OPFS file system or in IndexedDB, and the boot records decide
which of the two is the store.

## 2. Modules

| Module | Models | Proofs |
|---|---|---|
| `RecoveryMarker` | the recovery marker protocol over the shared connection | `RecoveryMarkerProofs` |
| `MutationJournal` | local writes, flushing, the server's answer, echoes and clearing | `MutationJournalProofs` |
| `ClientLifecycle` | the convergence driver, stop and destroy | `StoreBootProofs`, last section |
| `GroupSync` | the lifecycle of one consistency group on the read path, with desync | `GroupSyncProofs` |
| `GroupReplica` | what the read path promises of one group: the rows are those of one recorded position in every stream | |
| `SyncEngine` | inbox, shape group, stream source, barrier, commit, fold and apply of one engine; implements `GroupReplica` | `SyncEngineProofs` |
| `EventOutbox`, `EventConsumer`, `EventLane` | the client's outbox, the server's queue and runners, and the two joined by the ingestion endpoint | `EventLaneProofs` |
| `VfsState`, `RepackedStore` | the metadata reducer of the OPFS file system; its files, log, repack and recovery under crashes | `RepackedStoreProofs` |
| `EnginePlacement` | election of an engine, routing of calls, relocation and retirement | `EnginePlacementProofs` |
| `StoreBoot` | boot classification, candidates and commitment, destruction, over crashes | `StoreBootProofs` |
| `MC*` | constants for TLC (model values, symmetry) | |

`EventLane` composes two modules by extending them; `SyncEngine` is related to
`GroupReplica` by `INSTANCE ... WITH`; `RepackedStore` is built over `VfsState`.

The definitions `PROJECT.json` lists as mutants stand next to the definition they
distort. They are not used by any specification; each is a plausible mistake that
some property is known to catch.

### RecoveryMarker

State: `durable` is what a crash leaves, `view` what the connection sees; they
differ only inside an explicit transaction (`inTxn`). `queue` is pgwasm's
statement mutex. `pc` is where each async function is suspended. `dirty`,
`inFlight` are `recoveryMarkerDirty` and `markSendingInFlight`.

A caller's step is the synchronous code between two awaits; `Execute` is the
connection running one statement and resolving one await. So *every* await is a
point where any other caller may run, and statements of other callers run inside
a raw `BEGIN ... COMMIT` of `runInTransaction`. `MarkSending`, `MarkerWritten`,
`Post`, `Answered`, `SettleRecoveryMarker` are one flush (or unit flush, which
rethrows a failed POST without settling the marker); `WriterBegin ... WriterDone`
is one local write. The boot actions are the four paths of `runBootRecovery`:
marker "false" (skip), marker "true" (lift and guarded clear in one transaction),
no marker (lift, then initialise), restore (lift, park, settle).

Abstractions: a sender owns one journal row that stands for all rows of its
batch; statuses other than `sending` are kept only as far as the guards look at
them. Stores that are owned by the caller and have no meta table have no marker
and always recover; they are left out.

### MutationJournal

State: `journal` by `mutation_seq` (which the client hands out), `overlay`,
`synced`, `server` per entity, `feed` the committed server rows not yet applied
to the synced table, `lane` the flush in progress: the batch lane is `flush()`,
serialised by `flushQueue`, the unit lane is a foreground `flushUnit`. A payload
is the sequence number of its mutation, so "whose value is this" can be asked
of any row. A server version of 0 is NULL or an absent row.

Actions: `Enqueue` (create, update, delete, updateBlind with their guards, the
captured base and the overlay upsert); `ReadBatch`/`ReadUnit` (eligible rows,
resolved bases), `MarkSending`, `ServerApply` (one transaction per request: an
exception undoes all of it, a conflict declines one mutation), `Settle` (the
status updates of the answer and the overlay drop of a rejected unit),
`FinishFlush` and `Reconcile` (the statements of `reconcileTable` in order);
`Echo` (a commit of the read path: the folded run of rows and the trigger for
each statement that hits a row); `LoseRequest`, `LoseAnswer`, `Decline`,
`Restart` (faults); `Discard`, `RetryFailed`; `ForeignWrite` (other actors).

A sender that gives up (`LoseRequest`: a gateway timeout, a dropped connection) or dies
with a request out (`Restart`) may leave it on its way: the request is lost, or it joins
`orphans` with the fault that put it there, and `LateApply` lets the server handle it at
any later instant, after the rows have been recovered, sent again, acked and followed by
newer writes. Nobody reads its answer.

Abstractions: one table; one mutation per unit; one unit lane at a time;
`Enqueue` and `ReconcileTable` are atomic (how raw transactions interleave is
`RecoveryMarker`'s subject); the backoff clock is a free choice of which failed
rows are due; a request answered 401 or 403 and re-sent with a fresh token is
one request; an answer that leaves an ack out is not modelled, nor is a public
`recoverSending` call during a flush. `who` in an ack is history: only properties
read it.

### ClientLifecycle

State: the driver's `running`/`queued`/`disposed` (as `stage`, `queued`,
`disposed`), the trigger's `shouldConverge` (`online`), the owed journal rows as
counts (`unsent` are due, `failed` wait for a backoff, `behind` are held by the
per-entity gate behind one of those, `units` are in the foreground flush of a
pessimistic batch or transaction), the store handle, and where stop() and destroy()
are suspended. `notify` counts writes that have committed and not yet called
`requestPass`: the write's caller resumes later than its commit. `late` counts the
writes after destroy()'s check, `unasked` says that a row became due and nothing has
asked for a pass since (history).

A write commits due or behind an unsettled row of its entity (`Enqueue`); a flush round
takes what is due, and what it does not get through waits, with the rows behind it. A
pessimistic unit is sent by the call that enqueued it (`UnitCommits`): when it is
answered the rows behind it become due (`UnitAnswers`), and a batch then asks for a
pass while a transaction does not; when it throws, its row stays and a batch does not
get to `requestConvergence` either (`UnitThrows`).

Abstractions: rows are counted, so which of them share an entity is a free choice,
made when they commit and when they are let go; an application's own `flush()` is one
step, because nothing awaits
it at teardown; the boot's tail has settled; the wipe and the close that follows
it are one step; `destroy()` of a store with staged events is left out with the
event lane.

### GroupSync

State: `group` is the `GroupRuntime`, with promises and handles replaced by the
number of the run they belong to (`start` is `startPromise`, `latch` is
`restartPromise`; 0 is null). `runs` holds every call of `openGroup` there has
been, because a call outlives the state it was made in: where it is suspended
(`pc`), the generation it captured, what it was granted, its engine, its session
(`lease`) and its token. `cursor` and `rows` are what is persisted for the group:
the shapes the cursor row names and the shapes whose rows are in the tables.
`told` is what `onRefused` has announced. `desync` is where `tearDownLazyGroup` is
suspended.

Actions: `EnsureGroupStarted`; one action per await of `openGroup` and of the
restart around it (`Wake`, `Subscribe`, the three outcomes of
`reconcilePersistedShapes`, `StreamAnswers`, `Opened`, `OpenFails`, and the
abandoned form of each); `StreamEnds`, `Mint`, `MintAnswered`, `MintFails`,
`Commit` for the engine and the session; `Desync`, `DesyncForgets`,
`DesyncTruncates`; `TearDown`; `GrantsChange` (the control plane, external). A
handler that calls `scheduleRestart` does so in the same step, so its helpers map
a group and its runs to their successors.

Abstractions: one group; an engine is what the group sees of it (its inbox, gate,
barrier and retries are the next module's subject; a degraded engine is left out);
a shape resumes if the cursor names it; a failed subscribe is retried and changes
nothing; `live` is true; desync's refusal over owed writes is left out; the
cursor row is read in the step in which the control plane answers.

**Windows.** Five interleavings are guarded by nothing in the code, and most
properties fail in some of them. So that what the generation and the latch *do*
guarantee can be stated, each is a switch of the constant `Windows`:

| Window | The interleaving | What it breaks |
|---|---|---|
| `early` | a stream ends, or a re-mint revokes, while `openGroup` still waits for the other streams: during a restart the latch drops it, during a start it opens a second engine beside the first | all but `OneRestart` and the ready edge |
| `failed_start` | `startGroup`'s open fails after a stop (`group-sync.ts:867`) | `EngineIsTheGroups`, `SessionsAreReleased`, `LostRowsStayGone`, `CursorHasRows`, `StoppedStaysStopped` |
| `late_mint` | a re-mint answers after its session was closed (`subscription-client.ts:231`) | the same |
| `late_clear` | a stop lands between `reconcilePersistedShapes`'s reading of the cursor and its transaction (`group-sync.ts:593`, `:623`) | `LostRowsStayGone`, `CursorHasRows` |
| `reactivated` | the group is activated between desync's deletion of the cursor and its truncate (`index.ts:3241`) | `LostRowsStayGone`, `CursorHasRows` |

The third column was found by adding each window alone to `GroupSync.cfg`.

### GroupReplica and SyncEngine

`GroupReplica` is the abstract read path: every shape has a log per stream handle, a
cursor names a handle and an offset for each shape, and the rows are always what the
ordered apply of those prefixes gives. Its only steps are that the server appends or
replaces a stream, that the group moves forward, and that it is forgotten.

`SyncEngine` is one activation of `syncCircuitsShapes`. A reader fetches one response
ahead (`Answer`), a batch is the range `lo..hi` of a log, `Deliver` puts one batch into
the inbox and, when every shape has reported up to date, asks for a commit; the first
commit waits for the server's barrier (`BarrierClear`, `BarrierWaits`,
`BarrierDegraded`), the transaction applies everything held and writes the offsets
(`CommitHeld`), fails and is retried (`CommitFails`), or leaves the engine degraded
(`CommitGivesUp`). `Recreate` replaces a stream; `Restart`, `Crash` and desync's two
steps end an activation. The fold, the bulk delete, the upsert and the bulk backfill
are operators, and `FoldIsOrdered` compares them with `GroupReplica`'s ordered apply
over every content the table may have.

Abstractions: a change is its operation, key and value; a second activation starts
from the persisted cursor only; serialised delivery makes the epoch check and the
re-run of a commit unreachable, so they are left out. `Windows` holds two
interleavings the code does not guard, a row that moves between two scopes of one
table and a crash inside desync(). `Method` is `initialInsertMethod`, which the code
sets to "copy" by default; COPY hands the last net row of a backfill to the fold.
`history` remembers which backfills were handed back whole (`handed`) and whether a
crash inside desync() has left rows behind (`stranded`).

### EventOutbox, EventConsumer, EventLane

The outbox is the pending, stamped and deleted rows, `parked` the deferred ones,
`driver` the flags that coalesce passes, `pass` where a flush is suspended.
`settleAcks` is cut at its statements, between which the process may die. The
consumer's queue is a set of messages, each with its id, the set of events it carries,
a read count and a lease; a runner loops or drains, reads the oldest messages that are
not leased (a corrupted one fails the read and is dead-lettered alone), renews what it
holds, starts callbacks up to its concurrency in the order of the ids, acks, and
dead-letters what was read too often. Batches and reads are sets: where their order
matters it is the ids'. `EventLane` adds the endpoint (a verdict per
event, and one transaction that enqueues what it accepts), requests handled after
their sender gave up, and every failure as a bounded trouble.

Abstractions: backoffs and visibility timeouts end at any time; byte limits, ages of
the sweep, the drain signal, schema validation and provisioning are left out.

### VfsState and RepackedStore

`VfsState` is the state machine of `state-machine.ts` as a value and one `Apply` that
live commits and replay share. `RepackedStore` puts it on four files. Every file
keeps what is durable and what was written since the last flush; a crash keeps, drops
or tears each unflushed effect on its own. One call of the file system is one step;
a repack is cut at its three flushes.

Abstractions: one descriptor, small files, one name per directory entry; path and
symlink resolution, modes and times, quota retries, partial reads and byte limits are
left out. An extent block holds the name of the file that wrote it, which is what
`OwnBytesOnly` asks for.

### EnginePlacement

`tab` is an attached client, `coord` its election coordinator, `router` the state of
the SharedWorker, `engine` the dedicated workers. The four kinds of channel (`inbox`,
`down`, `ctl`, `rep`) keep the order of each port. The actions are the turns of the
event loops: grants of the leader lock, control messages, attach, calls and answers,
relocations, retirement by ack or by its 3 s timeout, death of an engine, failed
boots, hidden, shown and closed pages, detach and destroy.

Abstractions: one attachment per page; the peer count that destroy() reads is read
when it is used; the SharedWorker reads different tabs' messages in the order they
were posted. Left out: keep-alive and the death of the SharedWorker itself, reconnects
after a silent bridge, provision claims, the IndexedDB fallback of the home, a queued
page in the back/forward cache, destroy()'s owed check, and the teardown of an engine
that lives in the SharedWorker.

### StoreBoot

State: the durable authority (`record`, `sentinel`, `pending`), the bytes (`dir`,
`idb`: 0 or the number of the directory or database), `disk` (what a crash would leave
of each directory), `owner` of the ownership lock and, per context, where its
operation is. A function of the source that awaits one effect after another is a
*sequence of effects* here (`RunCommitmentBarrier`, `BeginFreshCandidate`,
`ResumeDeletion`, `RunDestruction`, `SettlePendingOpfsDeletion`, ...), which `Effect`
performs one at a time: between two of them the context may end (`End`), the effect
may fail (`EffectFails`) or its bounded wait may run out (`EffectTimesOut`).
`ResolveStoreBoot` and `ResolveDeniedBootAuthority` choose the sequence, `Verdict` is
the switch over the classifier's answer. Minting is cut where the code awaits: the
handle, the lock, the open, the milestone with its barrier, the exposure. `Provision`
is the worker's accelerator, whose store the boot adopts. A boot that rejects after its
open (`Reject`: a failed effect, `LocalInitFails`) leaves the engine open and the
ownership lock held; the worker has cleared its boot promise, so a later attach boots
again in the same context (`BootAgain`), adopting the same spare or going through the
classifier, which waits for a lock its own worker holds.

Abstractions: a failed open is one failure, its retries included; a home either has a
grant, or may look and delete, or cannot open the OPFS root; an unreadable record, the
loss of a record, restore, and provision without a grant are left out. `exposed` and
`condemned` are history. Operations of two contexts follow one another (the election
makes one engine, destroy() refuses while peers are attached) while stores may be open
elsewhere; the window `overlap` lifts that, the window `provision` lets a provision, or a
retry that adopts the same spare again, run over a standing marker or a deletion that has
begun. Both break `UsedStoreIsKept`, see section 6.

## 3. Runs

| Run | Bounds | Shows |
|---|---|---|
| `marker` | 2 senders (one a unit), 1 writer that may roll back, 1 crash, fair | `MarkerCoversSending`: at no instant would a crash leave a "false" marker over a sending row, unless a rollback has undone the upsert of the marker. `BootLeavesNoSending`, `SendingIsResolved` (liveness) |
| `journal` | 1 entity, 3 local writes of any kind, deletes included, 1 foreign write, 1 fault, reject-if-stale | `OverlayHasOwner` (no orphaned overlay), `ReadYourWrites`, `ServerAuthorOrder` with requests that arrive late, and `ChainIsNeverStale` (of the behaviours without a fault) |
| `journal_units` | 2 symmetric entities, 2 updates or deletes in all three modes, 1 foreign, 1 fault | `OnlyUnitsOvertake` and `OwedRowsStay` beside unit flushes |
| `journal_live` | 1 entity, 2 creates or updates, 1 foreign update, 1 fault, fair | `WritesSettle`, `AckedConverges` |
| `lifecycle` | 3 writes, units among them, 2 offline periods, 2 failures, fair | `ClosedStoreIsQuiet`, `DestroyKeepsCheckedWrites`, `WriteGetsAPass` |
| `group_sync` | 2 shapes, 2 starts, 1 fault, 1 desync, 1 change of the grants, no window, fair | `OneRestart`, `EngineIsTheGroups`, `LostRowsStayGone`, `CursorHasRows`, `ReadyHoldsGranted`, and `BecomesReady` (liveness) |
| `engine` | 2 scopes of one table, with 2 keys and 1, backfilled by COPY, 2 server writes, 1 trouble, no window, fair | `ImplementsReplica` (the refinement), `ReadyIsCaughtUp`, `BulkLoadsAreNew`, `FoldIsOrdered`, `CatchesUp` (liveness) |
| `events` | 2 events of a stream the server registers late, one of them invalid, a looping and a draining runner, 1 trouble | `NothingLost`, `DuplicatesNeedTrouble`, `OneCallbackPerMessage` |
| `events_live` | 1 event, the rest as above, fair | `EveryEventSettles` |
| `opfs` | 2 symmetric names, 2 extents, 3 file calls, 3 generations, 1 crash or failure (with two, only `ReplayGivesLiveState` holds, section 6) | `OpensAgain`, `ReplayGivesLiveState`, `OwnBytesOnly`, `SyncedSurvives` |
| `placement` | 2 pages, 1 mutation, 1 event, up to 4 engines, fair | `OneEngine`, `OutcomeIsHonest`, `EveryCallSettles` |
| `store_boot` | 2 contexts, all three homes, 5 directories or databases, 2 destroys, 3 troubles | `UsedStoreIsKept`, `CommittedIsWhole`, `DestroyedStaysGone`, `GrantedBootSucceeds` |

Sixteen more configurations are kept beside them. Fifteen are expected to fail: each shows
one of the disagreements of section 6. `SyncEngineBackfill.cfg` passes: it is
`BulkLoadsAreNew` with COPY, two troubles and the window `desync_crash`.

Why the bounds are enough to be interesting. Two senders are what the marker's races need
(one marks while the other clears) and the writer is what opens a transaction around them;
the proofs remove the bound. Three writes give an entity a head, a middle and a tail, so a
middle one can be parked, refused or discarded with owed writes on either side; the foreign
write makes conflicts; one fault of any kind may hit any request, answer or instant;
`MaxAttempts = 2` lets a row fail once and be parked at the second attempt. In
`journal_units` the second entity puts two mutations in one request, so a partial rejection
and an undone transaction have a sibling to affect. In `journal` a fault may leave a request
on its way that the server handles after the retry. Under last-write-wins `AckedConverges`
fails in the instance of `journal_live` (the update of an absent row is acked without a
version), and with units `OverlayHasOwner`, `ChainIsNeverStale` and `ReadYourWrites` do not
hold, which is what overtaking (section 6) leads to; those runs say so by their constants.
In `group_sync` the second shape is the one that stays when the other is revoked, lost or
refused; the second start is the activation after a desync; one fault makes a restart, and
the proofs show that more of them change nothing about the latch, the engine and the
session. In `engine` two scopes of one table are what a truncation of one of them may hurt;
two writes make a backfill and a change after it, or a backfill of two rows, which COPY
loads but for one. In `opfs` an extent is freed, aged over two repacks and given to another
file within three calls. In `placement` one event is enough to move the engine once with a
call in flight. In `store_boot` three troubles let a destroy be cut off, its resumption be
cut off, and the boot after that fail to open; five mints let a store be used, destroyed,
replaced, destroyed and replaced again.

Deadlock is checked for the marker (a client that is up can always write), for the
event lane and for the file system (which can always be opened again). The other
models stop when their bounds are used up and everything is idle, so there it is off.

### Fairness

* `RecoveryMarker`: the connection keeps executing, each suspended function resumes, a POST
  is answered or fails (a fetch that loses its connection rejects; the client sets no
  timeout of its own), a process that is down is started again. Local writes and crashes are
  not fair.
* `MutationJournal`: the driver keeps calling flush and reconcile (its interval
  trigger), requests are answered or fail, and the read path keeps delivering.
  Units are not fair: nothing re-sends a pessimistic unit by itself. Discards and
  `retryFailed` are the user's. `WritesSettle` therefore excuses a write that
  waits behind a quarantined write or an unsent unit of its entity.
* `ClientLifecycle`: what was awaited resumes and `start()` is reached. No tick of
  the trigger is promised: `WriteGetsAPass` is exactly the claim that a write does
  not depend on one; a unit's request is answered or fails. The property excuses a client
  that is offline, stopped, or whose last pass threw, and rows that became due with a unit
  whose caller asks for no pass (`unasked`). A row held behind a failed one is not due.
* `GroupSync`: what was awaited resumes: backoffs end, the control plane and the
  streams answer in the end (both are retried without limit), an engine commits, and
  desync runs to its end. Starts, faults, re-mints, stops and changes of the grants
  are not fair.
* `SyncEngine`: streams answer, batches are delivered, the barrier is polled, a transaction
  ends in one way or another, a flip reaches its stream, and a client that is down is
  started. Server writes and troubles are not fair. `CatchesUp` excuses a degraded engine
  and a flip the server has given up.
* `EventLane`: the driver ticks, requests are answered or fail, leases lapse, a runner
  is started again, callbacks return or throw, and a late stream is registered in the
  end. Appends and troubles are not fair.
* `EnginePlacement`: each event loop keeps taking turns: a page that is not hidden, the
  SharedWorker, a live engine; a hidden page is shown again. What users and failures do
  is not fair. `EveryCallSettles` excuses a stranded page (section 6) and states
  nothing past the bound on engines.

## 4. Proofs

All theorems hold for every value of the constants (any number of senders,
writers, entities, writes, faults, crashes; the bounds are constants too).

**RecoveryMarkerProofs**. `MarkerTheorem` (`[]MarkerCoversSending`) and `BootTheorem`
(`BootLeavesNoSending`) for every instance, writers that roll back included: the history
variable `undone` records that a rollback has taken another caller's statement with it,
and `RecoveryMarkerRollback.cfg` shows that this exception is needed. `TypeTheorem`
is type correctness for instances in which no write rolls back (`Failing = {}`).
`MarkerCoversSending` speaks of two variables of the store, but depends on every
caller's position. The inductive `MarkerInv` adds: the store as the *connection*
sees it is covered too (an open transaction will commit it); every queued
statement is the only one of its caller, who is suspended at that statement's
await (`QueueOK`); the counter is the number of open spans (`Cardinality`); no
clear is queued inside a span (`ClearStaysOutsideSpans`); a sender that relies on
the marker sees it "true"; the cached flag is backed by the view and by the
absence of queued clears; outside a transaction the view is what is durable;
nothing runs while the process is down. The heart is the UPDATE to `sending`: the
sender is at "marking", so the marker is "true" in the view, and no clear is
ahead of the UPDATE.

**MutationJournalProofs**. `OrderTheorem` (`[]OnlyUnitsOvertake`), with all modes and
faults, says what units do and nothing else does: `OrderInv` adds that each lane holds only
rows of its own mode, and that a row handed to a flush is still unsettled when its answer
arrives (`LaneRows`). Without it a settled row could be settled again. `OwedTheorem`
(`OwedRowsStay`): an action property; every clearing statement drops only rows in a resolved
status. `ServerTheorem` (`ServerAuthorOrder`), under `Modes = {"optimistic"}`, with requests
that arrive after their sender gave up: only such a request replaces a later write of the
client, and only by a mutation the server has nothing to judge by (a create, one without a
base, any under last-write-wins). `MutationJournalOvertake.cfg` and
`MutationJournalLate.cfg` show the two cases that remain. `ServerInv` adds `NothingOlder`:
the server's row is no later than any write of its entity that may still be sent. With the
order of the batch this is what makes a retry after a lost answer harmless: what is sent
again is still the oldest unresolved write. A late request is not of that kind: of
those `OrphansBehind` says that once the server has a later write of the client, the row is
gone or its version is above the base the mutation carries, so what can be judged is
declined (`JudgedIsDeclined`).

The next three build on it, under the same hypothesis (with units none of them holds,
section 6). `OverlayTheorem` (`[]OverlayHasOwner`): `OverlayInv` adds `Resolved`, that
every write before a settled one of the same entity is settled too, so that the
statement that clears a converged prefix never takes the last journal row from under
an overlay; `NoneRejected`; and that an answer only speaks of what the batch holds.
`ReadTheorem` (`ReadYourWrites`) is an action property and includes deletes: every step
keeps the overlay of an owed newest write, but for the clear of an acked delete, which
`MutationJournalDeletedReads.cfg` shows to break it. `ChainTheorem` (`[]ChainIsNeverStale`) is the
deepest: `VerInv` orders the versions (what is synced, what is on its way in the feed,
what the server has, the clock), and `ChainFacts`, which hold while no fault has
happened, say where the server's version of an own write is to be found: in an answer
on its way, in an acked row of the journal, or in the synced table (`Accounted`). So a
write that picks its base from the journal or the table picks the current one
(`BaseFresh`, `LaneFresh`), and only somebody else's write can make it stale
(`LaneAnswers`).

**ClientLifecycle**, proved in the last section of `StoreBootProofs`, which extends both
components (they share no variable and nothing is composed; the names that would clash are
`ClientInit`, `ClientSpec`, `StopClient`, ... in `ClientLifecycle`).
`QuietTheorem` (`[]ClosedStoreIsQuiet`) and `DestroyTheorem`
(`DestroyKeepsCheckedWrites`). The invariant adds `Halted` (a
teardown in progress has disposed of the driver, so no pass starts while it
awaits) and `Counted` (between its check and its wipe an unforced destroy() owes,
due, failed, held behind and in units together, no more than what was written since).

**GroupSyncProofs**. `RestartTheorem` (`[]OneRestart`) holds in every window. Its
invariant `RestartInv` says that no run is ahead of the group's generation, that the
latch names a restart of that generation which has not ended, and that there is no
other. `OwnedTheorem` (`[]EngineIsTheGroups`, `[]SessionsAreReleased`,
`[]ReadingOrRecovering`) assumes that `early`, `failed_start` and `late_mint` are not
in `Windows`; `late_clear` and `reactivated` may be. `Owned` adds what the
three have in common: a group that is not torn down has at most one run of its
generation, and while it has one it has no handle and no other run's session. That is
what makes `group.handle = handle` safe: nothing is overwritten that would have to
be closed. `Reading` is `ReadingOrRecovering` with what is needed to carry it over a
step: the fault that takes the engine away always finds the latch free, so a restart
takes its place. Both are predicates of a group and its runs, with one lemma for
each helper, because a handler takes several of these steps at once.
`GroupTypeTheorem` is `[]TypeOK`. `RowsTheorem` (`[]CursorHasRows`), `LostRowsTheorem`
(`[]LostRowsStayGone`) and `ReadyTheorem` (`ReadyHoldsGranted`) assume `Windows = {}`:
the windows are where the code leaves these open. `RowsInv` relates the runs to what is
persisted: at most one run is between its reading of the cursor and its clear, none is
while desync() is under way, and an engine that serves the group commits only shapes
its session was granted and nothing that was announced as lost.

**SyncEngineProofs**. The first part, on positions, holds in every window and without an
assumption on the constants but the module's own. `ReadyTheorem` (`[]ReadyIsCaughtUp`) is
a statement about the cursor of the last commit; what makes it true is where everything
between the cursor and the reader is, at every instant before (`PosInv`): what the inbox
holds for a shape is one range that starts at the recorded position (`BoxOK`); the batches
of the chain and the response read ahead continue it in order, each starting where the one
before ended (`LineOK`); a batch that says it is up to date reaches at least the tail at
subscription; a commit is under way only while every shape is up to date; and streams
only grow. `HeldTheorem` is the first of these as a property of its own: a transaction
applies exactly the entries between the recorded position and the one it records.
`ReplicaTheorem` is the refinement of `GroupReplica` but for the rows: every step that
changes the streams or the recorded position is, as far as those are concerned, a step of
`Replica!Serve` (streams are added and extended, entry by entry), `Replica!Commit` (every
shape moves to a later position) or `Replica!Forget`.

The second part is about the rows. `FoldTheorem` (`[]FoldIsOrdered`) also holds in every
window: the fold keeps the last operation of each key, the ordered apply runs through the
batch, and both are folds over the positions of a sequence, so they are compared by an
induction on the number of positions applied. The induction is spelled out for a set of
numbers (the least position at which they differ), since the library's induction takes an
operator. `ReplicaRefined` (`ImplementsReplica`, rows included) assumes `Windows = {}`.
`RowsInv` adds to `PosInv`: a stream carries keys of its own shape only and begins with an
upsert (`HomeOK`, which a row moving between scopes breaks); the rows in the scope of a
shape are what its recorded prefix stands for, outside desync() (`StandsOK`); and the shapes
a commit clears first are exactly those whose recorded stream was replaced (`TruncateOK`),
so applying what is held to the rows that stand gives the rows of the longer prefix.
`NamesAssumption` says that the shapes' names are the keys of one object, so a transaction
goes through each shape once. `BulkTheorem` (`[]BulkLoadsAreNew`) holds for every
`initialInsertMethod`, COPY included, and with crashes inside desync(); assumed is only that
no row moves between scopes. It adds that a shape whose backfill is open has been applied
nothing of its stream, or only what COPY handed back (`BulkOK`), that the rows stand for the
recorded prefixes unless a crash inside desync() has stranded some, and that while a commit
is under way the group is reading. So the two collisions `SyncEngineBulk.cfg` and the window
`desync_crash` show are the only ones.

**EventLaneProofs**. No assumption on the constants. `OneCallbackTheorem`
(`[]OneCallbackPerMessage`): `ConsumerInv` says that while no renewal has failed, what a
reader renews is leased and is no other reader's (`HeldOnce`, `HeldIsLeased`), and that a
callback's message is among what its reader renews until it has ended. `NothingLostTheorem`
(`[]NothingLost`) adds `Honoured`: every ack on its way to the client speaks of events that
are in the queue, in the archive, done or turned down. `DuplicatesTheorem`
(`[]DuplicatesNeedTrouble`) is an account (`Accounted`): the copies enqueued, the requests
that may still be handled after their sender gave up, and the one that is due never
exceed one more than the troubles so far.

**EnginePlacementProofs**. `OneEngineTheorem` (`[]OneEngine`): `Held` says that one page at
most has the leader lock and that a live engine is the one its holder has a handle of, so
ending the worker before the lock is given up, or replaced, ends the only one.
`HonestTheorem` (`[]OutcomeIsHonest`): a call that was not posted, or whose caller was told
so, has no pipe, and nothing gives it one later.

**StoreBootProofs**. All four properties of `store_boot`, under `Windows = {}` (operations
of different contexts follow one another, no provision over a standing marker); both
windows break `UsedStoreIsKept`. `GrantedTheorem` leaves out a boot that waits for the
engine an earlier boot of its own worker left open (`HeldByEarlierBoot`,
`StoreBootRetry.cfg`). `UsedTheorem`, `CommittedTheorem`, `DestroyedTheorem` and
`GrantedTheorem` share one invariant `Inv`: `Fits` says of each place of an operation what
the durable authority is there, and `Planned` lists every sequence of effects an operation
can be in the middle of, with what the effects already performed have established. An
operation may be cut off between any two of them, so each clause is also what the next
boot has to live with.

**RepackedStoreProofs**. `ReplayTheorem` (`[]ReplayGivesLiveState`) for every number of
names, descriptors, calls, generations and troubles, and every size of files and extents;
assumed is only that the sizes and limits are numbers. Replay is a fold over the log and the
log is a fold over the unflushed effects, so both are first turned into facts about their
steps: `Left` is a run of `Effect`s (`LeftRuns`), and `Replay` is the end of a chain of
*places* (state, offset, sequence number), each of which takes the frame in turn
(`ReachReplay`). Frames never overlap, so at most one is in turn (`OneFrameAt`), two
chains of a log agree, and a chain that can go no further is where replay ends
(`ReachEnds`). The induction on the number of frames is spelled out by the least number.

The invariant `LogInv` says: the selected slot and its base name each other; the active
file as it stands replays to a place at the cursor, and the live state is that place's, or
that place's with the pending resize applied (`LiveOK`); while a repack is under way the
other file's base is the projection of what is live (`NextOK`), and once the slot is
written, it is the slot of the other parity, one ahead (`ActivOK`, `SlotTurns`), so
installing it changes which file is followed and nothing else. Two lemmas carry the
interesting steps. `CommitFollows`: whatever `#commit` does with a record (append it,
append the pending resize before it, defer it, merge it) the replayed place follows the live state.
`MergedResize`: the reducer cannot tell two growing resizes of a file from the merged one,
the identifiers, free extents and quarantine included, and admits the merged one when it
admitted both; that is what makes the mutant that forgets the earlier allocation wrong.
Recovery needs no assumption on what a crash left: what replays is what is live
(`RecoverKeeps`). That the store *can* be opened, and that what it opens is what was
synced, are other properties (below).

`StoreTypeTheorem` (`[]TypeOK`, which also holds in the instance of `opfs`), under the same
assumptions, is about the live metadata: the extents are split between the files, the free
ones and the quarantine, each in exactly one place (`Unshared`, `Split`), every path is
placed in the tree, and a quarantined extent is untagged or tagged with the installed
generation (`Tagged`). `SoundInv` says it, beside `LogInv`, of the live state, of the base
of every metadata file and of every effect not yet flushed, since a crash may make any of
these the live one. `ApplySound`: the reducer takes a sound state and a record it admits to
a sound state; `ReplaySound`: so whatever prefix a crash leaves replays to one.
`ProjectSound`: a repack releases all that was tagged before it, or takes the tag away when
an orphan pins it, so the only tag it leaves is the new generation's. This needs the
retained generation to be none or the one before (`Retains`), and recovery reads it off the
other slot, so the invariant also has that a slot's generation is its turn (`SlotGens`,
`PairIsSound`). `FilesStay`, that a record takes away no file but the one it removes or
replaces, keeps every descriptor on a file (`FdsOK`).

Only model-checked:
* all liveness (`SendingIsResolved`, `WritesSettle`, `AckedConverges`, `WriteGetsAPass`,
  `BecomesReady`, `CatchesUp`, `EveryEventSettles`, `EveryCallSettles`), which the prover
  does not do;
* `ImplementsReplica` where a window is open (section 6 says what happens there);
* of `RepackedStore`: `OpensAgain`, `OwnBytesOnly` and `SyncedSurvives`. They hold for one
  trouble and for two none of them does (section 6), so a theorem would be about
  `MaxTroubles <= 1` and not about the code.

## 5. Hazards

`PROJECT.json` lists them with their lines and properties. Eight have no property of a
run. Seven of these go wrong in the code: undone raw transactions, a write between
destroy()'s check and its wipe, a start that fails after a stop, a desync between the
reading and the rewriting of the cursor, a late re-mint, a crash inside desync(), and a second
trouble during a recovery of the file system. Their notes name the configuration or the
window that shows it, and the property that holds of everything else. The eighth is a
refused destroy(), which leaves a halted client; the code promises nothing about it.

## 6. Disagreements between the code and its documents

What a comment, a document or a test says, and what the code does. The first group
is shown by the fifteen configurations beside the runs: each checks one property of
its module where the code's window is open, and TLC's trace is the code's behaviour.
Run one with `tlc -config X.cfg MC<module>`.

* `RecoveryMarkerRollback.cfg`. The marker's upsert is described as auto-committing.
  Issued between another caller's `BEGIN` and `ROLLBACK` it is undone with that
  transaction, while the cached flag stays set; the next sending row commits
  under the old marker value and a crash then strands it.
* `MutationJournalOvertake.cfg`. "An entity's writes reach the server in the order the
  client enqueued them": `readUnitPendingRows` has no per-entity gate, so a
  pessimistic unit overtakes an older optimistic write, which then replaces it on a
  last-write-wins table.
* `MutationJournalLate.cfg`. The same sentence (`CONTEXT.md:53-54`), without units: a
  request that the server handles after its sender gave up and resent puts an earlier
  write over a later one where the server has no base to judge it by, as on a
  last-write-wins table. There is no dedupe ledger (`mutation.ts:408-411`).
* `MutationJournalDeletedReads.cfg`. The delete clear of `reconcileTable` removes the
  overlay with the acked delete without looking for newer owed rows of the entity.
* `ClientLifecycleDropped.cfg`. A write that commits between destroy()'s count of owed
  rows and its wipe is dropped, although destroy() refuses "so it never silently drops
  un-flushed writes" (`index.ts:1557-1560`). With `WriteFlushesImmediately` in the place of
  its property it shows another: "the moment a mutation is enqueued, ask the driver to run
  a pass so the write flushes immediately" (`index.ts:3004-3006`) is not so for what a
  batch has enqueued when its pessimistic unit throws (`index.ts:3028-3032`), nor for the
  rows that a pessimistic transaction has let go.
* `GroupSyncRevived.cfg`. "The generation bump is what makes that stick" (stopGroup): an
  activation whose open fails after the stop schedules a restart in `startGroup`'s
  catch, which compares no generation, unlike the catch of `scheduleRestart`. The
  stopped group subscribes again and fills the tables desync() has truncated.
* `SyncEngineBulk.cfg`. "The bulk backfill path is only ever correct onto an empty table"
  (`sync-engine.ts:235`). With `initialInsertMethod: "copy"` a backfill whose only net
  row is handed to the fold (`sync-engine.ts:322`) leaves `useBulkBackfill` set; the
  next commit copies onto rows that are there, fails with a unique violation on every
  retry, and the engine degrades. A crash inside desync(), between the deleted cursor and
  the truncate (`index.ts:3241`), makes it false with every `Method`: the next activation
  bulk-loads over the rows that stayed. (The same property with `Method = "json"`,
  `MaxTroubles = 2` and the window `desync_crash`.)
* `SyncEngineEvictions.cfg`. "A boot that claimed consistency in that window would present a
  store missing an eviction" (`sync-engine.ts:173-176`) is what the barrier is for. The
  eviction can be computed, served and settled between the last answer of its shape and
  the reading of the barrier, which then reads clear: the group turns ready with the row.
* `EventLaneLetters.cfg`. `onDeadLetter` is "notified for every dead-lettered sub-batch". The
  consumer archives first and reports afterwards (`consumer.ts:511-524`): a runner that
  dies between the two leaves a dead letter nobody was told of.
* `RepackedStoreReopen.cfg`. "After a strict sync returns, all preceding data and metadata
  are recoverable together" (ADR-0048:287-288). At open the dirty flags come from the
  files' lengths alone (`metadata-store.ts:447-452`, `repacked-vfs.ts:248-249`): bytes that
  a failed store had written and never flushed count as clean, the next strict sync
  flushes nothing, and a crash then loses them. A discarded suffix is likewise
  truncated without a flush.
* `RepackedStoreUnflushedSlot.cfg`. "Under crash model A, one invalid slot is always
  consistent with the current in-progress overwrite; the other independently valid,
  digest-matched slot is the authority" (docs/plans/0048-opfs-repacked-vfs.md). An
  activation that was written but whose flush failed poisons the store; its reopen selects
  that slot and flushes nothing (`openMetadataStore`, `recoverActivated`); the next repack
  resets the other metadata file, which the durable slot still names. A crash that loses
  the unflushed slot leaves no slot whose base is there, and the store is corrupt. It takes
  two troubles, the failed flush and the crash; with one, `OpensAgain` holds (run `opfs`).
* `OwnBytesOnly` with two troubles. "Recovery is a valid metadata-transaction prefix, and no
  prefix can expose bytes belonging to a different owner"
  (docs/plans/0048-opfs-repacked-vfs.md:128-129). A crash keeps the second of two unflushed
  frames and loses the first; recovery discards it by a truncation it does not flush
  (`metadata-store.ts:453`). A new frame of the old length takes the first one's place and
  sequence number, then a file is written. A second crash that loses the truncation and the
  last frame leaves a log in which the discarded frame is in turn again: nothing ties it to
  the frame before it, so replay admits it, and its file shows what the other file wrote.
  (`RepackedStore.cfg` with `ExtentSize`, `MaxExtents` and `MaxSize` of 1, no descriptor,
  `MaxOps = 5`, `MaxGen = 0` and `MaxTroubles = 2`; TLC takes about eight minutes.)
* `EnginePlacementHidden.cfg`. "On `pageshow` it re-queues and re-attaches" (ADR-0049:97-98).
  A page shown again before pagehide's retirement has ended still holds the lock, so
  `queueLock` returns (`election-coordinator.ts:424-429`); the retirement then releases
  it, and the page keeps a claim that asks for nothing.
* `EnginePlacementNotice.cfg`. `engine-retiring` is "for OUR current engine"
  (`election-coordinator.ts:205-209`). A pipe message of the dead engine, read after the
  respawn, makes its identity the current one again (line 214); the notice behind it
  then terminates the successor.
* `StoreBootProvision.cfg`. "The FIRST thing every browser boot does, before any
  classification or open" (`store-boot.ts:232-234`) is to settle the pending marker;
  provision followed by adopt (`define-sync-worker.ts:1226-1296`) never does, and the
  boot after it deletes the committed store.
  With the window `overlap` in the place of `provision`, a destroy that overlaps the next
  boot of the same store deletes what that boot has opened.
* `StoreBootRetry.cfg`. "The `opfs-candidate` record survives, and the next boot's
  classifier tears the candidate down and rebuilds" (`index.ts:3845-3846`). A boot whose
  barrier throws leaves its engine open, and the worker forgets the boot
  (`define-sync-worker.ts:1449`): the next boot in the same worker waits for a lock its own
  worker holds, and fails, until the worker ends.

Others were met on the way and have no configuration of their own. They can be
reproduced by adding the formula given to a configuration of the module:

* A flush moves a due `failed` row directly to `sending`; `MUTATION_TRANSITIONS` in
  `mutation-state.ts:50` has no such transition. (`MutationJournal`: a row's status
  never goes from "failed" to "sending" in one step.)
* `reconcileTable` keeps an overlay only for pending, sending and failed rows, so
  clearing an earlier acked write hides a later acked write that has not been
  echoed (`docs/architecture.md:33`), or a conflicted one (ADR-0015, line 42).
  (`MutationJournal`: an entity with an acked update newer than its synced
  version, or with a conflicted row, has an overlay.)
* After a lost answer the retry carries the base of the first attempt, which the
  first attempt has overtaken: the client's own write comes back conflicted
  (ADR-0015, line 31). (`NoSelfConflict` with one fault and no foreign write.)
* A create and its delete that arrive in one read-path commit fold to a delete of
  a row the synced table never had; no trigger fires, and the acked create stays in
  the journal. (`AckedConverges` with `WriteKinds = {"create", "delete"}`.)
* A rejected unit's row never leaves the journal and keeps later overlays of its
  entity alive. (`OverlayHasOwner` with pessimistic writes.)
* A chained write whose predecessor has been cleared takes the synced version at
  flush time as its base, which may be a foreign version that arrived after it was
  authored; the server then finds nothing stale. ADR-0015 (line 55): "Silent
  last-write-wins becomes impossible". (`MutationJournal`, with the synced version at
  `Enqueue` kept in the row: an applied write has seen the foreign row it replaces.)
* The windows `early`, `late_mint`, `late_clear` and `reactivated` of `GroupSync`, with
  the properties named in section 2. `early` leaves a group that is, in the words of
  `scheduleRestart`'s comment, "neither reading nor recovering".
* A scope that is revoked on a re-mint and granted again before the restart's
  subscribe is still announced by `onRefused`, though its rows stay.
* destroy() halts the client before it may refuse, and the abort signal is never
  reset: "Flush them first" is then impossible on that client. (`ClientLifecycle`:
  after a refusal, under fairness of `AppFlush`, the owed count reaches 0.)
* A row that moves between two scopes of one table can be lost when the new scope's
  insert is committed before the old scope's delete ("deletes are unambiguous",
  ADR-0055:133; the window "move" of `SyncEngine`).
* `commitRerun` and the epoch comparison of `resetShape` cannot be reached: the group
  delivers batches one at a time, so no commit is under way when another begins.
* The consumer compares a message's delivery count with `maxAttempts` only after its
  callback has thrown (`consumer.ts:583`): a sub-batch whose callback ends the process
  is delivered again without end. (`EventConsumer`.)
* The coordinator's own `engine-retiring` reaches nobody: no listener of the SharedWorker
  takes it (`election-coordinator.ts:389-391`, against ADR-0049:143-144). And
  `detachFromWorker` posts `tab-detach` before `engine-teardown`, so the retirement by
  the last tab's stop() always ends by its 3 s timeout. (`EnginePlacement`.)
* With the record lost and its home denied but observable, boot mints a sibling store
  beside a committed one. (`StoreBoot`.)

## 7. Plan

1. `RecoveryMarker`, `MutationJournal`, `ClientLifecycle` - done, their safety proved.
2. Read path: `GroupSync` - done, its safety proved. `SyncEngine` with the abstract
   `GroupReplica` it implements - done, the refinement proved.
3. Event lane: `EventOutbox`, `EventConsumer` and their composition `EventLane` - done,
   its safety proved.
4. `EnginePlacement` and `StoreBoot` - done, their safety proved.
5. OPFS: `RepackedStore` with the reducer `VfsState` - done; that replay gives the live
   state and that the live metadata stay well formed are proved, the rest model-checked.
6. Proofs, next: were recovery to flush what it truncates and selects, the three
   properties of `RepackedStore` that two troubles break would be worth a proof.
7. Modules, after that: live-query reference counts, pgwasm's `transaction()` beside
   raw transactions, and a composition in which `SyncEngine` takes the place of
   `GroupSync`'s `Commit` and of `MutationJournal`'s `Echo` as the source of synced
   rows.

## 8. Not modelled

* Row contents (projection, managed fields, encodings, JSON), registry declarations
  and their diffs, SQL generation and row security, authentication, logging, React
  bindings, the example applications, the REPL and pg_dump packages, and the C build
  of PostgreSQL: declarations, presentation or third-party code without protocol
  state. They are most of the repository's lines; the code that keeps state across
  steps of several actors is a small part of it, and is what the modules cover.
* The circuits subscription service answers one request at a time and keeps nothing
  between them that the client's groups do not hold; its answers are inputs of
  `GroupSync`.
* Of the OPFS file system: path and symlink resolution, modes and times, quota retries
  and partial writes. Of the event lane: the drain signal that wakes a waiting caller.
* Live queries and pgwasm's `transaction()`: in the plan.

`PROJECT.json` gives the status of each component.
