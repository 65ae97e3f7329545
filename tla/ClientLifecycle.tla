--------------------------- MODULE ClientLifecycle ---------------------------
(***************************************************************************)
(* The convergence driver (packages/client/src/convergence.ts) and the     *)
(* teardown of the client that owns it (stop and destroy in index.ts).     *)
(*                                                                         *)
(* A pass is flush then reconcile.  One pass runs at a time; a signal that *)
(* arrives during a pass is coalesced into a single follow-up.  Signals    *)
(* come from the trigger and, the moment it has committed, from every      *)
(* local write.  A flush sends what is due, one write of an entity at a    *)
(* time, in author order; a pessimistic unit is sent by the call that      *)
(* enqueued it.  stop() and destroy() first halt everything synchronously  *)
(* (haltActivity), then await the pass in flight, then close the store;    *)
(* destroy() also refuses while writes are owed, and wipes.                *)
(***************************************************************************)
EXTENDS Naturals

CONSTANTS
    MaxWrites,     \* bound on the journal rows of local writes
    MaxFlips,      \* bound on the times the app goes offline or is hidden
    MaxFailures,   \* bound on failed requests and on passes that throw
    Forced         \* the `force` options destroy() is called with

ASSUME BoundsAssumption == MaxWrites \in Nat /\ MaxFlips \in Nat /\ MaxFailures \in Nat
ASSUME ForcedAssumption == Forced \subseteq BOOLEAN

VARIABLES
    stage,      \* the pass in flight; "none" is running = false
    queued,     \* a follow-up pass was asked for
    disposed,   \* the driver was stopped (set with abortUnitRows)
    subscribed, \* start() has subscribed to the trigger
    passError,  \* the error of the last pass
    unasked,    \* a row became due and nothing asked for a pass since
    online,     \* trigger.shouldConverge()
    writes,     \* local writes committed
    notify,     \* committed writes that have yet to call requestPass
    unsent,     \* owed journal rows that are due
    failed,     \* owed rows that wait for a backoff, or for the application
    behind,     \* owed rows held behind an unsettled one of their entity
    units,      \* rows of the pessimistic units in flight, by the call that awaits them
    store,      \* the pgwasm handle
    pc,         \* where stop() and destroy() are suspended
    force,      \* the option of the destroy() in progress
    late,       \* writes committed after destroy() counted the owed rows
    flips, failures

Units == {"batch", "transaction"}

driver == <<stage, queued, disposed, subscribed, passError, unasked>>
rows == <<writes, notify, unsent, failed, behind, units, late>>
teardown == <<store, pc, force>>
bounds == <<flips, failures>>
clientVars == <<driver, online, rows, teardown, bounds>>

ClientInit ==
    /\ stage = "none" /\ queued = FALSE /\ disposed = FALSE
    /\ subscribed = FALSE /\ passError = FALSE /\ unasked = FALSE
    /\ online \in BOOLEAN
    /\ writes = 0 /\ notify = 0 /\ unsent = 0 /\ failed = 0 /\ late = 0
    /\ behind = 0 /\ units = [u \in Units |-> 0]
    /\ store = "open"
    /\ pc = [op \in {"stop", "destroy"} |-> "idle"]
    /\ force = FALSE
    /\ flips = 0 /\ failures = 0

-----------------------------------------------------------------------------
(***************************************************************************)
(* The driver.                                                             *)
(***************************************************************************)
CoalesceDropped == queued               \* mutant: a signal during a pass is lost
Coalesce == TRUE

\* The synchronous part of runPass.
RunPass(converge) ==
    /\ queued' = IF ~disposed /\ stage # "none" THEN Coalesce ELSE queued
    /\ IF ~disposed /\ stage = "none" /\ converge
       THEN stage' = "flush" /\ passError' = FALSE /\ unasked' = FALSE
       ELSE UNCHANGED <<stage, passError, unasked>>

\* start(), once the client is ready: subscribe, and a first pass.
Start ==
    /\ ~subscribed /\ ~disposed
    /\ subscribed' = TRUE
    /\ RunPass(online)
    /\ UNCHANGED <<disposed, online, rows, teardown, bounds>>

\* An interval tick or a visibility change.
Signal ==
    /\ subscribed
    /\ RunPass(online)
    /\ UNCHANGED <<disposed, subscribed, online, rows, teardown, bounds>>

GoOffline ==
    /\ online /\ flips < MaxFlips
    /\ online' = FALSE
    /\ flips' = flips + 1
    /\ UNCHANGED <<driver, rows, teardown, failures>>

\* The `online` event, or the page is shown again; a signal if anybody listens.
GoOnline ==
    /\ ~online
    /\ online' = TRUE
    /\ IF subscribed THEN RunPass(TRUE) ELSE UNCHANGED <<stage, queued, passError, unasked>>
    /\ UNCHANGED <<disposed, subscribed, rows, teardown, bounds>>

\* A due row, or one that an unsettled row of its entity holds back.
UnitRows == units["batch"] + units["transaction"]
Enqueue ==
    \/ unsent' = unsent + 1 /\ UNCHANGED behind
    \/ failed + UnitRows > 0 /\ behind' = behind + 1 /\ UNCHANGED unsent

\* n rows commit; destroy() may have counted already.
Commits(n) ==
    /\ store = "open" /\ writes + n <= MaxWrites
    /\ writes' = writes + n
    /\ late' = IF pc["destroy"] = "stopping" THEN late + n ELSE late
    /\ UNCHANGED <<driver, online, failed, teardown, bounds>>

\* A local write commits its journal row; the caller resumes later and calls
\* requestConvergence().  writeReady stays resolved after a teardown begins.
WriteCommits ==
    /\ Commits(1)
    /\ Enqueue
    /\ notify' = notify + 1
    /\ UNCHANGED units

\* A batch over a pessimistic table and another: a row of each.
BatchCommits ==
    /\ Commits(2)
    /\ Enqueue
    /\ units' = [units EXCEPT !["batch"] = @ + 1]
    /\ UNCHANGED notify

\* A write of a pessimistic table alone, or a pessimistic transaction.
UnitCommits(u) ==
    /\ Commits(1)
    /\ units' = [units EXCEPT ![u] = @ + 1]
    /\ UNCHANGED <<notify, unsent, behind>>

\* The unit is settled: what stood behind its row may be due.  A batch goes on to
\* requestConvergence(), a transaction returns its acks.
UnitAnswers(u) ==
    /\ units[u] > 0 /\ ~disposed /\ store = "open"
    /\ units' = [units EXCEPT ![u] = @ - 1]
    /\ \E b \in 0 .. behind :
        /\ b > 0 => failed + UnitRows > 1
        /\ behind' = b /\ unsent' = unsent + (behind - b)
        /\ unasked' = (unasked \/ (u = "transaction" /\ b < behind))
    /\ notify' = IF u = "batch" THEN notify + 1 ELSE notify
    /\ UNCHANGED <<stage, queued, disposed, subscribed, passError, online, writes, failed, late, teardown, bounds>>

\* flushUnit throws: its row stays, and the call rejects.  A batch then never
\* reaches requestConvergence().
UnitThrows(u) ==
    /\ units[u] > 0
    /\ \/ (disposed \/ store # "open") /\ UNCHANGED failures
       \/ failures < MaxFailures /\ failures' = failures + 1
    /\ units' = [units EXCEPT ![u] = @ - 1]
    /\ failed' = failed + 1
    /\ unasked' = (unasked \/ u = "batch")
    /\ UNCHANGED <<stage, queued, disposed, subscribed, passError, online, writes, notify,
                    unsent, behind, late, teardown, flips>>

UnitEnds == \E u \in Units : UnitAnswers(u) \/ UnitThrows(u)

RequestPass ==
    /\ notify > 0
    /\ notify' = notify - 1
    /\ RunPass(online)
    /\ UNCHANGED <<disposed, subscribed, online, writes, unsent, failed, behind, units, late, teardown, bounds>>

\* One drain of the flush, in batches until nothing is due: the due rows, the
\* failed rows whose backoff is over, and the rows that those let go.  What the
\* server did not take waits, f rows for their backoff and b behind them.  A
\* disposed runtime aborts the request.
UnsentKept == unsent                    \* mutant: sent rows stay due
AfterFlush == 0

SendRound ==
    LET all == unsent + failed + behind
    IN  \E f, b \in 0 .. all :
        /\ unsent + failed > 0
        /\ unsent' = AfterFlush /\ failed' = f /\ behind' = b
        /\ b > 0 => f + UnitRows > 0
        /\ \/ ~disposed /\ f <= failed /\ b <= behind /\ UNCHANGED failures
           \/ /\ disposed /\ f + b = all /\ f >= failed /\ b >= behind
              /\ unsent > 0 => f > failed
              /\ UNCHANGED failures
           \/ /\ ~disposed /\ failures < MaxFailures
              /\ f + b <= all /\ f > 0 /\ failures' = failures + 1
        /\ UNCHANGED <<online, writes, notify, units, late, teardown, flips>>

FlushRound == stage = "flush" /\ SendRound /\ UNCHANGED driver

FlushEnds ==
    /\ stage = "flush" /\ unsent = 0
    /\ stage' = "reconcile"
    /\ UNCHANGED <<queued, disposed, subscribed, passError, unasked, online, rows, teardown, bounds>>

ReconcileEnds ==
    /\ stage = "reconcile"
    /\ stage' = "returned"
    /\ UNCHANGED <<queued, disposed, subscribed, passError, unasked, online, rows, teardown, bounds>>

PassThrows ==
    /\ stage \in {"flush", "reconcile"} /\ failures < MaxFailures
    /\ failures' = failures + 1
    /\ stage' = "returned" /\ passError' = TRUE
    /\ UNCHANGED <<queued, disposed, subscribed, unasked, online, rows, teardown, flips>>

\* runPass resumes after its pass, and runs the follow-up.
PassReturns ==
    /\ stage = "returned"
    /\ queued' = FALSE
    /\ IF queued /\ ~disposed /\ online
       THEN stage' = "flush" /\ passError' = FALSE /\ unasked' = FALSE
       ELSE stage' = "none" /\ UNCHANGED <<passError, unasked>>
    /\ UNCHANGED <<disposed, subscribed, online, rows, teardown, bounds>>

\* client.flush(), called by the application; it does not ask the trigger.
AppFlush == store = "open" /\ SendRound /\ UNCHANGED driver

-----------------------------------------------------------------------------
(***************************************************************************)
(* Teardown.                                                               *)
(***************************************************************************)

\* haltActivity: abortUnitRows and driver.stop(), with no await.
HaltActivity ==
    /\ disposed' = TRUE /\ queued' = FALSE /\ subscribed' = FALSE
    /\ UNCHANGED <<stage, passError, unasked>>

StopClient ==
    /\ pc["stop"] = "idle"
    /\ HaltActivity
    /\ pc' = [pc EXCEPT !["stop"] = "stopping"]
    /\ UNCHANGED <<online, rows, store, force, bounds>>

\* destroy() holds the lifecycle slot: one at a time.
DestroyClient(f) ==
    /\ pc["destroy"] = "idle"
    /\ HaltActivity
    /\ pc' = [pc EXCEPT !["destroy"] = "checking"]
    /\ force' = f
    /\ UNCHANGED <<online, rows, store, bounds>>

OwedDueOnly == unsent                   \* mutant: failed rows are not counted
OwedRows == unsent + failed + behind + UnitRows

\* The owed rows are counted; a refusal releases the slot.
DestroyCheck ==
    /\ pc["destroy"] = "checking" /\ store = "open"
    /\ late' = 0
    /\ pc' = [pc EXCEPT !["destroy"] = IF ~force /\ OwedRows > 0 THEN "idle" ELSE "stopping"]
    /\ UNCHANGED <<driver, online, writes, notify, unsent, failed, behind, units, store, force, bounds>>

\* What `await currentPass` waits for.
NotAwaited == FALSE                     \* mutant: the pass is not awaited
PassInFlight == stage \in {"flush", "reconcile"}

StopCloses ==
    /\ pc["stop"] = "stopping" /\ ~PassInFlight
    /\ pc' = [pc EXCEPT !["stop"] = "done"]
    /\ store' = IF store = "open" THEN "closed" ELSE store
    /\ UNCHANGED <<driver, online, rows, force, bounds>>

DestroyWipes ==
    /\ pc["destroy"] = "stopping" /\ ~PassInFlight /\ store = "open"
    /\ pc' = [pc EXCEPT !["destroy"] = "done"]
    /\ store' = "wiped"
    /\ unsent' = 0 /\ failed' = 0 /\ behind' = 0 /\ units' = [u \in Units |-> 0]
    /\ UNCHANGED <<driver, online, writes, notify, late, force, bounds>>

\* A stop() that got there first closed the handle: the query throws.
DestroyThrows ==
    /\ pc["destroy"] \in {"checking", "stopping"} /\ store # "open"
    /\ pc' = [pc EXCEPT !["destroy"] = "done"]
    /\ UNCHANGED <<driver, online, rows, store, force, bounds>>

Pass == FlushRound \/ FlushEnds \/ ReconcileEnds \/ PassReturns

ClientNext ==
    \/ Start \/ Signal \/ GoOffline \/ GoOnline
    \/ WriteCommits \/ BatchCommits \/ (\E u \in Units : UnitCommits(u)) \/ RequestPass
    \/ UnitEnds
    \/ Pass \/ PassThrows \/ AppFlush
    \/ StopClient \/ (\E f \in Forced : DestroyClient(f))
    \/ DestroyCheck \/ StopCloses \/ DestroyWipes \/ DestroyThrows

ClientSpec == ClientInit /\ [][ClientNext]_clientVars

\* The thread keeps running: what was awaited resumes, a request is answered or
\* fails, and the boot's tail reaches start().  No tick of the trigger is promised.
ClientFairness ==
    /\ WF_clientVars(Start) /\ WF_clientVars(RequestPass) /\ WF_clientVars(Pass)
    /\ WF_clientVars(UnitEnds)
    /\ WF_clientVars(StopCloses) /\ WF_clientVars(DestroyCheck) /\ WF_clientVars(DestroyWipes)
FairClientSpec == ClientSpec /\ ClientFairness

-----------------------------------------------------------------------------
\* The state of the driver, the journal's counts and the two teardowns is well formed.
TypeOK ==
    /\ stage \in {"none", "flush", "reconcile", "returned"}
    /\ {queued, disposed, subscribed, passError, unasked, online, force} \subseteq BOOLEAN
    /\ writes \in 0 .. MaxWrites /\ notify \in 0 .. writes /\ late \in 0 .. writes
    /\ {unsent, failed, behind} \subseteq 0 .. writes /\ units \in [Units -> 0 .. writes]
    /\ unsent + failed + behind + UnitRows <= writes
    /\ store \in {"open", "closed", "wiped"}
    /\ pc["stop"] \in {"idle", "stopping", "done"}
    /\ pc["destroy"] \in {"idle", "checking", "stopping", "done"}
    /\ flips \in 0 .. MaxFlips /\ failures \in 0 .. MaxFailures

(***************************************************************************)
(* "Await any in-flight pass before closing pgwasm, so a pass never        *)
(* queries a closed handle" (index.ts): no pass is flushing or reconciling *)
(* once the store is closed or wiped, whichever of stop() and destroy()    *)
(* got there, and none starts afterwards.                                  *)
(***************************************************************************)
ClosedStoreIsQuiet == store # "open" => stage \notin {"flush", "reconcile"}

(***************************************************************************)
(* An unforced destroy() drops no write that was owed when it looked: what *)
(* the wipe takes was committed after the check.                           *)
(***************************************************************************)
DestroyKeepsCheckedWrites ==
    [][store = "open" /\ store' = "wiped" /\ ~force
        => unsent + failed + behind + UnitRows <= late]_clientVars

(***************************************************************************)
(* "Refuses if mutations are still owed to the server ... so it never      *)
(* silently drops un-flushed writes" (destroy in index.ts).  Not so: see   *)
(* ClientLifecycleDropped.cfg.                                             *)
(***************************************************************************)
DestroyDropsNothing ==
    [][store = "open" /\ store' = "wiped" /\ ~force
        => unsent + failed + behind + UnitRows = 0]_clientVars

(***************************************************************************)
(* requestPass: a local write that is due is sent by a pass without        *)
(* waiting for a tick of the trigger, also when it commits while a pass is *)
(* past its last read of the journal; unless the app is offline, the       *)
(* driver is stopped, the last pass threw, or it became due with a unit    *)
(* whose caller asks for no pass (then the interval is the fallback).  A   *)
(* write held behind one that failed is not due.                           *)
(***************************************************************************)
WriteGetsAPass ==
    unsent > 0 ~> unsent = 0 \/ disposed \/ ~online \/ passError \/ unasked

(***************************************************************************)
(* "the moment a mutation is enqueued, ask the driver to run a pass so the *)
(* write flushes immediately rather than waiting for the trigger's next    *)
(* interval tick" (requestConvergence).  Not so: put it in the place of    *)
(* DestroyDropsNothing in ClientLifecycleDropped.cfg.                      *)
(***************************************************************************)
WriteFlushesImmediately ==
    unsent > 0 ~> unsent = 0 \/ disposed \/ ~online \/ passError
=============================================================================
