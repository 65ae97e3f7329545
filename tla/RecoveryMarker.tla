--------------------------- MODULE RecoveryMarker ---------------------------
(***************************************************************************)
(* The durable recovery marker of the client's mutation runtime            *)
(* (packages/client/src/mutation.ts, local-store.ts).                      *)
(*                                                                         *)
(* A mutation is marked `sending` in its journal before it is POSTed.  A   *)
(* crash leaves such rows behind, and the next boot must lift them back to *)
(* `pending`; to make the common boot cheap the runtime keeps a marker row *)
(* that is "false" only when it is certain that no row is `sending`, and a *)
(* boot that reads "false" skips recovery.                                 *)
(*                                                                         *)
(* Several async callers share one JavaScript thread and one database      *)
(* connection: the flush loop, any number of pessimistic unit flushes and  *)
(* the callers of create/update/delete.  Every await is a point where      *)
(* another caller may run.  Statements reach the connection through a FIFO *)
(* mutex, one statement at a time; a raw BEGIN ... COMMIT issued as        *)
(* separate statements does not keep other callers' statements out.        *)
(***************************************************************************)
EXTENDS Naturals, Sequences, FiniteSets

CONSTANTS
    Senders,     \* flush callers; each owns the journal rows it sends
    Units,       \* the senders that are flushUnit calls (the others: flush)
    Writers,     \* callers of create/update/delete: raw BEGIN .. COMMIT
    Failing,     \* the writers whose operation may throw and ROLLBACK
    MaxCrashes   \* bound on the number of crashes

ASSUME SendersAssumption == IsFiniteSet(Senders)
ASSUME CallersAssumption ==
    Units \subseteq Senders /\ Failing \subseteq Writers /\ Senders \cap Writers = {}
ASSUME MaxCrashesAssumption == MaxCrashes \in Nat

VARIABLES
    durable,   \* what a crash leaves: [marker, row], row per sender
    view,      \* what the connection sees (differs inside a transaction)
    inTxn,     \* the connection is inside an explicit transaction
    queue,     \* FIFO of the statements waiting for the connection
    dirty,     \* recoveryMarkerDirty
    inFlight,  \* markSendingInFlight
    pc,        \* where each caller's async function is suspended
    phase,     \* boot phase of the process
    crashes,   \* crashes so far
    undone     \* history: a ROLLBACK has undone what other callers wrote

vars == <<durable, view, inTxn, queue, dirty, inFlight, pc, phase, crashes, undone>>

Callers == Senders \cup Writers
Markers == {"absent", "false", "true"}
Statuses == {"pending", "sending", "failed", "settled", "quarantined"}
Store == [marker : Markers, row : [Senders -> Statuses]]

\* A statement with the caller that awaits it and, for "Settle", its new status.
Kinds == {"SetMarker", "Mark", "Settle", "Clear", "Begin", "Insert", "Commit", "Rollback"}
Stmts == [by : Callers, kind : Kinds, to : Statuses]

SenderPcs == {"idle", "setting", "set", "marking", "marked", "posting", "settling",
              "failing", "settledBatch", "clearing", "cleared"}
WriterPcs == {"idle", "beginning", "begun", "inserting", "inserted", "ending", "ended"}

\* Between markSendingScope.enter and .exit.
SpanPcs == {"setting", "set", "marking", "marked"}

NoSending(store) == \A s \in Senders : store.row[s] # "sending"

Init ==
    /\ durable = [marker |-> "absent", row |-> [s \in Senders |-> "settled"]]
    /\ view = durable
    /\ inTxn = FALSE
    /\ queue = <<>>
    /\ dirty = FALSE
    /\ inFlight = 0
    /\ pc = [c \in Callers |-> "idle"]
    /\ phase = "down"
    /\ crashes = 0
    /\ undone = FALSE

-----------------------------------------------------------------------------
(***************************************************************************)
(* The connection.  Execute runs the statement at the head of the queue    *)
(* and resolves its caller's await (the caller continues in a later step). *)
(* Outside a transaction a statement commits by itself; inside one, its    *)
(* effect is durable only when somebody's COMMIT runs.  BEGIN inside a     *)
(* transaction and COMMIT or ROLLBACK outside one are warnings.            *)
(***************************************************************************)
Effect(store, stmt) ==
    CASE stmt.kind = "SetMarker" -> [store EXCEPT !.marker = "true"]
      [] stmt.kind = "Mark"      -> [store EXCEPT !.row[stmt.by] = "sending"]
      [] stmt.kind = "Settle"    -> [store EXCEPT !.row[stmt.by] = stmt.to]
      [] stmt.kind = "Clear"     -> IF store.marker # "absent" /\ NoSending(store)
                                    THEN [store EXCEPT !.marker = "false"] ELSE store
      [] OTHER                   -> store

\* enqueueBatch inserts a pending row: the journal row of some sender that
\* has no unsettled row yet becomes pending.
InsertEffect(store) ==
    {[store EXCEPT !.row[s] = "pending"] : s \in {t \in Senders : store.row[t] = "settled"}}
        \cup {store}

Resolved(p) ==
    CASE p = "setting"   -> "set"
      [] p = "marking"   -> "marked"
      [] p = "settling"  -> "settledBatch"
      [] p = "failing"   -> "idle"
      [] p = "clearing"  -> "cleared"
      [] p = "beginning" -> "begun"
      [] p = "inserting" -> "inserted"
      [] p = "ending"    -> "ended"
      [] OTHER           -> p

Resolve ==
    /\ queue' = Tail(queue)
    /\ pc' = [pc EXCEPT ![Head(queue).by] = Resolved(@)]
    /\ UNCHANGED <<dirty, inFlight, phase, crashes>>

ExecuteData ==
    /\ queue # <<>>
    /\ Head(queue).kind \in {"SetMarker", "Mark", "Settle", "Clear", "Insert"}
    /\ view' \in IF Head(queue).kind = "Insert" THEN InsertEffect(view)
                 ELSE {Effect(view, Head(queue))}
    /\ durable' = IF inTxn THEN durable ELSE view'
    /\ UNCHANGED <<inTxn, undone>>
    /\ Resolve

ExecuteBegin ==
    /\ queue # <<>>
    /\ Head(queue).kind = "Begin"
    /\ inTxn' = TRUE
    /\ UNCHANGED <<view, durable, undone>>
    /\ Resolve

ExecuteCommit ==
    /\ queue # <<>>
    /\ Head(queue).kind = "Commit"
    /\ inTxn' = FALSE
    /\ durable' = view
    /\ UNCHANGED <<view, undone>>
    /\ Resolve

ExecuteRollback ==
    /\ queue # <<>>
    /\ Head(queue).kind = "Rollback"
    /\ inTxn' = FALSE
    /\ view' = durable
    /\ undone' = (undone \/ view # durable)
    /\ UNCHANGED durable
    /\ Resolve

Execute == ExecuteData \/ ExecuteBegin \/ ExecuteCommit \/ ExecuteRollback

\* markSendingInFlight += 1, and the check that no span is open.
Enter == inFlight + 1
SpanIgnored == FALSE                  \* mutant: settle does not look at spans
SpanOpen == inFlight > 0

\* settleRecoveryMarker resets the cached flag before it issues the clear.
DirtyKept == dirty                    \* mutant: the flag outlives the clear
DirtyReset == FALSE

Issue(c, kind, to) == queue' = Append(queue, [by |-> c, kind |-> kind, to |-> to])
Goto(c, p) == pc' = [pc EXCEPT ![c] = p]

-----------------------------------------------------------------------------
(***************************************************************************)
(* A sender: applyMutationStatusUpdates(sending), the POST, the status     *)
(* updates of its answer, and settleRecoveryMarker.                        *)
(***************************************************************************)

\* markSendingScope.enter() and the read of recoveryMarkerDirty, without an
\* await between them: either the marker is written first, or the cached flag
\* says that it already is.
MarkSending(s) ==
    /\ phase = "up"
    /\ view.row[s] \in {"pending", "failed"}
    /\ \/ pc[s] = "idle"
       \/ pc[s] = "settledBatch" /\ s \notin Units
    /\ inFlight' = Enter
    /\ IF dirty THEN Issue(s, "Mark", "sending") /\ Goto(s, "marking")
                ELSE Issue(s, "SetMarker", "sending") /\ Goto(s, "setting")
    /\ UNCHANGED <<durable, view, inTxn, dirty, phase, crashes, undone>>

\* ensureRecoveryMarker resumes after its upsert; the UPDATE is issued.
MarkerWritten(s) ==
    /\ pc[s] = "set"
    /\ dirty' = TRUE
    /\ Issue(s, "Mark", "sending")
    /\ Goto(s, "marking")
    /\ UNCHANGED <<durable, view, inTxn, inFlight, phase, crashes, undone>>

\* The UPDATE has run: markSendingScope.exit() in the finally, then the POST.
Post(s) ==
    /\ pc[s] = "marked"
    /\ inFlight' = inFlight - 1
    /\ Goto(s, "posting")
    /\ UNCHANGED <<durable, view, inTxn, queue, dirty, phase, crashes, undone>>

\* The POST was answered (settled), or failed or was lost (failed).
Answered(s) ==
    /\ pc[s] = "posting"
    /\ \/ Issue(s, "Settle", "settled") /\ Goto(s, "settling")
       \/ /\ Issue(s, "Settle", "failed")
          /\ Goto(s, IF s \in Units THEN "failing" ELSE "settling")
    /\ UNCHANGED <<durable, view, inTxn, dirty, inFlight, phase, crashes, undone>>

\* settleRecoveryMarker: the span check and the reset of the cached flag
\* happen in one continuation, then the guarded clear is issued.
SettleRecoveryMarker(s) ==
    /\ pc[s] = "settledBatch"
    /\ IF SpanOpen
       THEN Goto(s, "idle") /\ UNCHANGED <<queue, dirty>>
       ELSE dirty' = DirtyReset /\ Issue(s, "Clear", "sending") /\ Goto(s, "clearing")
    /\ UNCHANGED <<durable, view, inTxn, inFlight, phase, crashes, undone>>

Finish(s) ==
    /\ pc[s] = "cleared"
    /\ Goto(s, "idle")
    /\ UNCHANGED <<durable, view, inTxn, queue, dirty, inFlight, phase, crashes, undone>>

Sender(s) ==
    \/ MarkSending(s) \/ MarkerWritten(s) \/ Post(s) \/ Answered(s)
    \/ SettleRecoveryMarker(s) \/ Finish(s)

(***************************************************************************)
(* A writer: runInTransaction around enqueueBatch.  Each statement is a    *)
(* separate await; enqueueBatch may throw (no such record, the record is   *)
(* already deleted), and the transaction is then rolled back.              *)
(***************************************************************************)
WriterBegin(w) ==
    /\ phase = "up"
    /\ pc[w] = "idle"
    /\ Issue(w, "Begin", "pending")
    /\ Goto(w, "beginning")
    /\ UNCHANGED <<durable, view, inTxn, dirty, inFlight, phase, crashes, undone>>

WriterInsert(w) ==
    /\ pc[w] = "begun"
    /\ Issue(w, "Insert", "pending")
    /\ Goto(w, "inserting")
    /\ UNCHANGED <<durable, view, inTxn, dirty, inFlight, phase, crashes, undone>>

WriterThrow(w) ==
    /\ w \in Failing
    /\ pc[w] = "begun"
    /\ Issue(w, "Rollback", "pending")
    /\ Goto(w, "ending")
    /\ UNCHANGED <<durable, view, inTxn, dirty, inFlight, phase, crashes, undone>>

WriterCommit(w) ==
    /\ pc[w] = "inserted"
    /\ Issue(w, "Commit", "pending")
    /\ Goto(w, "ending")
    /\ UNCHANGED <<durable, view, inTxn, dirty, inFlight, phase, crashes, undone>>

WriterDone(w) ==
    /\ pc[w] = "ended"
    /\ Goto(w, "idle")
    /\ UNCHANGED <<durable, view, inTxn, queue, dirty, inFlight, phase, crashes, undone>>

Writer(w) == WriterBegin(w) \/ WriterInsert(w) \/ WriterThrow(w) \/ WriterCommit(w) \/ WriterDone(w)

-----------------------------------------------------------------------------
(***************************************************************************)
(* Crash and boot (runBootRecovery).  Boot runs alone: the client is not   *)
(* handed out before it is done.                                           *)
(***************************************************************************)
Crash ==
    /\ crashes < MaxCrashes
    /\ crashes' = crashes + 1
    /\ view' = durable
    /\ inTxn' = FALSE
    /\ queue' = <<>>
    /\ dirty' = FALSE
    /\ inFlight' = 0
    /\ pc' = [c \in Callers |-> "idle"]
    /\ phase' = "down"
    /\ UNCHANGED <<durable, undone>>

LiftNothing(store) == store           \* mutant: boot forgets the sending rows
Lift(store) == [store EXCEPT !.row = [s \in Senders |->
                    IF store.row[s] = "sending" THEN "pending" ELSE store.row[s]]]
Quarantine(store) == [store EXCEPT !.row = [s \in Senders |->
                    IF store.row[s] \in {"pending", "sending", "failed"}
                    THEN "quarantined" ELSE store.row[s]]]

BootTo(p, store) ==
    /\ phase' = p
    /\ view' = store
    /\ durable' = store
    /\ UNCHANGED <<inTxn, queue, dirty, inFlight, pc, crashes, undone>>

\* Marker "false": recovery is skipped.
BootSkip ==
    /\ phase = "down"
    /\ view.marker = "false"
    /\ BootTo("up", view)

\* Marker "true": the lift and the guarded clear in one transaction.
BootRecover ==
    /\ phase = "down"
    /\ view.marker = "true"
    /\ BootTo("up", [Lift(view) EXCEPT !.marker =
                        IF NoSending(Lift(view)) THEN "false" ELSE @])

\* No marker: the lift, then the marker is initialised in a second statement.
BootLiftUnmarked ==
    /\ phase = "down"
    /\ view.marker = "absent"
    /\ BootTo("initialise", Lift(view))

BootInitialise ==
    /\ phase = "initialise"
    /\ BootTo("up", [view EXCEPT !.marker = "false"])

\* A boot from a store backup ignores the marker: lift, park, guarded clear.
BootRestoreLift ==
    /\ phase = "down"
    /\ BootTo("park", Lift(view))

BootRestorePark ==
    /\ phase = "park"
    /\ BootTo("settle", Quarantine(view))

BootRestoreSettle ==
    /\ phase = "settle"
    /\ BootTo("up", IF view.marker # "absent" /\ NoSending(view)
                    THEN [view EXCEPT !.marker = "false"] ELSE view)

Boot ==
    \/ BootSkip \/ BootRecover \/ BootLiftUnmarked \/ BootInitialise
    \/ BootRestoreLift \/ BootRestorePark \/ BootRestoreSettle

Next ==
    \/ Execute
    \/ \E s \in Senders : Sender(s)
    \/ \E w \in Writers : Writer(w)
    \/ Crash
    \/ Boot

\* The connection and the JavaScript thread keep running, a POST is answered
\* or fails, and a process that is down is started again.  Nobody has to call
\* create/update/delete, and nobody has to crash.
Fairness ==
    /\ WF_vars(Execute)
    /\ WF_vars(Boot)
    /\ \A s \in Senders : WF_vars(Sender(s))
    /\ \A w \in Writers : WF_vars(WriterInsert(w) \/ WriterCommit(w) \/ WriterDone(w))

Spec == Init /\ [][Next]_vars
FairSpec == Spec /\ Fairness
-----------------------------------------------------------------------------
\* The store, the queue of statements and the callers' positions are well formed, and
\* the counter of open spans never falls below zero.
TypeOK ==
    /\ durable \in Store
    /\ view \in Store
    /\ inTxn \in BOOLEAN
    /\ queue \in Seq(Stmts)
    /\ dirty \in BOOLEAN
    /\ inFlight \in Nat
    /\ pc \in [Callers -> SenderPcs \cup WriterPcs]
    /\ phase \in {"down", "initialise", "park", "settle", "up"}
    /\ crashes \in 0 .. MaxCrashes
    /\ undone \in BOOLEAN

(***************************************************************************)
(* "The marker is never "false" while a committed `sending` journal row    *)
(* exists" (local-store.ts): whatever instant the process crashes at, the  *)
(* store it leaves behind is not one whose boot would skip recovery and    *)
(* strand a row.  It rests on "the upsert auto-commits" (mutation.ts), and *)
(* so does every property below but one: a ROLLBACK of runInTransaction    *)
(* that undoes what another caller wrote inside it is the one exception.   *)
(***************************************************************************)
MarkerCoversSending == undone \/ (durable.marker = "false" => NoSending(durable))

(***************************************************************************)
(* The cached flag is only trusted while it is right: when a sender skips  *)
(* the marker upsert because recoveryMarkerDirty is set, the connection    *)
(* already sees the marker "true" and no clear is waiting to undo it.      *)
(***************************************************************************)
DirtyFlagIsBacked ==
    undone \/ (dirty => view.marker = "true" /\ \A i \in 1 .. Len(queue) : queue[i].kind # "Clear")

(***************************************************************************)
(* The ordering argument of settleRecoveryMarker, whatever the other       *)
(* callers do and undo: once a sender relies on the marker (its upsert     *)
(* ran, or the flag was set) no clear is waiting to run before its         *)
(* `sending` UPDATE, and a sender still waiting for its upsert has every   *)
(* clear ahead of it.                                                      *)
(***************************************************************************)
ClearStaysOutsideSpans ==
    \A s \in Senders, i \in 1 .. Len(queue) :
        queue[i].kind = "Clear" =>
            /\ pc[s] \notin {"set", "marking"}
            /\ pc[s] = "setting" => \A j \in 1 .. i : queue[j].by # s

(***************************************************************************)
(* A boot that finishes leaves no row of the previous process `sending`:   *)
(* recovery is complete whichever way the marker read.                     *)
(***************************************************************************)
BootLeavesNoSending ==
    [][phase # "up" /\ phase' = "up" => undone \/ NoSending(durable')]_vars

(***************************************************************************)
(* No row stays `sending` for ever: the answer of the POST settles it, or  *)
(* the process crashes and the next boot lifts it.                         *)
(***************************************************************************)
SendingIsResolved ==
    \A s \in Senders : view.row[s] = "sending" ~> undone \/ view.row[s] # "sending"

(***************************************************************************)
(* A statement another caller ran inside a writer's transaction survives   *)
(* it ("The upsert auto-commits").                                         *)
(***************************************************************************)
RollbackUndoesNothing == ~undone
=============================================================================
