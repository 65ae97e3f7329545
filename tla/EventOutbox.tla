----------------------------- MODULE EventOutbox -----------------------------
(***************************************************************************)
(* The client half of the Event lane (packages/client/src/event-lane.ts):  *)
(* the durable Outbox, the flush pass that posts it in slices and settles  *)
(* the server's verdicts, and the driver that schedules passes.            *)
(*                                                                         *)
(* Time is abstract: a backoff may be over at any moment.  The exchange    *)
(* with the ingestion endpoint is a variable of this module; EventLane     *)
(* gives it its other side.                                                *)
(***************************************************************************)
EXTENDS Naturals, Sequences, FiniteSets

CONSTANTS
    Events,
    StreamOf,        \* the Event stream each event is appended under
    BatchSize,       \* events per request
    StreamCap,       \* stream -> events of it per request (the fairness cap)
    RetainsAcked     \* ackedRetentionMs > 0: acked rows are stamped, and swept later

Streams == {StreamOf[e] : e \in Events}
Verdicts == {"acked", "refused", "rejected", "deferred"}

ASSUME EventsAssumption == IsFiniteSet(Events)
ASSUME BatchAssumption == BatchSize \in Nat \ {0}
ASSUME CapAssumption == StreamCap \in [Streams -> Nat \ {0}]
ASSUME RetainsAssumption == RetainsAcked \in BOOLEAN

VARIABLES
    log,        \* the events in the order of their seq
    row,        \* event -> "none", "pending", "stamped" (acked, kept) or "deleted"
    parked,     \* the pending events that wait out a deferral
    backoff,    \* batchAttempt > 0 and its delay is not over
    driver,     \* the flush driver's flags
    pass,       \* where the flush pass is
    exchange,   \* the request that is awaited: "none", "sent", "answered" or "failed"
    orphans     \* requests nobody waits for any more that may still be handled

\* A batch is the set of its events: what is in it depends on the order of the
\* seqs, what becomes of it does not.

outboxVars == <<log, row, parked, backoff, driver, pass, exchange, orphans>>

NoAcks == [e \in {} |-> "none"]
NoPass == [pc |-> "idle", batch |-> {}, acks |-> NoAcks, deferred |-> {}]
NoExchange == [state |-> "none", acks |-> NoAcks]

OutboxInit ==
    /\ log = <<>>
    /\ row = [e \in Events |-> "none"]
    /\ parked = {}
    /\ backoff = FALSE
    /\ driver = [running |-> FALSE, queued |-> FALSE, online |-> TRUE]
    /\ pass = NoPass
    /\ exchange = NoExchange
    /\ orphans = {}

-----------------------------------------------------------------------------
(***************************************************************************)
(* The driver: one pass at a time, signals that meet one coalesce.  What   *)
(* runFlush does between two awaits of the network is one step: the store  *)
(* has one connection, and nothing else touches the rows it reads.         *)
(***************************************************************************)
\* The sweep retires stamped rows whose retention is over.
Sweep(rows) ==
    {[e \in Events |-> IF e \in old THEN "deleted" ELSE rows[e]] :
        old \in SUBSET {e \in Events : rows[e] = "stamped"}}

\* eligibleNow.
EligibleStamped(e) == row[e] \in {"pending", "stamped"} /\ e \notin parked   \* mutant
Eligible(e) == row[e] = "pending" /\ e \notin parked

\* ORDER BY seq LIMIT n.
Before(d, e) == \E i \in DOMAIN log : \E j \in i + 1 .. Len(log) : log[i] = d /\ log[j] = e
First(n, rows) == {e \in rows : Cardinality({d \in rows : Before(d, e)}) < n}

\* The rows a stream's cap lets ride: its first ones.
WithinCap(rows) ==
    {e \in rows : e \in First(StreamCap[StreamOf[e]], {d \in rows : StreamOf[d] = StreamOf[e]})}

\* readEligibleRows, less what this pass has deferred already.
Slice(deferred) == First(BatchSize, WithinCap({e \in Events : Eligible(e)})) \ deferred

Flushing(d, batch, deferred) ==
    /\ driver' = [d EXCEPT !.running = TRUE]
    /\ pass' = [NoPass EXCEPT !.pc = "posting", !.batch = batch, !.deferred = deferred]
    /\ exchange' = [NoExchange EXCEPT !.state = "sent"]

StillFlushing(d) ==               \* mutant: the driver is not told that the pass is over
    /\ driver' = d
    /\ pass' = NoPass
    /\ exchange' = NoExchange
NotFlushing(d) ==
    /\ driver' = [d EXCEPT !.running = FALSE, !.queued = FALSE]
    /\ pass' = NoPass
    /\ exchange' = NoExchange

\* runFlush from its start to its first request: sweep, the backoff gate, one
\* slice.  With nothing to post it is over.
StartPass(d) ==
    /\ row' \in Sweep(row)
    /\ LET batch == Slice({})
       IN  IF backoff \/ batch = {} THEN NotFlushing(d) ELSE Flushing(d, batch, {})

\* runPass, for the interval and for an online signal.
RunPass(d) ==
    IF d.running THEN driver' = [d EXCEPT !.queued = TRUE] /\ UNCHANGED <<row, pass, exchange>>
    ELSE IF ~d.online THEN driver' = d /\ UNCHANGED <<row, pass, exchange>>
    ELSE StartPass(d)

Tick == RunPass(driver) /\ UNCHANGED <<log, parked, backoff, orphans>>

\* appendEvent resolves on the durable insert and then nudges the driver: the
\* signal is a Tick, or joins the pass under way.
AppendEvent(e) ==
    /\ row[e] = "none"
    /\ log' = Append(log, e)
    /\ row' = [row EXCEPT ![e] = "pending"]
    /\ driver' = [driver EXCEPT !.queued = @ \/ driver.running]
    /\ UNCHANGED <<parked, backoff, pass, exchange, orphans>>

GoOffline == /\ driver.online
             /\ driver' = [driver EXCEPT !.online = FALSE]
             /\ UNCHANGED <<log, row, parked, backoff, pass, exchange, orphans>>

GoOnline == /\ ~driver.online
            /\ RunPass([driver EXCEPT !.online = TRUE])
            /\ UNCHANGED <<log, parked, backoff, orphans>>

\* The delay of a deferral, or of a failed request, is over.
OnlyDeferralsEnd ==               \* mutant: the lane's own backoff never ends
    \E e \in parked : parked' = parked \ {e} /\ UNCHANGED backoff
RetryDue == \/ \E e \in parked : parked' = parked \ {e} /\ UNCHANGED backoff
            \/ backoff /\ backoff' = FALSE /\ UNCHANGED parked
RetryBecomesDue == RetryDue /\ UNCHANGED <<log, row, driver, pass, exchange, orphans>>

-----------------------------------------------------------------------------
(***************************************************************************)
(* One flush pass.                                                         *)
(***************************************************************************)
\* A pass that resolves: a signal that met it runs the next one.
PassEnds == IF driver.queued /\ driver.online
            THEN StartPass([driver EXCEPT !.queued = FALSE])
            ELSE NotFlushing(driver) /\ UNCHANGED row

\* A request given up on while it is under way may still reach the server.
Orphaned == IF exchange.state = "sent" THEN {{}, {pass.batch}} ELSE {{}}

\* A non-2xx, or a network failure: nothing is settled, the lane backs off.
\* A signal that met the pass runs into the backoff gate.
PostFails ==
    /\ pass.pc = "posting"
    /\ \E lost \in Orphaned : orphans' = orphans \cup lost
    /\ backoff' = TRUE
    /\ NotFlushing(driver)
    /\ UNCHANGED <<log, row, parked>>

PostAnswered ==
    /\ pass.pc = "posting" /\ exchange.state = "answered"
    /\ pass' = [pass EXCEPT !.pc = "defer", !.acks = exchange.acks]
    /\ exchange' = NoExchange
    /\ UNCHANGED <<log, row, parked, backoff, driver, orphans>>

With(status) == {e \in DOMAIN pass.acks : pass.acks[e] \in status}

\* settleAcks, statement by statement: the deferred rows are parked, what is
\* terminal is deleted, then what is acked is stamped.
SettleDefers ==
    /\ pass.pc = "defer"
    /\ parked' = parked \cup With({"deferred"})
    /\ pass' = [pass EXCEPT !.pc = "delete", !.deferred = @ \cup With({"deferred"})]
    /\ UNCHANGED <<log, row, backoff, driver, exchange, orphans>>

DeletableAlways == With(Verdicts)       \* mutant: a deferral counts as a verdict
Deletable == With({"refused", "rejected"} \cup (IF RetainsAcked THEN {} ELSE {"acked"}))

SettleDeletes ==
    /\ pass.pc = "delete"
    /\ row' = [e \in Events |-> IF e \in Deletable THEN "deleted" ELSE row[e]]
    /\ pass' = [pass EXCEPT !.pc = "stamp"]
    /\ UNCHANGED <<log, parked, backoff, driver, exchange, orphans>>

Stamped == [e \in Events |-> IF RetainsAcked /\ e \in With({"acked"}) THEN "stamped" ELSE row[e]]

\* The stamp and clearBatchBackoff.
SettleStamps ==
    /\ pass.pc = "stamp"
    /\ row' = Stamped
    /\ backoff' = FALSE
    /\ pass' = [pass EXCEPT !.pc = "next"]
    /\ UNCHANGED <<log, parked, driver, exchange, orphans>>

\* Another slice of the same pass, or its end.
NextSlice ==
    /\ pass.pc = "next"
    /\ LET batch == Slice(pass.deferred)
       IN  IF batch = {} THEN PassEnds ELSE Flushing(driver, batch, pass.deferred) /\ UNCHANGED row
    /\ UNCHANGED <<log, parked, backoff, orphans>>

\* The client stops or dies and boots again: only the Outbox is durable.
ClientRestarts ==
    /\ \E lost \in Orphaned : orphans' = orphans \cup lost
    /\ backoff' = FALSE
    /\ driver' = [driver EXCEPT !.running = FALSE, !.queued = FALSE]
    /\ pass' = NoPass
    /\ exchange' = NoExchange
    /\ UNCHANGED <<log, row, parked>>
=============================================================================
