------------------------------ MODULE EventLane ------------------------------
(***************************************************************************)
(* The Event lane end to end: EventOutbox and EventConsumer joined by the  *)
(* ingestion endpoint (packages/server/src/events/route.ts).  Requests and *)
(* answers may be lost, a request may be handled after its sender gave up, *)
(* clients and runners may die at any step, a runner's queue calls may     *)
(* fail, and a stream may reach the server after its events do.            *)
(***************************************************************************)
EXTENDS EventOutbox, EventConsumer, Functions

CONSTANTS
    Invalid,       \* events the server's own parse rejects
    Refused,       \* events the gate refuses
    LateStreams,   \* streams the server registers only later
    MaxTroubles    \* bound on failures, restarts, deaths and corruptions together

ASSUME FateAssumption == Invalid \subseteq Events /\ Refused \subseteq Events

VARIABLES
    registered,    \* the streams the server knows
    copies,        \* event -> how often it was enqueued (read by properties only)
    overlapped,    \* a renewal failed (read by properties only)
    troubles

vars == <<outboxVars, consumerVars, registered, copies, overlapped, troubles>>

-----------------------------------------------------------------------------
(***************************************************************************)
(* createEventIngestHandler: a verdict per event, and everything accepted  *)
(* enqueued in one transaction before it is acked.                         *)
(***************************************************************************)
Verdict(e) ==
    IF StreamOf[e] \notin registered THEN "deferred"
    ELSE IF e \in Invalid THEN "rejected"
    ELSE IF e \in Refused THEN "refused"
    ELSE "acked"

\* One message per stream.
Accepted(batch, s) == {e \in batch : StreamOf[e] = s /\ Verdict(e) = "acked"}
Filled(batch) == {s \in Streams : Accepted(batch, s) # {}}

\* Message ids in any order: the streams are independent.
EnqueueBatch(batch) ==
    LET ss == Filled(batch)
    IN  /\ issued' = issued + Cardinality(ss)
        /\ \E id \in Injection(ss, issued + 1 .. issued') :
              queue' = queue \cup {Message(id[s], s, Accepted(batch, s), FALSE) : s \in ss}
        /\ copies' = [e \in Events |->
                        copies[e] + IF e \in batch /\ Verdict(e) = "acked" THEN 1 ELSE 0]

Ingest ==
    /\ exchange.state = "sent"
    /\ EnqueueBatch(pass.batch)
    /\ exchange' = [state |-> "answered", acks |-> [e \in pass.batch |-> Verdict(e)]]
    /\ UNCHANGED <<log, row, parked, backoff, driver, pass, orphans, archive, proc, work, done,
                   registered, overlapped, troubles>>

\* 401, 500 from the gate, 503 from the queue: nothing was enqueued.
IngestRefuses ==
    /\ exchange.state = "sent"
    /\ exchange' = [NoExchange EXCEPT !.state = "failed"]
    /\ UNCHANGED <<log, row, parked, backoff, driver, pass, orphans, consumerVars,
                   registered, copies, overlapped>>

\* A request whose sender has given up is handled all the same.
IngestOrphan ==
    /\ \E batch \in orphans :
          /\ EnqueueBatch(batch)
          /\ orphans' = orphans \ {batch}
    /\ UNCHANGED <<log, row, parked, backoff, driver, pass, exchange, archive, proc, work, done,
                   registered, overlapped, troubles>>

\* A server that knows the stream is rolled out.
Register ==
    /\ registered # Streams
    /\ registered' = Streams
    /\ UNCHANGED <<outboxVars, consumerVars, copies, overlapped, troubles>>

-----------------------------------------------------------------------------
Client(A) == A /\ UNCHANGED <<consumerVars, registered, copies, overlapped, troubles>>
Consumer(A) == A /\ UNCHANGED <<outboxVars, registered, copies, overlapped, troubles>>

Trouble == troubles < MaxTroubles /\ troubles' = troubles + 1
ClientTrouble(A) == A /\ Trouble /\ UNCHANGED <<consumerVars, registered, copies, overlapped>>
ConsumerTrouble(A) == A /\ Trouble /\ UNCHANGED <<outboxVars, registered, copies, overlapped>>

Init ==
    /\ OutboxInit /\ ConsumerInit
    /\ registered = Streams \ LateStreams
    /\ copies = [e \in Events |-> 0]
    /\ overlapped = FALSE
    /\ troubles = 0

Reads(p) == \E s \in QueueStreams : Consumer(ReadBatch(p, s)) \/ Consumer(ReadEmpty(p, s))
CallbackEnds(p, s) ==
    \E h \in work[p][s].active : Consumer(CallbackReturns(p, s, h)) \/ Consumer(CallbackThrows(p, s, h))
Settles(p, s) ==
    \E h \in work[p][s].active : \/ Consumer(Ack(p, s, h)) \/ Consumer(ArchiveMoves(p, s, h))
                                \/ Consumer(ArchiveStamps(p, s, h))

\* A refusal of the endpoint was counted when it happened.
PostAnsweredBadly == exchange.state = "failed" /\ PostFails
ConnectionLost == exchange.state # "failed" /\ PostFails

Flush ==
    \/ Client(Tick)
    \/ Client(PostAnswered)
    \/ Client(PostAnsweredBadly)
    \/ Client(SettleDefers)
    \/ Client(SettleDeletes)
    \/ Client(SettleStamps)
    \/ Client(NextSlice)
    \/ Client(RetryBecomesDue)
    \/ Client(GoOnline)

Consume ==
    \/ Consumer(LeaseLapses)
    \/ \E p \in Processes : Consumer(Spawn(p)) \/ Consumer(Ends(p)) \/ Reads(p)
    \/ \E p \in Processes, s \in QueueStreams :
          \/ Consumer(StartCallback(p, s))
          \/ CallbackEnds(p, s)
          \/ Settles(p, s)

RenewalLost == /\ RenewalFails /\ Trouble
               /\ overlapped' = TRUE
               /\ UNCHANGED <<outboxVars, registered, copies>>

Troubles ==
    \/ ClientTrouble(GoOffline)
    \/ ClientTrouble(ConnectionLost)
    \/ ClientTrouble(ClientRestarts)
    \/ IngestRefuses /\ Trouble
    \/ RenewalLost
    \/ \E s \in QueueStreams : ConsumerTrouble(Corrupt(s))
    \/ ConsumerTrouble(RequeueDeadLetter)
    \/ \E p \in Processes :
          \/ ConsumerTrouble(Stop(p))
          \/ ConsumerTrouble(Dies(p))
          \/ \E s \in QueueStreams : \E h \in work[p][s].active :
                ConsumerTrouble(AckFails(p, s, h)) \/ ConsumerTrouble(ArchiveFails(p, s, h))

Next ==
    \/ \E e \in Events : Client(AppendEvent(e))
    \/ Flush
    \/ Ingest
    \/ IngestOrphan
    \/ Register
    \/ Consume
    \/ Troubles

(***************************************************************************)
(* The interval fires, what is awaited resumes, a delay ends, a runner is  *)
(* hosted again, a callback ends; failures, deaths, throws and appends are *)
(* not promised.  A runner may be stopped, but not for ever.               *)
(***************************************************************************)
Fairness ==
    /\ WF_vars(Client(Tick))
    /\ WF_vars(Client(PostAnswered)) /\ WF_vars(Client(PostAnsweredBadly))
    /\ WF_vars(Client(SettleDefers)) /\ WF_vars(Client(SettleDeletes)) /\ WF_vars(Client(SettleStamps))
    /\ WF_vars(Client(NextSlice)) /\ WF_vars(Client(RetryBecomesDue)) /\ WF_vars(Client(GoOnline))
    /\ WF_vars(Ingest) /\ WF_vars(Register)
    /\ WF_vars(Consumer(LeaseLapses))
    /\ \A p \in Processes : WF_vars(Consumer(Spawn(p))) /\ WF_vars(Consumer(Ends(p))) /\ WF_vars(Reads(p))
    /\ \A p \in Processes, s \in QueueStreams :
          /\ WF_vars(Consumer(ReadBatch(p, s))) /\ WF_vars(Consumer(StartCallback(p, s)))
          /\ WF_vars(CallbackEnds(p, s)) /\ WF_vars(Settles(p, s))

Spec == Init /\ [][Next]_vars /\ Fairness

-----------------------------------------------------------------------------
\* The state is well formed: a pass is under way exactly while the driver says so, an
\* exchange exactly while the pass waits for it, and no runner works on more
\* messages than its concurrency.
TypeOK ==
    /\ row \in [Events -> {"none", "pending", "stamped", "deleted"}]
    /\ pass.pc \in {"idle", "posting", "defer", "delete", "stamp", "next"}
    /\ (pass.pc # "idle") = driver.running
    /\ exchange.state \in {"none", "sent", "answered", "failed"}
    /\ (exchange.state # "none") = (pass.pc = "posting")
    /\ \A m \in queue : m.stream \in Streams /\ m.id \in 1..issued
    /\ \A p \in Processes, s \in QueueStreams : Cardinality(work[p][s].active) <= Concurrency

Kept(e) == \/ e \in done
           \/ \E m \in queue \cup archive : e \in m.events

\* No event is lost: once the client has given up its row, the event is in the
\* queue, in the dead letters, or some callback has returned for it, unless the
\* server itself turned it down (settleAcks, "retry, never discard").
NothingLost ==
    \A e \in Events : row[e] \in {"stamped", "deleted"} /\ e \notin Invalid \cup Refused => Kept(e)

\* An event is enqueued a second time only when something failed: passes never
\* overlap and an acked row is never posted again.
DuplicatesNeedTrouble == \A e \in Events : copies[e] <= 1 + troubles

\* Two callbacks never work on one message at once, not even across a graceful
\* stop, unless a renewal has failed (startRenewal, releaseUnstarted).
OneCallbackPerMessage ==
    ~overlapped =>
        \A p, q \in Processes, s, t \in QueueStreams :
            \A g \in work[p][s].active, h \in work[q][t].active :
                g.id = h.id /\ {g.pc, h.pc} \subseteq {"callback", "ack"} => p = q /\ g = h

\* Every dead letter was reported ("Notified for every dead-lettered sub-batch").
\* Not so: see EventLaneLetters.cfg.
DeadLettersAreLoud ==
    \A m \in archive :
        m.reported \/ \E p \in Processes, s \in QueueStreams : \E h \in work[p][s].active : h.id = m.id

\* Every appended event is settled in the end: consumed, dead-lettered or turned
\* down, through offline spells, deferrals, lost answers and runner deaths.
EveryEventSettles ==
    \A e \in Events :
        row[e] = "pending" ~>
            /\ row[e] \in {"stamped", "deleted"}
            /\ e \in done \cup Invalid \cup Refused \/ \E m \in archive : e \in m.events
=============================================================================
