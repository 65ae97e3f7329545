---------------------------- MODULE EventConsumer ----------------------------
(***************************************************************************)
(* The server half of the Event lane behind the ingestion endpoint: the    *)
(* queue (pgmq-queue.ts; pgmq itself is external) and the consumer runners *)
(* (consumer.ts).  A runner reads messages under a lease it renews, runs   *)
(* the application's callback on each, acks it, or lets the lease of one   *)
(* whose callback threw lapse, and dead-letters it after MaxAttempts.      *)
(*                                                                         *)
(* A process hosts one handle: long-lived loops, one per stream, or a      *)
(* bounded drainOnce over the streams in turn.                             *)
(***************************************************************************)
EXTENDS Naturals, FiniteSets

CONSTANTS
    Processes,
    Hosts,           \* process -> its pacing mode and the streams it consumes
    QueueStreams,
    ReadSize,        \* batchSize: messages per read
    Concurrency,     \* callbacks at once per stream
    MaxAttempts

ASSUME ReadAssumption == ReadSize \in Nat \ {0}
ASSUME ConcurrencyAssumption == Concurrency \in Nat \ {0}
ASSUME AttemptsAssumption == MaxAttempts \in Nat \ {0}

VARIABLES
    issued,      \* message ids handed out so far
    queue,       \* the messages: id, stream, events, count (read_ct), leased, bad
    archive,     \* the dead letters, and whether each was reported
    proc,        \* process -> its handle: mode and the streams a drain has left
    work,        \* process -> stream -> the read being worked through
    done         \* the events some callback returned for

consumerVars == <<issued, queue, archive, proc, work, done>>

\* A read: the messages not started, the ones in hand, and the renewal set.
NoRead == [rest |-> {}, active |-> {}, held |-> {}]
Down == [mode |-> "down", pending |-> {}]

ConsumerInit ==
    /\ issued = 0
    /\ queue = {}
    /\ archive = {}
    /\ proc = [p \in Processes |-> Down]
    /\ work = [p \in Processes |-> [s \in QueueStreams |-> NoRead]]
    /\ done = {}

-----------------------------------------------------------------------------
(***************************************************************************)
(* The queue.                                                              *)
(***************************************************************************)
Message(id, s, events, bad) ==
    [id |-> id, stream |-> s, events |-> events, count |-> 0, leased |-> FALSE, bad |-> bad]

Visible(s) == {m \in queue : m.stream = s /\ ~m.leased}

\* pgmq.read: the oldest visible ones, leased, with their read count bumped.
Oldest(s) ==
    LET older(m) == {o \in Visible(s) : o.id < m.id}
    IN  {m \in Visible(s) : Cardinality(older(m)) < ReadSize}

Leased(ms) == {[m EXCEPT !.leased = TRUE, !.count = @ + 1] : m \in ms}

\* What the reader sees of them.
Delivered(ms) == {[id |-> m.id, count |-> m.count + 1, events |-> m.events] : m \in ms}

\* Nothing renews a lease any more: the message is delivered again.
Renewed(m) == \E p \in Processes, s \in QueueStreams : m.id \in work[p][s].held

Lapse(m) == queue' = (queue \ {m}) \cup {[m EXCEPT !.leased = FALSE]}

LeaseLapses ==
    /\ \E m \in queue : m.leased /\ ~Renewed(m) /\ Lapse(m)
    /\ UNCHANGED <<issued, archive, proc, work, done>>

\* extendVisibility fails for a whole window.
RenewalFails ==
    /\ \E m \in queue : m.leased /\ Renewed(m) /\ Lapse(m)
    /\ UNCHANGED <<issued, archive, proc, work, done>>

\* A hand-inserted or corrupted body.
Corrupt(s) ==
    /\ issued' = issued + 1
    /\ queue' = queue \cup {Message(issued', s, {}, TRUE)}
    /\ UNCHANGED <<archive, proc, work, done>>

\* requeueDeadLetter: one statement.
RequeueDeadLetter ==
    /\ \E m \in archive :
          /\ ~m.bad
          /\ archive' = archive \ {m}
          /\ queue' = queue \cup {Message(issued + 1, m.stream, m.events, FALSE)}
    /\ issued' = issued + 1
    /\ UNCHANGED <<proc, work, done>>

-----------------------------------------------------------------------------
(***************************************************************************)
(* A handle: start() or drainOnce(), and how it ends.                      *)
(***************************************************************************)
Spawn(p) ==
    /\ proc[p].mode = "down"
    /\ proc' = [proc EXCEPT ![p] = [mode |-> Hosts[p].mode,
                                    pending |-> IF Hosts[p].mode = "drain" THEN Hosts[p].streams ELSE {}]]
    /\ UNCHANGED <<issued, queue, archive, work, done>>

Quiet(p) == \A s \in QueueStreams : work[p][s] = NoRead
Halted(p) == proc[p].mode = "stopping"

\* releaseUnstarted: only what a callback has been entered for stays renewed.
ReleaseAll(read) == [read EXCEPT !.rest = {}, !.held = {}]        \* mutant
ReleaseUnstarted(read) ==
    [read EXCEPT !.rest = {}, !.held = @ \cap {h.id : h \in read.active}]

\* stop(), or a drain whose budget is spent.
Stop(p) ==
    /\ proc[p].mode \in {"loop", "drain"}
    /\ proc' = [proc EXCEPT ![p].mode = "stopping"]
    /\ work' = [work EXCEPT ![p] = [s \in QueueStreams |-> ReleaseUnstarted(work[p][s])]]
    /\ UNCHANGED <<issued, queue, archive, done>>

\* stop() resolves when every loop is quiet; a drain when no stream is left.
Ends(p) ==
    /\ Quiet(p)
    /\ \/ Halted(p)
       \/ proc[p].mode = "drain" /\ proc[p].pending = {}
    /\ proc' = [proc EXCEPT ![p] = Down]
    /\ UNCHANGED <<issued, queue, archive, work, done>>

Dies(p) ==
    /\ proc[p].mode # "down"
    /\ proc' = [proc EXCEPT ![p] = Down]
    /\ work' = [work EXCEPT ![p] = [s \in QueueStreams |-> NoRead]]
    /\ UNCHANGED <<issued, queue, archive, done>>

-----------------------------------------------------------------------------
(***************************************************************************)
(* One read and its messages.                                              *)
(***************************************************************************)
\* A loop reads its own stream; a drain works on one stream at a time.
MayRead(p, s) ==
    /\ work[p][s] = NoRead /\ s \in Hosts[p].streams
    /\ \/ proc[p].mode = "loop"
       \/ proc[p].mode = "drain" /\ Quiet(p) /\ s \in proc[p].pending

Bad(s) == {m \in Oldest(s) : m.bad}

ReadBatch(p, s) ==
    /\ MayRead(p, s) /\ Oldest(s) # {}
    /\ queue' = (queue \ Oldest(s)) \cup Leased(Oldest(s))
    /\ \/ /\ Bad(s) = {}
          /\ work' = [work EXCEPT ![p][s] = [rest |-> Delivered(Oldest(s)), active |-> {},
                                             held |-> {m.id : m \in Oldest(s)}]]
       \/ \* the whole read fails, and names its first bad receipt
          \E m \in Bad(s) :
             /\ \A o \in Bad(s) : m.id <= o.id
             /\ work' = [work EXCEPT ![p][s] =
                           [NoRead EXCEPT !.active =
                              {[id |-> m.id, count |-> 0, events |-> {}, pc |-> "archive"]}]]
    /\ UNCHANGED <<issued, archive, proc, done>>

\* An empty read finishes a stream for a drain.
ReadEmpty(p, s) ==
    /\ MayRead(p, s) /\ Oldest(s) = {} /\ proc[p].mode = "drain"
    /\ proc' = [proc EXCEPT ![p].pending = @ \ {s}]
    /\ UNCHANGED <<issued, queue, archive, work, done>>

\* The messages of a read are taken in the order of their ids.
StartCallback(p, s) ==
    LET w == work[p][s]
    IN  /\ ~Halted(p) /\ Cardinality(w.active) < Concurrency
        /\ \E m \in w.rest :
              /\ \A o \in w.rest : m.id <= o.id
              /\ work' = [work EXCEPT ![p][s] =
                            [w EXCEPT !.rest = @ \ {m},
                                      !.active = @ \cup {[id |-> m.id, count |-> m.count,
                                                          events |-> m.events, pc |-> "callback"]}]]
        /\ UNCHANGED <<issued, queue, archive, proc, done>>

To(h, pc) == {[h EXCEPT !.pc = pc]}
Drop(w, h) == [w EXCEPT !.active = @ \ {h}, !.held = @ \ {h.id}]

CallbackReturns(p, s, h) ==
    /\ h.pc = "callback"
    /\ done' = done \cup h.events
    /\ work' = [work EXCEPT ![p][s].active = (@ \ {h}) \cup To(h, "ack")]
    /\ UNCHANGED <<issued, queue, archive, proc>>

\* Settled first: the lease of a failed sub-batch lapses, that is its retry.
CallbackThrows(p, s, h) ==
    /\ h.pc = "callback"
    /\ work' = [work EXCEPT ![p][s] =
                  [Drop(work[p][s], h) EXCEPT !.active =
                     @ \cup IF h.count >= MaxAttempts THEN To(h, "archive") ELSE {}]]
    /\ UNCHANGED <<issued, queue, archive, proc, done>>

\* pgmq.delete, when the message is still there.
Ack(p, s, h) ==
    /\ h.pc = "ack"
    /\ queue' = {m \in queue : m.id # h.id}
    /\ work' = [work EXCEPT ![p][s] = Drop(@, h)]
    /\ UNCHANGED <<issued, archive, proc, done>>

AckFails(p, s, h) ==
    /\ h.pc = "ack"
    /\ work' = [work EXCEPT ![p][s] = Drop(@, h)]
    /\ UNCHANGED <<issued, queue, archive, proc, done>>

\* deadLetter: pgmq.archive moves the message, a second statement stamps the
\* reason, then it is reported.
ArchiveMoves(p, s, h) ==
    /\ h.pc = "archive"
    /\ archive' = archive \cup {[id |-> m.id, stream |-> m.stream, events |-> m.events, bad |-> m.bad,
                                 attempts |-> h.count, reported |-> FALSE] : m \in {x \in queue : x.id = h.id}}
    /\ queue' = {m \in queue : m.id # h.id}
    /\ work' = [work EXCEPT ![p][s].active = (@ \ {h}) \cup To(h, "stamp")]
    /\ UNCHANGED <<issued, proc, done>>

ArchiveStamps(p, s, h) ==
    /\ h.pc = "stamp"
    /\ archive' = {IF m.id = h.id THEN [m EXCEPT !.reported = TRUE] ELSE m : m \in archive}
    /\ work' = [work EXCEPT ![p][s] = Drop(@, h)]
    /\ UNCHANGED <<issued, queue, proc, done>>

\* Either statement fails: the runner says the message stays queued.
ArchiveFails(p, s, h) ==
    /\ h.pc \in {"archive", "stamp"}
    /\ work' = [work EXCEPT ![p][s] = Drop(@, h)]
    /\ UNCHANGED <<issued, queue, archive, proc, done>>
=============================================================================
