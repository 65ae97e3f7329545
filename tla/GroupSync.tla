------------------------------ MODULE GroupSync ------------------------------
(***************************************************************************)
(* The life of one consistency group on the read path: startCircuitsSync   *)
(* in packages/client/src/circuits/group-sync.ts, with desync() of         *)
(* index.ts, which stops a group and clears its tables.                    *)
(*                                                                         *)
(* openGroup is one run of the protocol: subscribe at the control plane,   *)
(* clear what is no longer granted, open one stream per granted shape,     *)
(* install the engine as the group's handle.  It suspends at every await,  *)
(* so several runs can be under way at once: the first start, a restart    *)
(* parked on its backoff, a run of a generation that has been stopped.     *)
(* `generation` and the `restartPromise` latch are what keeps them apart.  *)
(*                                                                         *)
(* The engine behind a run (sync-engine.ts) is kept to what the group sees *)
(* of it: its streams answer and end, and it commits the rows of all its   *)
(* shapes together with the cursor row of the group.                       *)
(***************************************************************************)
EXTENDS Naturals, Sequences

CONSTANTS
    Shapes,       \* the readers the group's registry entries declare
    MaxStarts,    \* bound on activations
    MaxFaults,    \* bound on streams that end and on opens that fail
    MaxStops,     \* bound on calls of desync()
    MaxChanges,   \* bound on changes of what the subject may read
    Windows       \* the interleavings nothing in the code guards, see below

ASSUME BoundsAssumption ==
    MaxStarts \in Nat /\ MaxFaults \in Nat /\ MaxStops \in Nat /\ MaxChanges \in Nat

(***************************************************************************)
(* Five interleavings the generation and the latch do not cover, each with *)
(* a switch so that what holds without it can be told apart:               *)
(*   "early"        a stream ends, or a re-mint revokes, while the run     *)
(*                  that opened it still waits for its other streams;      *)
(*   "failed_start" the open of a first start fails after a stop;          *)
(*   "late_mint"    a re-mint answers after its session was closed;        *)
(*   "late_clear"   a stop lands between a run's reading of the cursor and *)
(*                  its transaction that clears what is revoked;           *)
(*   "reactivated"  the group is started while desync() is clearing it.    *)
(***************************************************************************)
AllWindows == {"early", "failed_start", "late_mint", "late_clear", "reactivated"}
ASSUME WindowsAssumption == Windows \subseteq AllWindows

VARIABLES
    group,    \* GroupRuntime: `start` is the run of startPromise, `latch` that of
              \* restartPromise, `handle` and `session` those they come from; 0 is null
    runs,     \* every run of openGroup, a restart's backoff included
    torn,     \* the whole read path was torn down
    desync,   \* where desync() is suspended
    grants,   \* what the control plane grants the subject now
    rows,     \* the shapes whose rows are in the local tables
    cursor,   \* the shapes named by the persisted cursor row; {} is no row
    told,     \* the shapes onRefused announced as lost and no answer granted since
    used      \* what is spent of each bound

vars == <<group, runs, torn, desync, grants, rows, cursor, told, used>>

Init ==
    /\ group = [generation |-> 0, start |-> 0, latch |-> 0, handle |-> 0, session |-> 0,
                ready |-> FALSE, pending |-> {}]
    /\ runs = <<>>
    /\ torn = FALSE
    /\ desync = "idle"
    /\ grants \in SUBSET Shapes
    /\ rows \in SUBSET Shapes      \* what earlier boots left
    /\ cursor = rows
    /\ told = {}
    /\ used = [starts |-> 0, faults |-> 0, stops |-> 0, changes |-> 0]

-----------------------------------------------------------------------------
(***************************************************************************)
(* Helpers.  They map a GroupRuntime g and the runs r to their successors, *)
(* because one handler often takes several of these steps.                 *)
(***************************************************************************)
NewRun(g, kind, pc) ==
    [kind |-> kind, gen |-> g.generation, pc |-> pc,
     granted |-> {}, token |-> {}, known |-> {}, answered |-> {}, ended |-> {},
     engine |-> "none", lease |-> "none", mint |-> "idle"]

\* openGroup and subscribeWithRetry both test this after every await.
AbandonedIfTorn(i) == torn             \* mutant: the generation is not checked
Abandoned(i) == torn \/ runs[i].gen # group.generation

\* handle.unsubscribe(): the streams are closed and the inbox is dropped.
Unsubscribe(run) ==
    [run EXCEPT !.engine = "none", !.known = {}, !.answered = {}, !.ended = {}]

CloseSession(run, mine) == IF mine THEN [run EXCEPT !.lease = "none"] ELSE run

\* handle?.unsubscribe() and session?.close().
TakeDown(g, r) ==
    [i \in DOMAIN r |->
        CloseSession(IF i = g.handle THEN Unsubscribe(r[i]) ELSE r[i], i = g.session)]

\* A restart that ends releases the latch, unless the group has moved on.
Latch(g, run) == IF run.kind = "restart" /\ run.gen = g.generation THEN 0 ELSE g.latch

Pair(g, r) == [group |-> g, runs |-> r]

ScheduleRestart(g, r) ==
    IF torn \/ g.latch # 0 THEN Pair(g, r)
    ELSE Pair([g EXCEPT !.latch = Len(r) + 1, !.handle = 0, !.session = 0],
              Append(TakeDown(g, r), NewRun(g, "restart", "backoff")))

Become(p) == group' = p.group /\ runs' = p.runs

\* The run i ends, as the record `run`.
Return(i, run) ==
    /\ group' = [group EXCEPT !.latch = Latch(group, run)]
    /\ runs' = [runs EXCEPT ![i] = run]

At(i, pc) == i \in DOMAIN runs /\ runs[i].pc = pc

Spend(what, bound) ==
    /\ used[what] < bound
    /\ used' = [used EXCEPT ![what] = @ + 1]

-----------------------------------------------------------------------------
(***************************************************************************)
(* openGroup, and the restart around it.                                   *)
(***************************************************************************)
\* ensureGroupStarted, startGroupForBoot.
EnsureGroupStarted ==
    /\ group.start = 0
    /\ Spend("starts", MaxStarts)
    /\ group' = [group EXCEPT !.start = Len(runs) + 1]
    /\ runs' = Append(runs, NewRun(group, "start", "subscribe"))
    /\ desync # "idle" => "reactivated" \in Windows
    /\ UNCHANGED <<torn, desync, grants, rows, cursor, told>>

\* A restart's backoff is over, or the teardown cut it short.
Wake(i) ==
    /\ At(i, "backoff")
    /\ IF Abandoned(i)
       THEN Return(i, [runs[i] EXCEPT !.pc = "done"])
       ELSE runs' = [runs EXCEPT ![i].pc = "subscribe"] /\ UNCHANGED group
    /\ UNCHANGED <<torn, desync, grants, rows, cursor, told, used>>

\* The control plane answers; a failed request is retried and changes nothing.
Subscribe(i) ==
    /\ At(i, "subscribe") /\ ~Abandoned(i)
    /\ runs' = [runs EXCEPT ![i] =
                  [@ EXCEPT !.pc = "clear", !.granted = grants, !.token = grants,
                            !.known = cursor, !.lease = IF grants = {} THEN "none" ELSE "held"]]
    /\ group' = [group EXCEPT !.session = i]
    /\ told' = told \ grants
    /\ UNCHANGED <<torn, desync, grants, rows, cursor, used>>

SubscribeAbandoned(i) ==
    /\ At(i, "subscribe") /\ Abandoned(i)
    /\ Return(i, [runs[i] EXCEPT !.pc = "done"])
    /\ UNCHANGED <<torn, desync, grants, rows, cursor, told, used>>

\* reconcilePersistedShapes: the cursor row was read when the answer came, and
\* is rewritten from that reading in the transaction that clears the rows.
NothingStale(i) == {}                  \* mutant: nothing is cleared
Stale(i) == runs[i].known \ runs[i].granted

ClearRows(i) ==
    /\ At(i, "clear")
    /\ rows' = rows \ Stale(i)
    /\ cursor' = IF Stale(i) = {} THEN cursor ELSE runs[i].known \cap runs[i].granted
    /\ UNCHANGED <<torn, desync, grants, used>>

\* notifyRefused.
Announced(i) == (group.pending \cup Stale(i)) \ runs[i].granted

ClearAbandoned(i) ==
    /\ ClearRows(i) /\ Abandoned(i)
    /\ Return(i, [runs[i] EXCEPT !.pc = "done", !.known = {}])
    /\ UNCHANGED told

ClearNothingGranted(i) ==
    /\ ClearRows(i) /\ ~Abandoned(i) /\ runs[i].granted = {}
    /\ told' = told \cup Announced(i)
    /\ group' = [group EXCEPT !.pending = {}, !.ready = TRUE,
                              !.latch = Latch(group, runs[i])]
    /\ runs' = [runs EXCEPT ![i] = [@ EXCEPT !.pc = "done", !.known = {}]]

\* syncCircuitsShapes reads the cursor row again and opens the streams.
ClearAndOpen(i) ==
    /\ ClearRows(i) /\ ~Abandoned(i) /\ runs[i].granted # {}
    /\ told' = told \cup Announced(i)
    /\ group' = [group EXCEPT !.pending = {}]
    /\ runs' = [runs EXCEPT ![i] =
                  [@ EXCEPT !.pc = "opening", !.engine = "live",
                            !.known = cursor' \cap runs[i].granted]]

\* The first response of one stream.
StreamAnswers(i, s) ==
    /\ At(i, "opening")
    /\ s \in runs[i].granted \ runs[i].answered
    /\ runs' = [runs EXCEPT ![i].answered = @ \cup {s}]
    /\ UNCHANGED <<group, torn, desync, grants, rows, cursor, told, used>>

\* Every stream has answered: group.start() resolves.
Opened(i) ==
    /\ At(i, "opening") /\ runs[i].answered = runs[i].granted
    /\ IF Abandoned(i)
       THEN Return(i, [Unsubscribe(runs[i]) EXCEPT !.pc = "done", !.lease = "none"])
       ELSE /\ group' = [group EXCEPT !.handle = i, !.latch = Latch(group, runs[i])]
            /\ runs' = [runs EXCEPT ![i].pc = "done"]
    /\ UNCHANGED <<torn, desync, grants, rows, cursor, told, used>>

\* The catch of scheduleRestart: release the latch, then climb the ladder.
RestartFailedLatched(g, r, run) ==    \* mutant: schedules before the release
    LET p == IF ~torn /\ run.gen = g.generation THEN ScheduleRestart(g, r)
                                                ELSE Pair(g, r)
    IN  Pair([p.group EXCEPT !.latch = Latch(p.group, run)], p.runs)
RestartFailed(g, r, run) ==
    LET released == [g EXCEPT !.latch = Latch(g, run)] IN
    IF ~torn /\ run.gen = g.generation
    THEN ScheduleRestart(released, r)
    ELSE Pair(released, r)

\* The catch of startGroup.
StartFailed(g, r) == ScheduleRestart(g, r)

\* The clear failed, or a stream was refused; start() closes the others.
OpenFails(i) ==
    /\ At(i, "clear") \/ (At(i, "opening") /\ runs[i].answered # runs[i].granted)
    /\ runs[i].kind = "start" /\ Abandoned(i) => "failed_start" \in Windows
    /\ Spend("faults", MaxFaults)
    /\ LET r == [runs EXCEPT ![i] = [Unsubscribe(@) EXCEPT !.pc = "done"]] IN
       Become(IF runs[i].kind = "restart" THEN RestartFailed(group, r, runs[i])
                                 ELSE StartFailed(group, r))
    /\ UNCHANGED <<torn, desync, grants, rows, cursor, told>>

-----------------------------------------------------------------------------
(***************************************************************************)
(* An engine at work.                                                      *)
(***************************************************************************)
Live(run) == run.engine \in {"live", "synced"}

\* onStreamEnd under a live read.
StreamEnds(i, s) ==
    /\ i \in DOMAIN runs /\ Live(runs[i])
    /\ s \in runs[i].answered \ runs[i].ended
    /\ runs[i].pc = "opening" => "early" \in Windows
    /\ Spend("faults", MaxFaults)
    /\ Become(ScheduleRestart(group, [runs EXCEPT ![i].ended = @ \cup {s}]))
    /\ UNCHANGED <<torn, desync, grants, rows, cursor, told>>

\* session.refresh() posts the token ...
Mint(i) ==
    /\ i \in DOMAIN runs /\ Live(runs[i]) /\ runs[i].lease = "held"
    /\ runs[i].pc = "opening" => "early" \in Windows
    /\ runs[i].mint = "idle" /\ runs[i].token # {}
    /\ runs' = [runs EXCEPT ![i].mint = "posted"]
    /\ UNCHANGED <<group, torn, desync, grants, rows, cursor, told, used>>

\* ... and is answered: onRevoked asks for a restart.
MintAnswered(i) ==
    /\ i \in DOMAIN runs /\ runs[i].mint = "posted" /\ ~torn
    /\ runs[i].lease # "held" => "late_mint" \in Windows
    /\ LET revoked == runs[i].token \ grants
           r == [runs EXCEPT ![i] = [@ EXCEPT !.mint = "idle", !.token = runs[i].token \cap grants]]
       IN  IF revoked = {} THEN group' = group /\ runs' = r
           ELSE Become(ScheduleRestart([group EXCEPT !.pending = @ \cup revoked], r))
    /\ UNCHANGED <<torn, desync, grants, rows, cursor, told, used>>

\* A re-mint that fails, or that the teardown aborts, keeps the token.
MintFails(i) ==
    /\ i \in DOMAIN runs /\ runs[i].mint = "posted"
    /\ runs' = [runs EXCEPT ![i].mint = "idle"]
    /\ UNCHANGED <<group, torn, desync, grants, rows, cursor, told, used>>

\* commitHeld: a shape that resumes adds to the rows it has, any other one is
\* loaded whole.  Without a cursor row nothing is truncated first, and the bulk
\* load collides with rows already there.
Commit(i) ==
    /\ At(i, "done") /\ Live(runs[i])
    /\ runs[i].known = {} => rows \cap runs[i].granted = {}
    /\ rows' = rows \cup (runs[i].granted \ runs[i].known)
    /\ cursor' = runs[i].granted
    /\ runs' = [runs EXCEPT ![i] = [@ EXCEPT !.known = runs[i].granted, !.engine = "synced"]]
    /\ group' = [group EXCEPT !.ready = @ \/ runs[i].engine = "live"]
    /\ UNCHANGED <<torn, desync, grants, told, used>>

-----------------------------------------------------------------------------
(***************************************************************************)
(* desync(), the teardown, and the control plane.                          *)
(***************************************************************************)
\* stopGroup.
StoppedLatched(g) ==                  \* mutant: a parked restart keeps the latch
    [generation |-> g.generation + 1, start |-> 0, latch |-> g.latch, handle |-> 0,
     session |-> 0, ready |-> FALSE, pending |-> {}]
Stopped(g) ==
    [generation |-> g.generation + 1, start |-> 0, latch |-> 0, handle |-> 0,
     session |-> 0, ready |-> FALSE, pending |-> {}]

Desync ==
    /\ desync = "idle" /\ ~torn
    /\ (\E i \in DOMAIN runs : At(i, "clear") /\ Stale(i) # {}) => "late_clear" \in Windows
    /\ Spend("stops", MaxStops)
    /\ Become(Pair(Stopped(group), TakeDown(group, runs)))
    /\ desync' = "stopped"
    /\ UNCHANGED <<torn, grants, rows, cursor, told>>

\* clearLazyGroupActivation and the reset of the group's cursor row.
CursorKept == cursor                  \* mutant: the cursor row survives
CursorReset == {}

DesyncForgets ==
    /\ desync = "stopped"
    /\ cursor' = CursorReset
    /\ desync' = "forgotten"
    /\ UNCHANGED <<group, runs, torn, grants, rows, told, used>>

\* The members are truncated.
DesyncTruncates ==
    /\ desync = "forgotten"
    /\ rows' = {}
    /\ desync' = "idle"
    /\ UNCHANGED <<group, runs, torn, grants, cursor, told, used>>

\* unsubscribe() of the whole read path.
TearDown ==
    /\ ~torn
    /\ torn' = TRUE
    /\ group' = [group EXCEPT !.generation = @ + 1]
    /\ runs' = TakeDown(group, runs)
    /\ UNCHANGED <<desync, grants, rows, cursor, told, used>>

\* A scope is given or taken at the control plane.
GrantsChange ==
    /\ Spend("changes", MaxChanges)
    /\ grants' \in SUBSET Shapes \ {grants}
    /\ UNCHANGED <<group, runs, torn, desync, rows, cursor, told>>

-----------------------------------------------------------------------------
Open(i) ==
    \/ Wake(i) \/ Subscribe(i) \/ SubscribeAbandoned(i)
    \/ ClearAbandoned(i) \/ ClearNothingGranted(i) \/ ClearAndOpen(i)
    \/ (\E s \in Shapes : StreamAnswers(i, s))
    \/ Opened(i)

Progress == \E i \in DOMAIN runs : Open(i) \/ Commit(i)

Next ==
    \/ EnsureGroupStarted
    \/ Progress
    \/ \E i \in DOMAIN runs :
          \/ OpenFails(i) \/ Mint(i) \/ MintAnswered(i) \/ MintFails(i)
          \/ \E s \in Shapes : StreamEnds(i, s)
    \/ Desync \/ DesyncForgets \/ DesyncTruncates
    \/ TearDown
    \/ GrantsChange

Spec == Init /\ [][Next]_vars /\ WF_vars(Progress) /\ WF_vars(DesyncForgets \/ DesyncTruncates)

-----------------------------------------------------------------------------
(***************************************************************************)
(* Properties.                                                             *)
(***************************************************************************)
Run == [kind : {"start", "restart"}, gen : Nat,
        pc : {"backoff", "subscribe", "clear", "opening", "done"},
        granted : SUBSET Shapes, token : SUBSET Shapes, known : SUBSET Shapes,
        answered : SUBSET Shapes, ended : SUBSET Shapes,
        engine : {"none", "live", "synced"}, lease : {"none", "held"},
        mint : {"idle", "posted"}]

\* Every variable keeps its type, and the group's handle and session name runs
\* of openGroup.
TypeOK ==
    /\ runs \in Seq(Run)
    /\ group \in [generation : Nat, start : 0 .. Len(runs), latch : 0 .. Len(runs),
                  handle : 0 .. Len(runs), session : 0 .. Len(runs),
                  ready : BOOLEAN, pending : SUBSET Shapes]
    /\ torn \in BOOLEAN
    /\ desync \in {"idle", "stopped", "forgotten"}
    /\ grants \in SUBSET Shapes /\ rows \in SUBSET Shapes
    /\ cursor \in SUBSET Shapes /\ told \in SUBSET Shapes
    /\ used \in [{"starts", "faults", "stops", "changes"} -> Nat]

Underway(i) == runs[i].pc # "done" /\ runs[i].gen = group.generation
Restarting(i) == runs[i].kind = "restart" /\ Underway(i)

\* The latch stands for exactly one restart: while it is set a restart of the
\* group's generation is under way, so that no later fault is dropped for the
\* sake of a restart that has ended, and there are never two.  "Only one
\* restart can exist per generation", says scheduleRestart.
OneRestart ==
    ~torn => {i \in DOMAIN runs : Restarting(i)} = {group.latch} \ {0}

\* An engine that has been opened and not closed is the one the group would
\* close: stopGroup and the teardown leave no engine committing behind them,
\* whatever was suspended when they ran.
EngineIsTheGroups ==
    \A i \in DOMAIN runs :
        At(i, "done") /\ Live(runs[i]) => i = group.handle /\ group.start # 0 /\ ~torn

\* A started group is never "neither reading nor recovering" (scheduleRestart):
\* a run is under way, or every stream of its engine reads, or it was granted
\* nothing to read.
ReadingOrRecovering ==
    group.start # 0 /\ ~torn =>
    \/ \E i \in DOMAIN runs : Underway(i)
    \/ group.handle # 0 /\ Live(runs[group.handle]) /\ runs[group.handle].ended = {}
    \/ group.session # 0 /\ runs[group.session].granted = {}

\* A session that has not been closed is the group's: no run that is stopped,
\* restarted or fails leaves the engine claims of its grants behind.
SessionsAreReleased ==
    \A i \in DOMAIN runs : runs[i].lease = "held" => i = group.session /\ ~torn

\* Once onRefused has announced a shape its rows are gone, and no engine brings
\* them back before the control plane grants the shape again.
LostRowsStayGone == told \cap rows = {}

\* A shape the cursor row names has its rows: desync, a clear and a commit never
\* leave a resume token for rows that are gone, which no later read re-sends.
CursorHasRows == cursor \subseteq rows

\* A group becomes ready only over rows its current session was granted; what
\* was lost while the client was away is cleared first.
ReadyHoldsGranted ==
    [][ ~group.ready /\ group'.ready
        => group.session # 0 /\ rows' \subseteq runs[group.session].granted ]_vars

\* A started group becomes ready, through failed opens, ended streams and
\* revocations, unless it is stopped or torn down.
BecomesReady == group.start # 0 ~> (group.ready \/ group.start = 0 \/ torn)

\* A stopped group stays dormant until it is started again: no restart is
\* scheduled for it and no engine is installed in it.
StoppedStaysStopped == group.start = 0 => group.latch = 0 /\ group.handle = 0
=============================================================================
