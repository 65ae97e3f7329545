-------------------------- MODULE EnginePlacement --------------------------
(***************************************************************************)
(* Where the database engine of a store lives when no SharedWorker can     *)
(* hold the store's files: the tabs elect a leader with a Web Lock, the    *)
(* leader's page spawns the engine as a dedicated worker, and the          *)
(* SharedWorker only routes, handing every tab a direct pipe to it.        *)
(*                                                                         *)
(* A tab is a page's attached client (attach-sync-client.ts) together with *)
(* its election coordinator (election-coordinator.ts); the SharedWorker is *)
(* engine-router.ts under the listener of define-sync-worker.ts; an engine *)
(* is a dedicated worker with its control plane.  A coordinator serves one *)
(* attachment, so it has one claim at most.                                *)
(*                                                                         *)
(* Messages of one port keep their order.  Messages of different tabs are  *)
(* read by the SharedWorker in the order in which they were posted.        *)
(***************************************************************************)
EXTENDS Integers, Sequences, FiniteSets
LOCAL INSTANCE SequencesExt

CONSTANTS
    Tabs,           \* the pages that may attach to the store
    Calls,          \* the calls they make, each once
    Owner,          \* [Calls -> Tabs]
    Kind,           \* [Calls -> {"read", "mutation"}]
    QueueCap,       \* handoffQueue.cap
    MaxEngines,     \* bound: engines spawned
    MaxEvents       \* bound: detaches, hidden and lost pages, engine deaths,
                    \* failed boots and probe verdicts

ASSUME PlacementAssumption ==
    /\ Owner \in [Calls -> Tabs]
    /\ Kind \in [Calls -> {"read", "mutation"}]
    /\ QueueCap \in Nat /\ MaxEngines \in Nat /\ MaxEvents \in Nat

VARIABLES
    tab,        \* the attached client of each page
    coord,      \* its election coordinator
    router,     \* the router in the SharedWorker
    engine,     \* the engine workers, numbered as they are spawned
    spawned,    \* how many were
    calls,      \* the calls: how they stand for the caller, and whether they ran
    inbox,      \* tab -> SharedWorker: <<tab, what it posted in one turn, argument>>
    down,       \* SharedWorker -> tab
    ctl,        \* SharedWorker -> engine, on the engine's control port
    rep,        \* engine -> SharedWorker, the port's close event included
    errors,     \* pages with an undelivered error event of their engine worker
    events      \* how many of the events of MaxEvents have happened

vars == <<tab, coord, router, engine, spawned, calls, inbox, down, ctl, rep,
          errors, events>>

(***************************************************************************)
(* Identities are the generations one SharedWorker mints.  Unknown is both *)
(* "no identity" and the placeholder a retirement uses when it never       *)
(* learned one.                                                            *)
(***************************************************************************)
Unknown == -1
Generations == 0..(MaxEngines - 1)
Engines == 1..MaxEngines
NoEngine == 0

OpenTabs == {"declared", "attaching", "attached"}
Listening(t) == tab[t].st \in OpenTabs

NewTab == [st |-> "out", window |-> FALSE, id |-> Unknown, pipe |-> NoEngine,
           hand |-> "none"]
NewCoord == [claims |-> 0, lock |-> "idle", engine |-> NoEngine, id |-> Unknown,
             retiring |-> FALSE, awaits |-> Unknown, suspended |-> FALSE,
             destroying |-> FALSE]
NewRouter == [tabs |-> {}, current |-> Unknown, port |-> NoEngine,
              ready |-> FALSE, torn |-> FALSE, minted |-> Unknown]

Init ==
    /\ tab = [t \in Tabs |-> NewTab]
    /\ coord = [t \in Tabs |-> NewCoord]
    /\ router = NewRouter
    /\ engine = [e \in Engines |-> [st |-> "none", gen |-> Unknown, piped |-> {}]]
    /\ spawned = 0
    /\ calls = [c \in Calls |-> [st |-> "new", pipe |-> NoEngine, ran |-> FALSE]]
    /\ inbox = <<>>
    /\ down = [t \in Tabs |-> <<>>]
    /\ ctl = [e \in Engines |-> <<>>]
    /\ rep = [e \in Engines |-> <<>>]
    /\ errors = {}
    /\ events = 0

Event == events < MaxEvents /\ events' = events + 1

-----------------------------------------------------------------------------
(***************************************************************************)
(* The caller's side of a call.                                            *)
(***************************************************************************)
InFlight == {"sent", "answered"}
Settled == {"ok", "unknown", "not-dispatched", "detached"}

\* A call whose answer is lost: a mutation may have run, a read may be repeated.
AlwaysRepeatable(c) == "not-dispatched"

LostOutcome(c) == IF Kind[c] = "mutation" THEN "unknown" ELSE "not-dispatched"

CallsOf(t, S) == {c \in Calls : Owner[c] = t /\ calls[c].st \in S}

\* Settle every call of t that is in flight.
SettleInFlight(t) ==
    [c \in Calls |-> IF c \in CallsOf(t, InFlight)
                     THEN [calls[c] EXCEPT !.st = LostOutcome(c)] ELSE calls[c]]

\* Dispatch what the window held back, on the tab's pipe.
FlushQueue(t) ==
    [c \in Calls |-> IF c \in CallsOf(t, {"queued"})
                     THEN [calls[c] EXCEPT !.st = "sent", !.pipe = tab[t].pipe]
                     ELSE calls[c]]

-----------------------------------------------------------------------------
(***************************************************************************)
(* Coordinator steps, as changes of its record.  Ending a worker closes    *)
(* its control port, which the SharedWorker's end sees after what the      *)
(* worker had posted.                                                      *)
(***************************************************************************)
Gone(how) == [st |-> how, gen |-> Unknown, piped |-> {}]

\* The SharedWorker listens, or will once it has read the announce.
Heard(e) == \/ router.port = e
            \/ \E i \in DOMAIN inbox : inbox[i][2] \in {"grant", "announce"} /\ inbox[i][3] = e

Posts(e, m) == IF Heard(e) THEN rep[e] \o m ELSE rep[e]

Ended(e, how) ==
    IF e # NoEngine /\ engine[e].st = "live"
    THEN /\ engine' = [engine EXCEPT ![e] = Gone(how)]
         /\ rep' = [rep EXCEPT ![e] = Posts(e, << <<"close">> >>)]
         /\ ctl' = [ctl EXCEPT ![e] = <<>>]
    ELSE UNCHANGED <<engine, rep, ctl>>

\* Terminate the handle, if there is one, and spawn the next worker.
Respawns(t) ==
    /\ spawned < MaxEngines
    /\ spawned' = spawned + 1
    /\ LET ends == {coord[t].engine} \cap {e \in Engines : engine[e].st = "live"} IN
       /\ engine' = [e \in Engines |-> CASE e = spawned + 1 -> [engine[e] EXCEPT !.st = "live"]
                                          [] e \in ends -> Gone("died")
                                          [] OTHER -> engine[e]]
       /\ rep' = [e \in Engines |-> IF e \in ends THEN Posts(e, << <<"close">> >>) ELSE rep[e]]
       /\ ctl' = [e \in Engines |-> IF e \in ends THEN <<>> ELSE ctl[e]]

Announce(t, turn) == <<t, turn, spawned + 1>>

Holders == {t \in Tabs : coord[t].lock = "granted"}

QueueLock(c) == IF c.lock = "idle" THEN [c EXCEPT !.lock = "queued"] ELSE c

AddClaim(c) == LET d == [c EXCEPT !.claims = @ + 1]
               IN  IF d.claims = 1 THEN QueueLock(d) ELSE d

\* runRetirement up to its await: the notice, the teardown request, the wait.
Retire(c) == IF c.retiring THEN c ELSE [c EXCEPT !.retiring = TRUE, !.awaits = c.id]

RetirePosts(t, c) == IF c.retiring THEN <<>> ELSE << <<t, "retire", c.id>> >>

\* The last claim goes: a queued request is aborted, a granted lock retires.
ReleaseClaim(c) ==
    LET d == [c EXCEPT !.claims = 0] IN
    CASE c.claims > 0 /\ c.lock = "queued" -> [d EXCEPT !.lock = "idle"]
      [] c.claims > 0 /\ c.lock = "granted" -> Retire(d)
      [] OTHER -> d

\* runRetirement after its await; the worker is terminated, then the lock goes.
Retired(c) == [c EXCEPT !.engine = NoEngine, !.id = Unknown, !.retiring = FALSE,
                        !.awaits = Unknown, !.lock = "idle"]

\* teardownAckMatches
AckMatches(c, g) == c.retiring /\ c.awaits \in {Unknown, g}

-----------------------------------------------------------------------------
(***************************************************************************)
(* The page's own steps.                                                   *)
(***************************************************************************)
\* A page opens its port, declares its storage and asks where the engine lives.
Attach(t) ==
    /\ tab[t].st = "out"
    /\ tab' = [tab EXCEPT ![t].st = "declared"]
    /\ inbox' = Append(inbox, <<t, "declare", Unknown>>)
    /\ UNCHANGED <<coord, router, engine, spawned, calls, down, ctl, rep, errors, events>>

\* detachFromWorker, for a coordinator that stands at c: leave the router, settle
\* every promise, release the claim, close the ports.  The retirement this may
\* start is posted after tab-detach, when the router no longer listens to the tab,
\* and its ack would find the port closed.  The page itself lives on.
Detaches(t, c) ==
    /\ tab' = [tab EXCEPT ![t] = [NewTab EXCEPT !.st = "detached"]]
    /\ calls' = [k \in Calls |-> IF k \in CallsOf(t, InFlight \cup {"queued"})
                                 THEN [calls[k] EXCEPT !.st = "detached"] ELSE calls[k]]
    /\ inbox' = Append(inbox, <<t, "tab-detach", Unknown>>)
    /\ coord' = [coord EXCEPT ![t] = [ReleaseClaim(c) EXCEPT !.destroying = FALSE]]
    /\ down' = [down EXCEPT ![t] = <<>>]

Detach(t) ==
    /\ Listening(t) /\ ~coord[t].destroying
    /\ Event
    /\ Detaches(t, coord[t])
    /\ UNCHANGED <<router, engine, spawned, ctl, rep, errors>>

\* destroy(): refused while the router counts a peer; an engine of this page is
\* retired before the page detaches, and the store is deleted after that.
Destroy(t) ==
    /\ tab[t].st = "attached" /\ ~coord[t].destroying
    /\ Cardinality(router.tabs) <= 1
    /\ LET c == coord[t]
           retires == c.lock = "granted" /\ c.engine # NoEngine /\ ~c.retiring IN
       \/ /\ retires
          /\ coord' = [coord EXCEPT ![t] = [Retire(c) EXCEPT !.destroying = TRUE]]
          /\ inbox' = inbox \o RetirePosts(t, c)
          /\ UNCHANGED <<tab, calls, down>>
       \/ ~retires /\ Detaches(t, c)
    /\ Event
    /\ UNCHANGED <<router, engine, spawned, ctl, rep, errors>>

\* The lock is granted: notice, worker, announce.
Grant(t) ==
    /\ Holders = {} /\ coord[t].lock = "queued"
    /\ Respawns(t)
    /\ coord' = [coord EXCEPT ![t].lock = "granted", ![t].engine = spawned + 1]
    /\ inbox' = Append(inbox, Announce(t, "grant"))
    /\ UNCHANGED <<tab, router, calls, down, errors, events>>

LeavesTheWorker(t, rest) ==
    /\ coord' = [coord EXCEPT ![t] = Retired(@)]
    /\ down' = [down EXCEPT ![t] = rest]
    /\ UNCHANGED <<tab, calls, inbox, engine, rep, ctl, router, spawned, errors, events>>

\* The end of a retirement, by the ack or by the timeout.
FinishRetirement(t, rest) ==
    LET c == Retired(coord[t]) IN
    /\ Ended(coord[t].engine, "retired")
    /\ IF coord[t].destroying THEN Detaches(t, c)
       ELSE /\ coord' = [coord EXCEPT ![t] = c]
            /\ down' = [down EXCEPT ![t] = rest]
            /\ UNCHANGED <<tab, calls, inbox>>
    /\ UNCHANGED <<router, spawned, errors, events>>

TeardownTimeout(t) == coord[t].retiring /\ FinishRetirement(t, down[t])

\* The worker's error event: respawn under the same grant.  The handler belongs to
\* the page, not to the worker that failed.
EngineError(t) ==
    /\ t \in errors
    /\ errors' = errors \ {t}
    /\ IF coord[t].lock = "granted"
       THEN /\ Respawns(t)
            /\ coord' = [coord EXCEPT ![t].engine = spawned + 1, ![t].id = Unknown]
            /\ inbox' = Append(inbox, Announce(t, "announce"))
       ELSE UNCHANGED <<spawned, engine, rep, ctl, coord, inbox>>
    /\ UNCHANGED <<tab, router, calls, down, events>>

\* pagehide with persisted: the leader gives up its authority and keeps its claim.
PageHide(t) ==
    /\ Listening(t) /\ coord[t].lock = "granted" /\ ~coord[t].suspended
    /\ Event
    /\ coord' = [coord EXCEPT ![t] = [Retire(@) EXCEPT !.suspended = TRUE]]
    /\ inbox' = inbox \o RetirePosts(t, coord[t])
    /\ UNCHANGED <<tab, router, engine, spawned, calls, down, ctl, rep, errors>>

Shown(c) == LET d == [c EXCEPT !.suspended = FALSE]
            IN  IF d.claims > 0 THEN QueueLock(d) ELSE d

PageShow(t) ==
    /\ coord[t].suspended
    /\ coord' = [coord EXCEPT ![t] = Shown(@)]
    /\ UNCHANGED <<tab, router, engine, spawned, calls, inbox, down, ctl, rep, errors, events>>

\* The page goes away, and with it its lock, its workers and its ports.  After a
\* detach, or out of the back/forward cache, that is the ordinary end of a page.
Leave(t) ==
    /\ Listening(t) \/ coord[t].lock # "idle"
    /\ IF Listening(t) /\ ~coord[t].suspended THEN Event ELSE UNCHANGED events
    /\ tab' = [tab EXCEPT ![t] = [NewTab EXCEPT !.st = "left"]]
    /\ calls' = [k \in Calls |-> IF k \in CallsOf(t, InFlight \cup {"queued"})
                                 THEN [calls[k] EXCEPT !.st = "detached"] ELSE calls[k]]
    /\ Ended(coord[t].engine, "died")
    /\ coord' = [coord EXCEPT ![t] = NewCoord]
    /\ inbox' = Append(inbox, <<t, "close", Unknown>>)
    /\ down' = [down EXCEPT ![t] = <<>>]
    /\ errors' = errors \ {t}
    /\ UNCHANGED <<router, spawned>>

-----------------------------------------------------------------------------
(***************************************************************************)
(* The SharedWorker.                                                       *)
(***************************************************************************)

ClearEngine(r) == [r EXCEPT !.current = Unknown, !.port = NoEngine,
                            !.ready = FALSE, !.torn = FALSE]

\* The successor of the last identity minted, which a handoff does not clear.
Mint(r) == r.minted + 1

Fan(r, m) == [t \in Tabs |-> IF t \in r.tabs /\ Listening(t)
                             THEN Append(down[t], m) ELSE down[t]]

\* deliverPipe to each tab of T: one end to the engine, one to the tab.
PipesTo(r, T, ports) ==
    [e \in Engines |->
        IF e = r.port /\ engine[e].st = "live"
        THEN ports[e] \o [i \in 1..Cardinality(T) |-> <<"connect-port", r.current, SetToSeq(T)[i]>>]
        ELSE ports[e]]

\* The listeners of the current engine's port go with it.
Unheard == [e \in Engines |-> IF e = router.port THEN <<>> ELSE rep[e]]

\* A tab's declaration: its port is routed, and a ready engine pipes it at once.
OnDeclare(t) ==
    LET r == [router EXCEPT !.tabs = @ \cup {t}]
        pipes == r.current # Unknown /\ r.ready
        m == IF pipes THEN << <<"connect-port", r.current, r.port>> >> ELSE <<>> IN
    /\ router' = r
    /\ ctl' = IF pipes THEN PipesTo(r, {t}, ctl) ELSE ctl
    /\ down' = IF Listening(t)
               THEN [down EXCEPT ![t] = @ \o m \o << <<"placement">> >>] ELSE down
    /\ UNCHANGED rep

Announced(r, e) == [ClearEngine(r) EXCEPT !.minted = Mint(r), !.current = Mint(r), !.port = e]

\* announceEngine, after a grant's openHandoff when there is one.
OnAnnounce(e, fanned) ==
    /\ router' = Announced(router, e)
    /\ ctl' = IF engine[e].st = "live"
              THEN [ctl EXCEPT ![e] = Append(@, <<"assign-identity", Mint(router)>>)] ELSE ctl
    /\ down' = IF fanned THEN Fan(router, <<"leader-granted">>) ELSE down
    /\ rep' = Unheard

\* Forwarded for the current engine, from a port the router still listens to.
OnTeardown(t, g) ==
    IF t \in router.tabs /\ router.current # Unknown /\ g = router.current
    THEN /\ router' = [router EXCEPT !.torn = TRUE]
         /\ ctl' = IF engine[router.port].st = "live"
                   THEN [ctl EXCEPT ![router.port] = Append(@, <<"engine-teardown", g>>)] ELSE ctl
         /\ UNCHANGED <<down, rep>>
    ELSE UNCHANGED <<router, ctl, down, rep>>

\* A detaching or closed port.
OnTabGone(t) == router' = [router EXCEPT !.tabs = @ \ {t}] /\ UNCHANGED <<ctl, down, rep>>

\* The two listeners of a tab's port.  Of a retirement they take the teardown
\* request: no listener takes the notice posted ahead of it.
SharedWorkerReads ==
    /\ inbox # <<>>
    /\ inbox' = Tail(inbox)
    /\ LET t == Head(inbox)[1]  turn == Head(inbox)[2]  x == Head(inbox)[3] IN
       \/ turn = "declare" /\ OnDeclare(t)
       \/ turn = "grant" /\ OnAnnounce(x, TRUE)
       \/ turn = "announce" /\ OnAnnounce(x, FALSE)
       \/ turn = "retire" /\ OnTeardown(t, x)
       \/ turn \in {"tab-detach", "close"} /\ OnTabGone(t)
    /\ UNCHANGED <<tab, coord, engine, spawned, calls, errors, events>>

RetireCurrent == /\ router' = ClearEngine(router)
                 /\ down' = Fan(router, <<"engine-retiring", router.current>>)
                 /\ rep' = Unheard
                 /\ UNCHANGED ctl

OnEngineReady ==
    /\ router' = [router EXCEPT !.ready = TRUE]
    /\ ctl' = PipesTo(router, router.tabs, ctl)
    /\ down' = Fan(router, <<"connect-port", router.current, router.port>>)

OnPortClose ==
    IF router.torn
    THEN router' = ClearEngine(router) /\ rep' = Unheard /\ UNCHANGED <<ctl, down>>
    ELSE RetireCurrent

\* What the control port of the announced engine brings.
RouterHears ==
    LET e == router.port IN
    /\ e # NoEngine /\ rep[e] # <<>>
    /\ LET m == Head(rep[e]) IN
       \/ /\ m[1] = "engine-ready" /\ OnEngineReady
          /\ rep' = [rep EXCEPT ![e] = Tail(@)]
       \/ /\ m[1] = "control-ack" /\ down' = Fan(router, m)
          /\ rep' = [rep EXCEPT ![e] = Tail(@)]
          /\ UNCHANGED <<router, ctl>>
       \/ m[1] = "close" /\ OnPortClose
    /\ UNCHANGED <<tab, coord, engine, spawned, calls, inbox, errors, events>>

\* The probe loop of the opt-in execution limit ends in its verdict: a live engine
\* that answered nothing for too long is retired like a dead one.
ProbeVerdict ==
    /\ router.current # Unknown
    /\ Event
    /\ RetireCurrent
    /\ UNCHANGED <<tab, coord, engine, spawned, calls, inbox, errors>>

-----------------------------------------------------------------------------
(***************************************************************************)
(* The engine's control plane, its boot and its work.                      *)
(***************************************************************************)
\* Teardown acknowledges and closes the worker's own scope.
EngineReads(e) ==
    /\ engine[e].st = "live" /\ ctl[e] # <<>>
    /\ LET m == Head(ctl[e])
           rest == [ctl EXCEPT ![e] = Tail(@)] IN
       \/ /\ m[1] = "assign-identity" /\ ctl' = rest
          /\ engine' = [engine EXCEPT ![e].gen = m[2]]
          /\ rep' = [rep EXCEPT ![e] = Posts(e, << <<"engine-ready", m[2]>> >>)]
       \/ /\ m[1] = "connect-port" /\ ctl' = rest
          /\ engine' = [engine EXCEPT ![e].piped = IF engine[e].gen = m[2] THEN @ \cup {m[3]} ELSE @]
          /\ UNCHANGED rep
       \/ /\ m[1] = "engine-teardown" /\ engine[e].gen = m[2]
          /\ engine' = [engine EXCEPT ![e] = Gone("retired")]
          /\ ctl' = [ctl EXCEPT ![e] = <<>>]
          /\ rep' = [rep EXCEPT ![e] = Posts(e, << <<"control-ack", m[2]>>, <<"close">> >>)]
    /\ UNCHANGED <<tab, coord, router, spawned, calls, inbox, down, errors, events>>

\* The worker dies and its page is told.
EngineDies(e) ==
    /\ engine[e].st = "live"
    /\ Event
    /\ Ended(e, "died")
    /\ errors' = errors \cup {t \in Tabs : coord[t].engine = e}
    /\ UNCHANGED <<tab, coord, router, spawned, calls, inbox, down>>

\* The attach of a connected pipe: the engine boots and acknowledges, or reports
\* that its boot failed.
Answers(t, how) ==
    /\ tab[t].hand = "sent"
    /\ engine[tab[t].pipe].st = "live" /\ t \in engine[tab[t].pipe].piped
    /\ tab' = [tab EXCEPT ![t].hand = how]
    /\ UNCHANGED <<coord, router, engine, spawned, calls, inbox, down, ctl, rep, errors>>

EngineBoots(t) == Answers(t, "acked") /\ UNCHANGED events
BootFails(t) == Answers(t, "failed") /\ Event

\* A dispatched call runs, also one whose caller has given it up.
Run(c) ==
    LET e == calls[c].pipe IN
    /\ e # NoEngine /\ ~calls[c].ran
    /\ engine[e].st = "live" /\ Owner[c] \in engine[e].piped
    /\ calls' = [calls EXCEPT ![c].ran = TRUE,
                              ![c].st = IF @ = "sent" THEN "answered" ELSE @]
    /\ UNCHANGED <<tab, coord, router, engine, spawned, inbox, down, ctl, rep, errors, events>>

-----------------------------------------------------------------------------
(***************************************************************************)
(* The attached client.                                                    *)
(***************************************************************************)
\* A relocation notice opens the handoff window, once.
OpensWindow(t) ==
    IF tab[t].window THEN UNCHANGED <<tab, calls>>
    ELSE /\ tab' = [tab EXCEPT ![t].window = TRUE]
         /\ calls' = SettleInFlight(t)

SwapsPipeOnly(t, g, e) ==
    IF tab[t].id = g THEN UNCHANGED <<tab, calls>>
    ELSE /\ tab' = [tab EXCEPT ![t].window = TRUE, ![t].id = g, ![t].pipe = e,
                               ![t].hand = "sent"]
         /\ UNCHANGED calls

\* A pipe to another engine than the current one replaces it.
OnConnectPort(t, g, e) ==
    IF tab[t].id = g THEN UNCHANGED <<tab, calls>>
    ELSE /\ tab' = [tab EXCEPT ![t].window = TRUE, ![t].id = g, ![t].pipe = e,
                               ![t].hand = "sent"]
         /\ calls' = IF tab[t].pipe # NoEngine THEN SettleInFlight(t) ELSE calls

\* The coordinator takes a notice for its own engine as the verdict: terminate and
\* respawn.  The attached client ignores a notice for another engine than its own.
OnEngineRetiring(t, g) ==
    /\ IF coord[t].lock = "granted" /\ coord[t].id = g
       THEN /\ Respawns(t)
            /\ coord' = [coord EXCEPT ![t].engine = spawned + 1, ![t].id = Unknown]
            /\ inbox' = Append(inbox, Announce(t, "announce"))
       ELSE UNCHANGED <<spawned, engine, rep, ctl, coord, inbox>>
    /\ IF tab[t].id \notin {Unknown, g} THEN UNCHANGED <<tab, calls>> ELSE OpensWindow(t)

OnControlMessage(t, m) ==
    \/ /\ m[1] = "placement"
       /\ tab' = [tab EXCEPT ![t].st = IF @ = "declared" THEN "attaching" ELSE @]
       /\ coord' = [coord EXCEPT ![t] = AddClaim(@)]
       /\ UNCHANGED <<spawned, engine, rep, ctl, inbox, calls>>
    \/ m[1] = "leader-granted" /\ OpensWindow(t) /\ UNCHANGED <<spawned, engine, rep, ctl, coord, inbox>>
    \/ m[1] = "engine-retiring" /\ OnEngineRetiring(t, m[2])
    \/ /\ m[1] = "connect-port"
       /\ coord' = [coord EXCEPT ![t].id = m[2]]
       /\ OnConnectPort(t, m[2], m[3])
       /\ UNCHANGED <<spawned, engine, rep, ctl, inbox>>
    \/ /\ m[1] = "control-ack" /\ ~AckMatches(coord[t], m[2])
       /\ UNCHANGED <<tab, coord, spawned, engine, rep, ctl, inbox, calls>>

TabReads(t) ==
    /\ Listening(t) /\ down[t] # <<>>
    /\ LET m == Head(down[t]) IN
       \/ /\ OnControlMessage(t, m)
          /\ down' = [down EXCEPT ![t] = Tail(@)]
          /\ UNCHANGED <<router, errors, events>>
       \/ /\ m[1] = "control-ack" /\ AckMatches(coord[t], m[2])
          /\ FinishRetirement(t, Tail(down[t]))

\* The acknowledgement closes the window and releases the queue.
Attached(t) ==
    /\ tab[t].hand = "acked"
    /\ tab' = [tab EXCEPT ![t].st = "attached", ![t].window = FALSE, ![t].hand = "none"]
    /\ calls' = FlushQueue(t)
    /\ UNCHANGED <<coord, router, engine, spawned, inbox, down, ctl, rep, errors, events>>

\* A failed first attach detaches; a failed re-attach leaves the window open.
AttachFails(t) ==
    /\ tab[t].hand = "failed"
    /\ IF tab[t].st = "attached"
       THEN /\ tab' = [tab EXCEPT ![t].hand = "none"]
            /\ UNCHANGED <<calls, inbox, coord, down>>
       ELSE Detaches(t, coord[t])
    /\ UNCHANGED <<router, engine, spawned, ctl, rep, errors, events>>

Call(c) ==
    LET t == Owner[c]
        queued == Cardinality(CallsOf(t, {"queued"})) IN
    /\ calls[c].st = "new" /\ tab[t].st = "attached"
    /\ \/ ~tab[t].window /\ calls' = [calls EXCEPT ![c].st = "sent", ![c].pipe = tab[t].pipe]
       \/ tab[t].window /\ queued < QueueCap /\ calls' = [calls EXCEPT ![c].st = "queued"]
       \/ tab[t].window /\ queued >= QueueCap /\ calls' = [calls EXCEPT ![c].st = "not-dispatched"]
    /\ UNCHANGED <<tab, coord, router, engine, spawned, inbox, down, ctl, rep, errors, events>>

Answered(c) ==
    /\ calls[c].st = "answered"
    /\ calls' = [calls EXCEPT ![c].st = "ok"]
    /\ UNCHANGED <<tab, coord, router, engine, spawned, inbox, down, ctl, rep, errors, events>>

\* The queue's deadline fails what never left the tab.
QueueDeadline(t) ==
    /\ CallsOf(t, {"queued"}) # {}
    /\ calls' = [c \in Calls |-> IF c \in CallsOf(t, {"queued"})
                                 THEN [calls[c] EXCEPT !.st = "not-dispatched"] ELSE calls[c]]
    /\ UNCHANGED <<tab, coord, router, engine, spawned, inbox, down, ctl, rep, errors, events>>

-----------------------------------------------------------------------------
\* What each event loop does by itself: a page, the SharedWorker, an engine.
PageStep(t) ==
    \/ Grant(t) \/ TabReads(t) \/ TeardownTimeout(t) \/ EngineError(t)
    \/ Attached(t) \/ AttachFails(t) \/ QueueDeadline(t)
    \/ \E c \in Calls : Owner[c] = t /\ Answered(c)

WorkerStep == SharedWorkerReads \/ RouterHears

EngineStep(e) ==
    \/ EngineReads(e)
    \/ \E t \in Tabs : tab[t].pipe = e /\ EngineBoots(t)
    \/ \E c \in Calls : calls[c].pipe = e /\ Run(c)

\* What its users and its troubles do.
Outside ==
    \/ ProbeVerdict
    \/ \E t \in Tabs : Attach(t) \/ Detach(t) \/ Destroy(t) \/ PageHide(t) \/ PageShow(t)
                       \/ Leave(t) \/ BootFails(t)
    \/ \E e \in Engines : EngineDies(e)
    \/ \E c \in Calls : Call(c)

Next == \/ \E t \in Tabs : PageStep(t)
        \/ WorkerStep
        \/ \E e \in Engines : EngineStep(e)
        \/ Outside

(***************************************************************************)
(* Every event loop runs on: messages are read, timers fire, locks are     *)
(* granted.  A hidden page is shown again if it is not discarded.  Nobody  *)
(* has to attach, call, detach or fail.                                    *)
(***************************************************************************)
Fairness ==
    /\ \A t \in Tabs : WF_vars(PageStep(t)) /\ WF_vars(PageShow(t))
    /\ WF_vars(WorkerStep)
    /\ \A e \in Engines : WF_vars(EngineStep(e))

Spec == Init /\ [][Next]_vars /\ Fairness

-----------------------------------------------------------------------------
(***************************************************************************)
(* Properties                                                              *)
(***************************************************************************)
\* The state is well formed; the router has a current identity exactly when it
\* holds that engine's control port.
TypeOK ==
    /\ tab \in [Tabs -> [st : {"out", "detached", "left"} \cup OpenTabs, window : BOOLEAN,
                         id : Generations \cup {Unknown}, pipe : Engines \cup {NoEngine},
                         hand : {"none", "sent", "acked", "failed"}]]
    /\ coord \in [Tabs -> [claims : 0..1, lock : {"idle", "queued", "granted"},
                           engine : Engines \cup {NoEngine}, id : Generations \cup {Unknown},
                           retiring : BOOLEAN, awaits : Generations \cup {Unknown},
                           suspended : BOOLEAN, destroying : BOOLEAN]]
    /\ router \in [tabs : SUBSET Tabs, current : Generations \cup {Unknown},
                   port : Engines \cup {NoEngine}, ready : BOOLEAN, torn : BOOLEAN,
                   minted : Generations \cup {Unknown}]
    /\ (router.current = Unknown) = (router.port = NoEngine)
    /\ engine \in [Engines -> [st : {"none", "live", "retired", "died"},
                               gen : Generations \cup {Unknown}, piped : SUBSET Tabs]]
    /\ calls \in [Calls -> [st : {"new", "queued"} \cup InFlight \cup Settled,
                            pipe : Engines \cup {NoEngine}, ran : BOOLEAN]]
    /\ spawned \in 0..MaxEngines /\ events \in 0..MaxEvents /\ errors \subseteq Tabs

\* The store's files are opened exclusively: through elections, respawns, retirements
\* by ack or timeout and lost pages, at most one engine worker is alive.
OneEngine == Cardinality({e \in Engines : engine[e].st = "live"}) <= 1

\* A mutation whose caller was told "not-dispatched", which means safe to repeat, has
\* not run and will not run on any engine.
OutcomeIsHonest ==
    \A c \in Calls : Kind[c] = "mutation" /\ calls[c].st = "not-dispatched" => ~calls[c].ran

\* A page shown again, with a claim, that neither holds the leader lock nor waits
\* for it: pageshow found the retirement of pagehide unfinished.
Stranded(t) == coord[t].claims > 0 /\ coord[t].lock = "idle" /\ ~coord[t].suspended

\* The claim a page kept through the back/forward cache asks for the lock again.
NoClaimIsStranded == \A t \in Tabs : ~Stranded(t)

\* Every call is settled, whichever page or engine goes away meanwhile: it is
\* answered, or the handoff settles it, or its queue's deadline does.  Except for a
\* stranded page, and as far as the bound on engines reaches.
EveryCallSettles ==
    \A c \in Calls : calls[c].st \in InFlight \cup {"queued"}
                     ~> \/ calls[c].st \in Settled
                        \/ Stranded(Owner[c])
                        \/ spawned = MaxEngines

\* A coordinator ends its engine on a notice only when the notice names that engine.
NoticeEndsItsEngine ==
    [][\A t \in Tabs :
          down[t] # <<>> /\ Head(down[t])[1] = "engine-retiring" /\ down'[t] = Tail(down[t]) =>
              \A e \in Engines : engine[e].st = "live" /\ engine'[e].st = "died" =>
                                     engine[e].gen = Head(down[t])[2]]_vars
=============================================================================
