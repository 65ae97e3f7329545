----------------------- MODULE EnginePlacementProofs -----------------------
(***************************************************************************)
(* Proofs about EnginePlacement, for every number of pages, calls, engines *)
(* and events.                                                             *)
(***************************************************************************)
EXTENDS EnginePlacement, TLAPS, FiniteSetTheorems

-----------------------------------------------------------------------------
(***************************************************************************)
(* At most one engine.                                                     *)
(***************************************************************************)
Locks == {"idle", "queued", "granted"}
States == {"none", "live", "retired", "died"}

\* Coordinators and engines, as far as the argument looks at them.
CoordShape(c) ==
    c \in [claims : Nat, lock : Locks, engine : Engines \cup {NoEngine}, id : {c.id}, retiring : BOOLEAN,
           awaits : {c.awaits}, suspended : BOOLEAN, destroying : BOOLEAN]
EngineShape(e) == e \in [st : States, gen : {e.gen}, piped : {e.piped}]

Shape ==
    /\ coord = [t \in Tabs |-> coord[t]]
    /\ \A t \in Tabs : CoordShape(coord[t])
    /\ engine = [e \in Engines |-> engine[e]]
    /\ \A e \in Engines : EngineShape(engine[e])
    /\ spawned \in 0..MaxEngines

\* The numbers above the last one spawned are still free.
Fresh == \A e \in Engines : e > spawned => engine[e].st = "none"

OneHolder == \A t, u \in Tabs : coord[t].lock = "granted" /\ coord[u].lock = "granted" => t = u

\* A live engine is the one the holder of the leader lock has a handle of.
LiveIsHeld ==
    \A e \in Engines : engine[e].st = "live" =>
        \E t \in Tabs : coord[t].lock = "granted" /\ coord[t].engine = e

Held == Shape /\ Fresh /\ OneHolder /\ LiveIsHeld

LEMMA InitHeld == Init => Held
  BY PlacementAssumption DEF Init, Held, Shape, CoordShape, EngineShape, Fresh, OneHolder, LiveIsHeld,
     NewCoord, Engines, NoEngine, Locks, States, Unknown

\* No lock is granted, and what stays alive stays with its holder.
LEMMA StillHeld ==
    ASSUME Held, Shape', spawned' = spawned,
           \A t \in Tabs : coord'[t].lock = "granted" => coord[t].lock = "granted",
           \A e \in Engines : engine[e].st = "none" => engine'[e].st = "none",
           \A e \in Engines : engine'[e].st = "live" =>
              /\ engine[e].st = "live"
              /\ \A t \in Tabs : coord[t].lock = "granted" /\ coord[t].engine = e =>
                                  coord'[t].lock = "granted" /\ coord'[t].engine = e
    PROVE  Held'
  BY DEF Held, Fresh, OneHolder, LiveIsHeld

\* A holder that ends its worker and spawns the next one.
LEMMA RespawnHeld ==
    ASSUME Held, NEW t \in Tabs, Respawns(t), coord' = [u \in Tabs |-> coord'[u]],
           \A u \in Tabs \ {t} : coord[u].lock # "granted" /\ coord'[u] = coord[u],
           CoordShape(coord'[t]), coord'[t].lock = "granted", coord'[t].engine = spawned + 1
    PROVE  Held'
<1> DEFINE ends == {coord[t].engine} \cap {e \in Engines : engine[e].st = "live"}
<1>1. /\ spawned' = spawned + 1 /\ spawned < MaxEngines
      /\ engine' = [e \in Engines |-> CASE e = spawned + 1 -> [engine[e] EXCEPT !.st = "live"]
                                         [] e \in ends -> Gone("died")
                                         [] OTHER -> engine[e]]
  BY DEF Respawns
<1>2. spawned + 1 \in Engines /\ spawned' \in 0..MaxEngines
  BY <1>1, PlacementAssumption DEF Held, Shape, Engines
<1>3. \A e \in Engines : EngineShape(engine'[e])
  BY <1>1 DEF Held, Shape, EngineShape, Gone, States
<1>4. \A e \in Engines : engine'[e].st = "live" => e = spawned + 1
  BY <1>1 DEF Held, LiveIsHeld, Gone
<1>5. \A e \in Engines : e > spawned' => engine'[e].st = "none"
  BY <1>1, <1>2 DEF Held, Shape, Fresh, Engines
<1>6. Shape' BY <1>1, <1>2, <1>3 DEF Held, Shape
<1>7. OneHolder' BY DEF OneHolder
<1>8. LiveIsHeld' BY <1>4 DEF LiveIsHeld
<1> QED BY <1>5, <1>6, <1>7, <1>8 DEF Held, Fresh

\* What Ended does to the engines.
LEMMA EndedEffect ==
    ASSUME Held, NEW e \in Engines \cup {NoEngine}, NEW how \in {"retired", "died"}, Ended(e, how)
    PROVE  /\ engine' = [x \in Engines |-> engine'[x]]
           /\ \A x \in Engines : EngineShape(engine'[x])
           /\ \A x \in Engines : engine'[x].st = "live" => engine[x].st = "live" /\ x # e
           /\ \A x \in Engines : engine[x].st = "none" => engine'[x].st = "none"
<1>1. CASE e # NoEngine /\ engine[e].st = "live"
  BY <1>1 DEF Ended, Held, Shape, EngineShape, Gone, States
<1>2. CASE ~(e # NoEngine /\ engine[e].st = "live")
  <2>1. engine' = engine BY <1>2 DEF Ended
  <2>2. engine[e].st = "live" => e \notin Engines BY <1>2, PlacementAssumption DEF Engines, NoEngine
  <2> QED BY <2>1, <2>2 DEF Held, Shape
<1> QED BY <1>1, <1>2

\* What becomes of the record of a coordinator that releases its claim or retires.
LEMMA RecordSteps ==
    ASSUME NEW c, CoordShape(c)
    PROVE  /\ CoordShape(Retire(c)) /\ Retire(c).lock = c.lock /\ Retire(c).engine = c.engine
           /\ CoordShape(Retired(c)) /\ Retired(c).lock = "idle"
           /\ CoordShape(QueueLock(c)) /\ QueueLock(c).engine = c.engine
           /\ QueueLock(c).lock = "granted" <=> c.lock = "granted"
           /\ CoordShape(ReleaseClaim(c)) /\ ReleaseClaim(c).engine = c.engine
           /\ ReleaseClaim(c).lock = "granted" <=> c.lock = "granted"
           /\ CoordShape(AddClaim(c)) /\ AddClaim(c).engine = c.engine
           /\ AddClaim(c).lock = "granted" <=> c.lock = "granted"
<1> USE DEF CoordShape, Locks
<1>1. \A d : CoordShape(d) => CoordShape(Retire(d)) /\ Retire(d).lock = d.lock /\ Retire(d).engine = d.engine
  BY DEF Retire
<1>2. CoordShape(Retired(c)) /\ Retired(c).lock = "idle"
  <2> DEFINE c1 == [c EXCEPT !.engine = NoEngine]
             c2 == [c1 EXCEPT !.id = Unknown]
             c3 == [c2 EXCEPT !.retiring = FALSE]
             c4 == [c3 EXCEPT !.awaits = Unknown]
             c5 == [c4 EXCEPT !.lock = "idle"]
  <2>1. CoordShape(c1) OBVIOUS
  <2> HIDE DEF c1
  <2>2. CoordShape(c2) BY <2>1
  <2> HIDE DEF c2
  <2>3. CoordShape(c3) BY <2>2
  <2> HIDE DEF c3
  <2>4. CoordShape(c4) BY <2>3
  <2> HIDE DEF c4
  <2>5. CoordShape(c5) /\ c5.lock = "idle" BY <2>4
  <2>6. Retired(c) = c5 BY DEF Retired, c1, c2, c3, c4
  <2> QED BY <2>5, <2>6, Zenon
<1>3. \A d : CoordShape(d) => /\ CoordShape(QueueLock(d)) /\ QueueLock(d).engine = d.engine
                              /\ QueueLock(d).lock = "granted" <=> d.lock = "granted"
  BY DEF QueueLock
<1>4. \A n \in Nat : LET d == [c EXCEPT !.claims = n]
                     IN  CoordShape(d) /\ d.lock = c.lock /\ d.engine = c.engine
  OBVIOUS
<1>5. \A d : CoordShape(d) => LET i == [d EXCEPT !.lock = "idle"]
                              IN  CoordShape(i) /\ i.lock = "idle" /\ i.engine = d.engine
  OBVIOUS
<1>6. /\ CoordShape(ReleaseClaim(c)) /\ ReleaseClaim(c).engine = c.engine
      /\ ReleaseClaim(c).lock = "granted" <=> c.lock = "granted"
  <2> DEFINE d == [c EXCEPT !.claims = 0]
             i == [d EXCEPT !.lock = "idle"]
  <2>1. CoordShape(d) /\ d.lock = c.lock /\ d.engine = c.engine BY <1>4
  <2>2. CoordShape(i) /\ i.lock = "idle" /\ i.engine = d.engine BY <1>5, <2>1
  <2>3. CoordShape(Retire(d)) /\ Retire(d).lock = d.lock /\ Retire(d).engine = d.engine BY <1>1, <2>1
  <2>4. ReleaseClaim(c) = CASE c.claims > 0 /\ c.lock = "queued" -> i
                            [] c.claims > 0 /\ c.lock = "granted" -> Retire(d)
                            [] OTHER -> d
    BY DEF ReleaseClaim
  <2> HIDE DEF d, i, CoordShape
  <2>5. CASE c.claims > 0 /\ c.lock = "queued" BY <2>2, <2>1, <2>4, <2>5
  <2>6. CASE c.claims > 0 /\ c.lock = "granted" BY <2>3, <2>1, <2>4, <2>6
  <2>7. CASE ~(c.claims > 0 /\ c.lock \in {"queued", "granted"}) BY <2>1, <2>4, <2>7
  <2> QED BY <2>5, <2>6, <2>7
<1>7. /\ CoordShape(AddClaim(c)) /\ AddClaim(c).engine = c.engine
      /\ AddClaim(c).lock = "granted" <=> c.lock = "granted"
  <2>1. c.claims + 1 \in Nat OBVIOUS
  <2> HIDE DEF CoordShape
  <2> QED BY <1>3, <1>4, <2>1 DEF AddClaim
<1> QED BY <1>1, <1>2, <1>3, <1>6, <1>7

\* One coordinator's record is replaced.
LEMMA CoordSet ==
    ASSUME Held, NEW t \in Tabs, NEW c, CoordShape(c), coord' = [coord EXCEPT ![t] = c]
    PROVE  /\ coord' = [u \in Tabs |-> coord'[u]]
           /\ \A u \in Tabs : CoordShape(coord'[u])
           /\ coord'[t] = c
           /\ \A u \in Tabs \ {t} : coord'[u] = coord[u]
  BY DEF Held, Shape

\* Nothing but messages, calls and attached clients changes.
LEMMA NothingMovesHeld ==
    ASSUME Held, UNCHANGED <<coord, engine, spawned>>
    PROVE  Held'
  BY DEF Held, Shape, Fresh, OneHolder, LiveIsHeld

\* A coordinator that keeps its handle, and its lock if it has it.
LEMMA CoordMovesHeld ==
    ASSUME Held, NEW t \in Tabs, NEW c, CoordShape(c), coord' = [coord EXCEPT ![t] = c],
           c.engine = coord[t].engine, c.lock = "granted" <=> coord[t].lock = "granted",
           UNCHANGED <<engine, spawned>>
    PROVE  Held'
<1>1. Shape' BY CoordSet DEF Held, Shape
<1> QED BY <1>1, CoordSet, StillHeld DEF Held, Shape

\* A coordinator that loses its engine and its lock.
LEMMA CoordEndsHeld ==
    ASSUME Held, NEW t \in Tabs, NEW c, CoordShape(c), coord' = [coord EXCEPT ![t] = c],
           c.lock # "granted", NEW how \in {"retired", "died"}, Ended(coord[t].engine, how),
           spawned' = spawned
    PROVE  Held'
<1>1. coord[t].engine \in Engines \cup {NoEngine} BY DEF Held, Shape, CoordShape
<1>2. /\ engine' = [x \in Engines |-> engine'[x]]
      /\ \A x \in Engines : EngineShape(engine'[x])
      /\ \A x \in Engines : engine'[x].st = "live" => engine[x].st = "live" /\ x # coord[t].engine
      /\ \A x \in Engines : engine[x].st = "none" => engine'[x].st = "none"
  BY <1>1, EndedEffect
<1>3. Shape' BY <1>2, CoordSet DEF Held, Shape
<1> QED BY <1>2, <1>3, CoordSet, StillHeld

\* A detaching client: the claim goes, a granted lock begins its retirement.
LEMMA DetachesRecord ==
    ASSUME NEW t \in Tabs, NEW c, CoordShape(c), Detaches(t, c)
    PROVE  \E d : /\ coord' = [coord EXCEPT ![t] = d] /\ CoordShape(d) /\ d.engine = c.engine
                  /\ d.lock = "granted" <=> c.lock = "granted"
<1> DEFINE r == ReleaseClaim(c)
           d == [r EXCEPT !.destroying = FALSE]
<1>1. CoordShape(r) /\ r.engine = c.engine /\ (r.lock = "granted" <=> c.lock = "granted")
  BY RecordSteps
<1>2. coord' = [coord EXCEPT ![t] = d] BY DEF Detaches
<1> HIDE DEF r
<1>3. CoordShape(d) /\ d.engine = r.engine /\ d.lock = r.lock BY <1>1 DEF CoordShape
<1> QED BY <1>1, <1>2, <1>3

\* The end of a retirement, with or without the detach of destroy().
LEMMA FinishHeld ==
    ASSUME Held, NEW t \in Tabs, NEW rest, FinishRetirement(t, rest)
    PROVE  Held'
<1> DEFINE c == Retired(coord[t])
<1>1. CoordShape(c) /\ c.lock = "idle" BY RecordSteps DEF Held, Shape
<1>2. Ended(coord[t].engine, "retired") /\ spawned' = spawned BY DEF FinishRetirement
<1> HIDE DEF c
<1>3. \E d : coord' = [coord EXCEPT ![t] = d] /\ CoordShape(d) /\ d.lock # "granted"
  <2>1. CASE coord[t].destroying
    <3>1. Detaches(t, c) BY <2>1 DEF FinishRetirement, c
    <3> QED BY <1>1, <3>1, DetachesRecord
  <2>2. CASE ~coord[t].destroying
    BY <1>1, <2>2 DEF FinishRetirement, c
  <2> QED BY <2>1, <2>2
<1> QED BY <1>2, <1>3, CoordEndsHeld

LEMMA OutsideHeld == ASSUME Held, Outside PROVE Held'
<1>1. CASE ProbeVerdict \/ (\E c \in Calls : Call(c)) \/ (\E t \in Tabs : Attach(t) \/ BootFails(t))
  BY <1>1, NothingMovesHeld DEF ProbeVerdict, Call, Attach, BootFails, Answers
<1>2. ASSUME NEW e \in Engines, EngineDies(e) PROVE Held'
  <2>1. Ended(e, "died") /\ UNCHANGED <<coord, spawned>> BY <1>2 DEF EngineDies
  <2>2. /\ engine' = [x \in Engines |-> engine'[x]]
        /\ \A x \in Engines : EngineShape(engine'[x])
        /\ \A x \in Engines : engine'[x].st = "live" => engine[x].st = "live" /\ x # e
        /\ \A x \in Engines : engine[x].st = "none" => engine'[x].st = "none"
    BY <2>1, EndedEffect
  <2>3. Shape' BY <2>1, <2>2 DEF Held, Shape
  <2> QED BY <2>1, <2>2, <2>3, StillHeld
<1>3. ASSUME NEW t \in Tabs, Detach(t) PROVE Held'
  <2>1. Detaches(t, coord[t]) /\ UNCHANGED <<engine, spawned>> BY <1>3 DEF Detach
  <2> QED BY <2>1, DetachesRecord, CoordMovesHeld DEF Held, Shape
<1>4. ASSUME NEW t \in Tabs, Destroy(t) PROVE Held'
  <2> DEFINE r == Retire(coord[t])
             d == [r EXCEPT !.destroying = TRUE]
  <2>1. UNCHANGED <<engine, spawned>> BY <1>4 DEF Destroy
  <2>2. CASE Detaches(t, coord[t])
    BY <2>1, <2>2, DetachesRecord, CoordMovesHeld DEF Held, Shape
  <2>3. CASE coord' = [coord EXCEPT ![t] = d]
    <3>1. CoordShape(r) /\ r.engine = coord[t].engine /\ r.lock = coord[t].lock
      BY RecordSteps DEF Held, Shape
    <3> HIDE DEF r
    <3>2. CoordShape(d) /\ d.engine = r.engine /\ d.lock = r.lock BY <3>1 DEF CoordShape
    <3> QED BY <2>1, <2>3, <3>1, <3>2, CoordMovesHeld
  <2> QED BY <1>4, <2>2, <2>3 DEF Destroy
<1>5. ASSUME NEW t \in Tabs, PageHide(t) PROVE Held'
  <2> DEFINE r == Retire(coord[t])
             d == [r EXCEPT !.suspended = TRUE]
  <2>1. UNCHANGED <<engine, spawned>> BY <1>5 DEF PageHide
  <2>2. coord' = [coord EXCEPT ![t] = d] BY <1>5 DEF PageHide
  <2>3. CoordShape(r) /\ r.engine = coord[t].engine /\ r.lock = coord[t].lock
    BY RecordSteps DEF Held, Shape
  <2> HIDE DEF r
  <2>4. CoordShape(d) /\ d.engine = r.engine /\ d.lock = r.lock BY <2>3 DEF CoordShape
  <2> QED BY <2>1, <2>2, <2>3, <2>4, CoordMovesHeld
<1>6. ASSUME NEW t \in Tabs, PageShow(t) PROVE Held'
  <2> DEFINE d == [coord[t] EXCEPT !.suspended = FALSE]
             q == Shown(coord[t])
  <2>1. UNCHANGED <<engine, spawned>> /\ coord' = [coord EXCEPT ![t] = q] BY <1>6 DEF PageShow
  <2>2. CoordShape(d) /\ d.engine = coord[t].engine /\ d.lock = coord[t].lock
    BY DEF Held, Shape, CoordShape
  <2>3. q = IF d.claims > 0 THEN QueueLock(d) ELSE d BY DEF Shown
  <2> HIDE DEF d, q
  <2>4. CoordShape(q) /\ q.engine = coord[t].engine /\ (q.lock = "granted" <=> coord[t].lock = "granted")
    BY <2>2, <2>3, RecordSteps
  <2> QED BY <2>1, <2>4, CoordMovesHeld
<1>7. ASSUME NEW t \in Tabs, Leave(t) PROVE Held'
  <2>1. Ended(coord[t].engine, "died") /\ spawned' = spawned /\ coord' = [coord EXCEPT ![t] = NewCoord]
    BY <1>7 DEF Leave
  <2>2. CoordShape(NewCoord) /\ NewCoord.lock # "granted"
    BY DEF CoordShape, NewCoord, Locks
  <2> QED BY <2>1, <2>2, CoordEndsHeld
<1> QED BY <1>1, <1>2, <1>3, <1>4, <1>5, <1>6, <1>7 DEF Outside

LEMMA EngineHeld == ASSUME Held, NEW e \in Engines, EngineStep(e) PROVE Held'
<1>1. CASE (\E t \in Tabs : EngineBoots(t)) \/ (\E c \in Calls : Run(c))
  BY <1>1, NothingMovesHeld DEF EngineBoots, Answers, Run
<1>2. CASE EngineReads(e)
  <2>1. UNCHANGED <<coord, spawned>> /\ engine[e].st = "live" BY <1>2 DEF EngineReads
  <2>2. \E x : engine' = [engine EXCEPT ![e] = x] /\ EngineShape(x) /\ x.st \in {"live", "retired"}
    <3>1. CASE \E g : engine' = [engine EXCEPT ![e].gen = g]
      <4>1. PICK g : engine' = [engine EXCEPT ![e].gen = g] BY <3>1
      <4> DEFINE x == [engine[e] EXCEPT !.gen = g]
      <4>2. engine' = [engine EXCEPT ![e] = x] BY <4>1
      <4>3. EngineShape(x) /\ x.st = "live" BY <2>1 DEF Held, Shape, EngineShape
      <4> QED BY <4>2, <4>3
    <3>2. CASE \E g : engine' = [engine EXCEPT ![e].piped = g]
      <4>1. PICK g : engine' = [engine EXCEPT ![e].piped = g] BY <3>2
      <4> DEFINE x == [engine[e] EXCEPT !.piped = g]
      <4>2. engine' = [engine EXCEPT ![e] = x] BY <4>1
      <4>3. EngineShape(x) /\ x.st = "live" BY <2>1 DEF Held, Shape, EngineShape
      <4> QED BY <4>2, <4>3
    <3>3. CASE engine' = [engine EXCEPT ![e] = Gone("retired")]
      <4>1. EngineShape(Gone("retired")) /\ Gone("retired").st = "retired"
        BY DEF EngineShape, Gone, States
      <4> QED BY <3>3, <4>1
    <3> QED BY <1>2, <3>1, <3>2, <3>3 DEF EngineReads
  <2>3. PICK x : engine' = [engine EXCEPT ![e] = x] /\ EngineShape(x) /\ x.st \in {"live", "retired"}
    BY <2>2
  <2>4. Shape' BY <2>1, <2>3 DEF Held, Shape
  <2>5. /\ \A y \in Engines : engine'[y].st = "live" => engine[y].st = "live"
        /\ \A y \in Engines : engine[y].st = "none" => engine'[y].st = "none"
    BY <2>1, <2>3 DEF Held, Shape
  <2> QED BY <2>1, <2>4, <2>5, StillHeld
<1> QED BY <1>1, <1>2 DEF EngineStep

\* A leader that respawns under its grant.
LEMMA LeaderRespawnsHeld ==
    ASSUME Held, NEW t \in Tabs, coord[t].lock = "granted", Respawns(t),
           coord' = [coord EXCEPT ![t].engine = spawned + 1, ![t].id = Unknown]
    PROVE  Held'
<1> DEFINE c1 == [coord[t] EXCEPT !.engine = spawned + 1]
           c2 == [c1 EXCEPT !.id = Unknown]
<1>1. coord' = [coord EXCEPT ![t] = c2] BY DEF Held, Shape
<1>2. spawned + 1 \in Engines BY PlacementAssumption DEF Respawns, Held, Shape, Engines
<1>3. CoordShape(c1) /\ c1.lock = "granted" /\ c1.engine = spawned + 1
  BY <1>2 DEF Held, Shape, CoordShape
<1> HIDE DEF c1
<1>4. CoordShape(c2) /\ c2.lock = "granted" /\ c2.engine = spawned + 1
  BY <1>3 DEF CoordShape
<1> HIDE DEF c2
<1>5. \A u \in Tabs \ {t} : coord[u].lock # "granted" BY DEF Held, OneHolder
<1> QED BY <1>1, <1>4, <1>5, CoordSet, RespawnHeld

LEMMA PageHeld == ASSUME Held, NEW t \in Tabs, PageStep(t) PROVE Held'
<1>1. CASE Attached(t) \/ QueueDeadline(t) \/ (\E c \in Calls : Answered(c))
  BY <1>1, NothingMovesHeld DEF Attached, QueueDeadline, Answered
<1>2. CASE Grant(t)
  <2> DEFINE c1 == [coord[t] EXCEPT !.lock = "granted"]
             c2 == [c1 EXCEPT !.engine = spawned + 1]
  <2>1. /\ Respawns(t) /\ \A u \in Tabs : coord[u].lock # "granted"
        /\ coord' = [coord EXCEPT ![t].lock = "granted", ![t].engine = spawned + 1]
    BY <1>2 DEF Grant, Holders
  <2>2. coord' = [coord EXCEPT ![t] = c2] BY <2>1 DEF Held, Shape
  <2>3. spawned + 1 \in Engines BY <2>1, PlacementAssumption DEF Respawns, Held, Shape, Engines
  <2>4. CoordShape(c1) /\ c1.lock = "granted" BY DEF Held, Shape, CoordShape, Locks
  <2> HIDE DEF c1
  <2>5. CoordShape(c2) /\ c2.lock = "granted" /\ c2.engine = spawned + 1
    BY <2>3, <2>4 DEF CoordShape
  <2> HIDE DEF c2
  <2> QED BY <2>1, <2>2, <2>5, CoordSet, RespawnHeld
<1>3. CASE TeardownTimeout(t)
  BY <1>3, FinishHeld DEF TeardownTimeout
<1>4. CASE EngineError(t)
  <2>1. CASE coord[t].lock = "granted"
    BY <1>4, <2>1, LeaderRespawnsHeld DEF EngineError
  <2>2. CASE coord[t].lock # "granted"
    BY <1>4, <2>2, NothingMovesHeld DEF EngineError
  <2> QED BY <2>1, <2>2
<1>5. CASE AttachFails(t)
  <2>1. UNCHANGED <<engine, spawned>> BY <1>5 DEF AttachFails
  <2>2. CASE UNCHANGED coord BY <2>1, <2>2, NothingMovesHeld
  <2>3. CASE Detaches(t, coord[t])
    BY <2>1, <2>3, DetachesRecord, CoordMovesHeld DEF Held, Shape
  <2> QED BY <1>5, <2>2, <2>3 DEF AttachFails
<1>6. CASE TabReads(t)
  <2> DEFINE m == Head(down[t])
  <2>1. CASE FinishRetirement(t, Tail(down[t])) BY <2>1, FinishHeld
  <2>2. CASE UNCHANGED <<coord, engine, spawned>> BY <2>2, NothingMovesHeld
  <2>3. CASE coord' = [coord EXCEPT ![t] = AddClaim(coord[t])] /\ UNCHANGED <<engine, spawned>>
    BY <2>3, RecordSteps, CoordMovesHeld DEF Held, Shape
  <2>4. CASE coord' = [coord EXCEPT ![t].id = m[2]] /\ UNCHANGED <<engine, spawned>>
    <3> DEFINE d == [coord[t] EXCEPT !.id = m[2]]
    <3>1. coord' = [coord EXCEPT ![t] = d] BY <2>4
    <3>2. CoordShape(d) /\ d.engine = coord[t].engine /\ d.lock = coord[t].lock
      BY DEF Held, Shape, CoordShape
    <3> QED BY <2>4, <3>1, <3>2, CoordMovesHeld
  <2>5. CASE OnEngineRetiring(t, m[2])
    <3>1. CASE coord[t].lock = "granted" /\ coord[t].id = m[2]
      BY <2>5, <3>1, LeaderRespawnsHeld DEF OnEngineRetiring
    <3>2. CASE ~(coord[t].lock = "granted" /\ coord[t].id = m[2])
      BY <2>5, <3>2, NothingMovesHeld DEF OnEngineRetiring
    <3> QED BY <3>1, <3>2
  <2> QED BY <1>6, <2>1, <2>2, <2>3, <2>4, <2>5 DEF TabReads, OnControlMessage
<1> QED BY <1>1, <1>2, <1>3, <1>4, <1>5, <1>6 DEF PageStep

LEMMA NextHeld == ASSUME Held, [Next]_vars PROVE Held'
<1>1. CASE UNCHANGED vars BY <1>1, NothingMovesHeld DEF vars
<1>2. CASE WorkerStep BY <1>2, NothingMovesHeld DEF WorkerStep, SharedWorkerReads, RouterHears
<1> QED BY <1>1, <1>2, OutsideHeld, EngineHeld, PageHeld DEF Next

\* A live engine belongs to the only holder of the lock, so there is one at most.
LEMMA HeldIsOne == Held => OneEngine
<1> SUFFICES ASSUME Held PROVE OneEngine OBVIOUS
<1> DEFINE live == {e \in Engines : engine[e].st = "live"}
<1>1. \A d, e \in live : d = e BY DEF Held, LiveIsHeld, OneHolder
<1>2. CASE live = {} BY <1>2, FS_EmptySet DEF OneEngine
<1>3. CASE live # {}
  <2>1. PICK e : live = {e} BY <1>1, <1>3
  <2>2. Cardinality({e}) = 1 BY FS_Singleton
  <2> QED BY <2>1, <2>2 DEF OneEngine
<1> QED BY <1>2, <1>3

(***************************************************************************)
(* At most one engine worker of a store is alive, however many pages       *)
(* compete, whatever order their messages arrive in, and however an engine *)
(* is respawned, retired, timed out or lost with its page.                 *)
(***************************************************************************)
THEOREM OneEngineTheorem == Spec => []OneEngine
<1>1. Held /\ [Next]_vars => Held' BY NextHeld
<1> QED BY <1>1, InitHeld, HeldIsOne, PTL DEF Spec

-----------------------------------------------------------------------------
(***************************************************************************)
(* What a caller is told.                                                  *)
(***************************************************************************)
CallShape == calls = [c \in Calls |-> calls[c]]
             /\ \A c \in Calls : calls[c] \in [st : {calls[c].st}, pipe : {calls[c].pipe}, ran : BOOLEAN]

\* A call that has not left its page, and a mutation that never will.
Unsent(c) == \/ calls[c].st \in {"new", "queued"}
             \/ calls[c].st = "not-dispatched" /\ Kind[c] = "mutation"

\* No engine has such a call on a pipe.
UnsentHasNoPipe == \A c \in Calls : Unsent(c) => calls[c].pipe = NoEngine /\ ~calls[c].ran

Honest == CallShape /\ UnsentHasNoPipe

LEMMA InitHonest == Init => Honest
  BY DEF Init, Honest, CallShape, UnsentHasNoPipe, Unsent

\* Calls move on by themselves: one that is unsent afterwards was so before, and
\* is as it was.
Onward ==
    /\ calls' = [c \in Calls |-> calls'[c]]
    /\ \A c \in Calls :
          /\ calls'[c] \in [st : {calls'[c].st}, pipe : {calls'[c].pipe}, ran : BOOLEAN]
          /\ Unsent(c)' => Unsent(c) /\ calls'[c].pipe = calls[c].pipe /\ calls'[c].ran = calls[c].ran

LEMMA OnwardHonest == ASSUME Honest, Onward PROVE Honest'
  BY DEF Honest, Onward, CallShape, UnsentHasNoPipe

LEMMA UnchangedOnward == ASSUME Honest, UNCHANGED calls PROVE Onward
  BY DEF Honest, Onward, CallShape, Unsent

\* A handoff tells the caller of a mutation in flight that its outcome is unknown.
LEMMA SettleOnward == ASSUME Honest, NEW t \in Tabs, calls' = SettleInFlight(t) PROVE Onward
<1>1. \A c \in Calls : /\ calls'[c].pipe = calls[c].pipe /\ calls'[c].ran = calls[c].ran
                       /\ calls'[c] \in [st : {calls'[c].st}, pipe : {calls'[c].pipe}, ran : BOOLEAN]
                       /\ Unsent(c)' => Unsent(c)
  BY PlacementAssumption DEF Honest, CallShape, SettleInFlight, CallsOf, InFlight, LostOutcome, Unsent
<1> QED BY <1>1 DEF Onward, SettleInFlight

LEMMA FlushOnward == ASSUME Honest, NEW t \in Tabs, calls' = FlushQueue(t) PROVE Onward
  BY DEF Honest, CallShape, Onward, FlushQueue, CallsOf, Unsent

\* detach and page loss settle every open call of the page.
LEMMA DetachedOnward ==
    ASSUME Honest, NEW t \in Tabs,
           calls' = [k \in Calls |-> IF k \in CallsOf(t, InFlight \cup {"queued"})
                                    THEN [calls[k] EXCEPT !.st = "detached"] ELSE calls[k]]
    PROVE  Onward
  BY DEF Honest, CallShape, Onward, CallsOf, InFlight, Unsent

\* One call changes its state.
LEMMA CallOnward ==
    ASSUME Honest, NEW c \in Calls, NEW s, calls' = [calls EXCEPT ![c].st = s],
           s \in {"new", "queued", "not-dispatched"} => calls[c].st \in {"new", "queued"}
    PROVE  Onward
<1> DEFINE d == [calls[c] EXCEPT !.st = s]
<1>1. calls' = [calls EXCEPT ![c] = d] OBVIOUS
<1>2. d.st = s /\ d.pipe = calls[c].pipe /\ d.ran = calls[c].ran
      /\ d \in [st : {d.st}, pipe : {d.pipe}, ran : BOOLEAN]
  BY DEF Honest, CallShape
<1> HIDE DEF d
<1> QED BY <1>1, <1>2 DEF Honest, CallShape, Onward, Unsent

LEMMA DispatchOnward ==
    ASSUME Honest, NEW c \in Calls, NEW p, calls' = [calls EXCEPT ![c].st = "sent", ![c].pipe = p]
    PROVE  Onward
<1> DEFINE d == [calls[c] EXCEPT !.st = "sent"]
           f == [d EXCEPT !.pipe = p]
<1>1. calls' = [calls EXCEPT ![c] = f] BY DEF Honest, CallShape
<1>2. d.st = "sent" /\ d \in [st : {d.st}, pipe : {d.pipe}, ran : BOOLEAN] BY DEF Honest, CallShape
<1> HIDE DEF d
<1>3. f.st = "sent" /\ f \in [st : {f.st}, pipe : {f.pipe}, ran : BOOLEAN] BY <1>2
<1> HIDE DEF f
<1> QED BY <1>1, <1>3 DEF Honest, CallShape, Onward, Unsent

\* An engine runs only what was put on one of its pipes.
LEMMA RunOnward == ASSUME Honest, NEW c \in Calls, Run(c) PROVE Onward
<1> DEFINE s == IF calls[c].st = "sent" THEN "answered" ELSE calls[c].st
           d == [calls[c] EXCEPT !.ran = TRUE]
           f == [d EXCEPT !.st = s]
<1>1. calls' = [calls EXCEPT ![c] = f] BY DEF Run, Honest, CallShape
<1>2. ~Unsent(c) BY DEF Run, Honest, UnsentHasNoPipe
<1>3. d.st = calls[c].st /\ d \in [st : {d.st}, pipe : {d.pipe}, ran : BOOLEAN] BY DEF Honest, CallShape
<1> HIDE DEF d
<1>4. f.st = s /\ f \in [st : {f.st}, pipe : {f.pipe}, ran : BOOLEAN] BY <1>3
<1> HIDE DEF f
<1> QED BY <1>1, <1>2, <1>4 DEF Honest, CallShape, Onward, Unsent

\* The messages a page reads.
LEMMA ReadsOnward == ASSUME Honest, NEW t \in Tabs, TabReads(t) PROVE Onward
<1> DEFINE m == Head(down[t])
<1>1. CASE UNCHANGED calls BY <1>1, UnchangedOnward
<1>2. CASE OpensWindow(t) BY <1>2, UnchangedOnward, SettleOnward DEF OpensWindow
<1>3. CASE OnConnectPort(t, m[2], m[3]) BY <1>3, UnchangedOnward, SettleOnward DEF OnConnectPort
<1>4. CASE FinishRetirement(t, Tail(down[t]))
  BY <1>4, UnchangedOnward, DetachedOnward DEF FinishRetirement, Detaches
<1>5. CASE OnEngineRetiring(t, m[2])
  BY <1>2, <1>5, UnchangedOnward DEF OnEngineRetiring
<1> QED BY <1>1, <1>2, <1>3, <1>4, <1>5 DEF TabReads, OnControlMessage

LEMMA NextHonest == ASSUME Honest, [Next]_vars PROVE Honest'
<1>1. CASE UNCHANGED calls BY <1>1, UnchangedOnward, OnwardHonest
<1>2. ASSUME NEW t \in Tabs, PageStep(t) PROVE Honest'
  <2>1. CASE Grant(t) \/ EngineError(t) BY <1>1, <2>1 DEF Grant, EngineError
  <2>2. CASE TabReads(t) BY <2>2, ReadsOnward, OnwardHonest
  <2>3. CASE TeardownTimeout(t)
    <3>1. CASE UNCHANGED calls BY <1>1, <3>1
    <3>2. CASE Detaches(t, Retired(coord[t])) BY <3>2, DetachedOnward, OnwardHonest DEF Detaches
    <3> QED BY <2>3, <3>1, <3>2 DEF TeardownTimeout, FinishRetirement
  <2>4. CASE Attached(t) BY <2>4, FlushOnward, OnwardHonest DEF Attached
  <2>5. CASE AttachFails(t)
    <3>1. CASE UNCHANGED calls BY <1>1, <3>1
    <3>2. CASE Detaches(t, coord[t]) BY <3>2, DetachedOnward, OnwardHonest DEF Detaches
    <3> QED BY <2>5, <3>1, <3>2 DEF AttachFails
  <2>6. CASE QueueDeadline(t)
    <3>1. Onward
      BY <2>6 DEF QueueDeadline, Honest, CallShape, Onward, CallsOf, Unsent
    <3> QED BY <3>1, OnwardHonest
  <2>7. ASSUME NEW c \in Calls, Answered(c) PROVE Honest'
    BY <2>7, CallOnward, OnwardHonest DEF Answered
  <2> QED BY <1>2, <2>1, <2>2, <2>3, <2>4, <2>5, <2>6, <2>7 DEF PageStep
<1>3. ASSUME NEW e \in Engines, EngineStep(e) PROVE Honest'
  BY <1>1, <1>3, RunOnward, OnwardHonest DEF EngineStep, EngineReads, EngineBoots, Answers
<1>4. CASE Outside
  <2>1. CASE ProbeVerdict \/ (\E e \in Engines : EngineDies(e))
             \/ (\E t \in Tabs : Attach(t) \/ PageHide(t) \/ PageShow(t) \/ BootFails(t))
    BY <1>1, <2>1 DEF ProbeVerdict, EngineDies, Attach, PageHide, PageShow, BootFails, Answers
  <2>2. ASSUME NEW t \in Tabs, Detach(t) PROVE Honest'
    BY <2>2, DetachedOnward, OnwardHonest DEF Detach, Detaches
  <2>3. ASSUME NEW t \in Tabs, Destroy(t) PROVE Honest'
    <3>1. CASE UNCHANGED calls BY <1>1, <3>1
    <3>2. CASE Detaches(t, coord[t]) BY <3>2, DetachedOnward, OnwardHonest DEF Detaches
    <3> QED BY <2>3, <3>1, <3>2 DEF Destroy
  <2>4. ASSUME NEW t \in Tabs, Leave(t) PROVE Honest'
    BY <2>4, DetachedOnward, OnwardHonest DEF Leave
  <2>5. ASSUME NEW c \in Calls, Call(c) PROVE Honest'
    <3>1. calls[c].st = "new" BY <2>5 DEF Call
    <3> QED BY <2>5, <3>1, DispatchOnward, CallOnward, OnwardHonest DEF Call
  <2> QED BY <1>4, <2>1, <2>2, <2>3, <2>4, <2>5 DEF Outside
<1>5. CASE WorkerStep BY <1>1, <1>5 DEF WorkerStep, SharedWorkerReads, RouterHears
<1> QED BY <1>1, <1>2, <1>3, <1>4, <1>5 DEF Next, vars

(***************************************************************************)
(* A mutation reported as not dispatched has not run: repeating it is safe,*)
(* also after the engine it was meant for has died, moved or timed out.    *)
(***************************************************************************)
THEOREM HonestTheorem == Spec => []OutcomeIsHonest
<1>1. Honest /\ [Next]_vars => Honest' BY NextHonest
<1>2. Honest => OutcomeIsHonest BY DEF Honest, UnsentHasNoPipe, Unsent, OutcomeIsHonest
<1> QED BY <1>1, <1>2, InitHonest, PTL DEF Spec
=============================================================================
