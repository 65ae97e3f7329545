-------------------------- MODULE GroupSyncProofs --------------------------
(***************************************************************************)
(* Proofs about GroupSync, for every set of shapes and every bound.        *)
(*                                                                         *)
(* A handler takes several steps on the group and its runs at once, so the *)
(* invariants are predicates of a group g and a sequence of runs r, and    *)
(* one lemma for each helper says that it keeps them.                      *)
(***************************************************************************)
EXTENDS GroupSync, TLAPS, SequenceTheorems

GroupRuntime ==
    [generation : Nat, start : Nat, latch : Nat, handle : Nat, session : Nat,
     ready : BOOLEAN, pending : SUBSET Shapes]

Typed(g, r) == g \in GroupRuntime /\ r \in Seq(Run)

Current(g, run) == run.pc # "done" /\ run.gen = g.generation
IsRestart(g, run) == run.kind = "restart" /\ Current(g, run)

\* No run is ahead of the group; the latch names the restart of its generation.
RestartInv(g, r) ==
    /\ Typed(g, r)
    /\ \A i \in DOMAIN r : r[i].gen <= g.generation
    /\ ~torn /\ g.latch # 0 => g.latch \in DOMAIN r /\ IsRestart(g, r[g.latch])
    /\ ~torn => \A i \in DOMAIN r : IsRestart(g, r[i]) => i = g.latch

Stores ==
    /\ grants \in SUBSET Shapes /\ rows \in SUBSET Shapes
    /\ cursor \in SUBSET Shapes /\ told \in SUBSET Shapes

\* The runs a group names are there.
Pointers(g, r) ==
    /\ g.start \in 0 .. Len(r) /\ g.latch \in 0 .. Len(r)
    /\ g.handle \in 0 .. Len(r) /\ g.session \in 0 .. Len(r)

Inv == RestartInv(group, runs) /\ Stores /\ Pointers(group, runs)

-----------------------------------------------------------------------------
(***************************************************************************)
(* The helpers.                                                            *)
(***************************************************************************)
LEMMA NewRunType ==
    ASSUME NEW g \in GroupRuntime, NEW kind \in {"start", "restart"},
           NEW pc \in {"backoff", "subscribe"}
    PROVE  LET n == NewRun(g, kind, pc) IN
           /\ n \in Run /\ n.kind = kind /\ n.pc = pc /\ n.gen = g.generation
           /\ n.engine = "none" /\ n.lease = "none" /\ n.mint = "idle" /\ n.ended = {}
  BY DEF NewRun, Run, GroupRuntime

LEMMA LatchType ==
    ASSUME NEW g \in GroupRuntime, NEW n \in Nat
    PROVE  LET h == [g EXCEPT !.latch = n, !.handle = 0, !.session = 0] IN
           /\ h \in GroupRuntime
           /\ h.generation = g.generation /\ h.latch = n /\ h.start = g.start
           /\ h.handle = 0 /\ h.session = 0
  BY DEF GroupRuntime

\* What two runs share when one is the other with its engine or session closed.
SameRun(t, u) ==
    /\ t.pc = u.pc /\ t.gen = u.gen /\ t.kind = u.kind /\ t.mint = u.mint
    /\ t.granted = u.granted

LEMMA UnsubscribeType ==
    ASSUME NEW run \in Run
    PROVE  LET t == Unsubscribe(run) IN
           /\ t \in Run /\ SameRun(t, run) /\ t.lease = run.lease /\ t.engine = "none"
  BY DEF Unsubscribe, Run, SameRun

LEMMA CloseSessionType ==
    ASSUME NEW run \in Run
    PROVE  LET t == [run EXCEPT !.lease = "none"] IN
           /\ t \in Run /\ SameRun(t, run) /\ t.lease = "none"
           /\ t.engine = run.engine /\ t.ended = run.ended /\ t.known = run.known
  BY DEF Run, SameRun

\* What taking the group's engine and session down leaves of each run.
TakenDown(g, i, t, u) ==
    /\ t \in Run /\ SameRun(t, u)
    /\ t.lease = IF i = g.session THEN "none" ELSE u.lease
    /\ t.engine = IF i = g.handle THEN "none" ELSE u.engine
    /\ i # g.handle => t.ended = u.ended /\ t.known = u.known

LEMMA TakeDownRuns ==
    ASSUME NEW g \in GroupRuntime, NEW r \in Seq(Run)
    PROVE  /\ TakeDown(g, r) \in Seq(Run)
           /\ Len(TakeDown(g, r)) = Len(r)
           /\ DOMAIN TakeDown(g, r) = DOMAIN r
           /\ \A i \in DOMAIN r : TakenDown(g, i, TakeDown(g, r)[i], r[i])
<1>1. DOMAIN r = 1 .. Len(r) /\ Len(r) \in Nat /\ \A i \in DOMAIN r : r[i] \in Run
  OBVIOUS
<1>2. ASSUME NEW i \in DOMAIN r
      PROVE  TakenDown(g, i, TakeDown(g, r)[i], r[i])
  <2> DEFINE u == IF i = g.handle THEN Unsubscribe(r[i]) ELSE r[i]
  <2>1. TakeDown(g, r)[i] = IF i = g.session THEN [u EXCEPT !.lease = "none"] ELSE u
    BY DEF TakeDown, CloseSession
  <2>2. /\ u \in Run /\ SameRun(u, r[i]) /\ u.lease = r[i].lease
        /\ u.engine = IF i = g.handle THEN "none" ELSE r[i].engine
        /\ i # g.handle => u.ended = r[i].ended /\ u.known = r[i].known
    BY <1>1, UnsubscribeType DEF SameRun
  <2> HIDE DEF u
  <2>3. CASE i = g.session
    BY <2>1, <2>2, <2>3, CloseSessionType DEF TakenDown, SameRun
  <2>4. CASE i # g.session
    BY <2>1, <2>2, <2>4 DEF TakenDown, SameRun
  <2> QED BY <2>3, <2>4
<1>3. TakeDown(g, r) = [i \in 1 .. Len(r) |-> TakeDown(g, r)[i]]
  BY <1>1 DEF TakeDown
<1>4. TakeDown(g, r) \in [1 .. Len(r) -> Run]
  BY <1>1, <1>2, <1>3 DEF TakenDown
<1>5. TakeDown(g, r) \in Seq(Run)
  BY <1>1, <1>4, IsASeq
<1>6. DOMAIN TakeDown(g, r) = 1 .. Len(r) /\ Len(TakeDown(g, r)) = Len(r)
  BY <1>1, <1>4, <1>5
<1> QED BY <1>1, <1>2, <1>5, <1>6

\* A run is added at the end.
LEMMA AppendRun ==
    ASSUME NEW r \in Seq(Run), NEW run \in Run
    PROVE  LET a == Append(r, run) IN
           /\ a \in Seq(Run) /\ DOMAIN a = DOMAIN r \cup {Len(r) + 1}
           /\ Len(a) = Len(r) + 1 /\ Len(r) + 1 \notin DOMAIN r
           /\ a[Len(r) + 1] = run /\ \A i \in DOMAIN r : a[i] = r[i]
  BY AppendProperties

\* One run is replaced.
LEMMA PutRun ==
    ASSUME NEW r \in Seq(Run), NEW i \in DOMAIN r, NEW run \in Run
    PROVE  LET p == [r EXCEPT ![i] = run] IN
           /\ p \in Seq(Run) /\ DOMAIN p = DOMAIN r /\ Len(p) = Len(r)
           /\ p[i] = run /\ \A j \in DOMAIN r : j # i => p[j] = r[j]
  BY ExceptSeq

-----------------------------------------------------------------------------
(***************************************************************************)
(* The latch, for every set of windows.                                    *)
(***************************************************************************)
LEMMA ScheduleKeepsRestart ==
    ASSUME NEW g, NEW r, RestartInv(g, r)
    PROVE  LET p == ScheduleRestart(g, r) IN RestartInv(p.group, p.runs)
<1>1. CASE torn \/ g.latch # 0
  BY <1>1 DEF ScheduleRestart, Pair
<1>2. CASE ~torn /\ g.latch = 0
  <2> DEFINE t == TakeDown(g, r)
             n == NewRun(g, "restart", "backoff")
             h == [g EXCEPT !.latch = Len(r) + 1, !.handle = 0, !.session = 0]
             q == Append(t, n)
  <2>1. ScheduleRestart(g, r) = Pair(h, q)
    BY <1>2 DEF ScheduleRestart
  <2>2. g \in GroupRuntime /\ r \in Seq(Run) /\ Len(r) \in Nat
    BY DEF RestartInv, Typed
  <2>3. /\ t \in Seq(Run) /\ Len(t) = Len(r) /\ DOMAIN t = DOMAIN r
        /\ \A i \in DOMAIN r : SameRun(t[i], r[i])
    BY <2>2, TakeDownRuns DEF TakenDown
  <2>4. n \in Run /\ n.kind = "restart" /\ n.pc = "backoff" /\ n.gen = g.generation
    BY <2>2, NewRunType
  <2>5. /\ h \in GroupRuntime /\ h.generation = g.generation /\ h.latch = Len(r) + 1
    <3>1. Len(r) + 1 \in Nat BY <2>2
    <3> QED BY <2>2, <3>1, LatchType
  <2>6. /\ q \in Seq(Run) /\ DOMAIN q = DOMAIN r \cup {Len(r) + 1}
        /\ q[Len(r) + 1] = n /\ \A i \in DOMAIN r : q[i] = t[i]
    BY <2>3, <2>4, AppendRun
  <2> HIDE DEF t, n, h, q
  <2>7. \A i \in DOMAIN r : ~IsRestart(g, r[i]) /\ r[i].gen <= g.generation
    BY <1>2, <2>2 DEF RestartInv
  <2>8. ASSUME NEW i \in DOMAIN q
        PROVE  q[i].gen <= h.generation /\ (IsRestart(h, q[i]) => i = Len(r) + 1)
    <3>1. CASE i = Len(r) + 1
      BY <2>2, <2>4, <2>5, <2>6, <3>1 DEF GroupRuntime
    <3>2. CASE i \in DOMAIN r
      BY <2>3, <2>5, <2>6, <2>7, <3>2 DEF IsRestart, Current, SameRun
    <3> QED BY <2>6, <3>1, <3>2
  <2>9. IsRestart(h, q[h.latch]) /\ h.latch \in DOMAIN q
    BY <2>4, <2>5, <2>6 DEF IsRestart, Current
  <2>10. RestartInv(h, q)
    BY <2>5, <2>6, <2>8, <2>9 DEF RestartInv, Typed
  <2> QED BY <2>1, <2>10 DEF Pair
<1> QED BY <1>1, <1>2

\* A run that goes on, or whose engine or session changes, in a group whose
\* generation and latch do not.
LEMMA UpdateKeepsRestart ==
    ASSUME NEW g, NEW r, RestartInv(g, r), NEW h \in GroupRuntime,
           h.generation = g.generation, h.latch = g.latch,
           NEW i \in DOMAIN r, NEW run \in Run,
           run.kind = r[i].kind, run.gen = r[i].gen, run.pc = "done" <=> r[i].pc = "done"
    PROVE  RestartInv(h, [r EXCEPT ![i] = run])
<1>1. r \in Seq(Run)
  BY DEF RestartInv, Typed
<1> DEFINE q == [r EXCEPT ![i] = run]
<1>2. /\ q \in Seq(Run) /\ DOMAIN q = DOMAIN r /\ q[i] = run
      /\ \A j \in DOMAIN r : j # i => q[j] = r[j]
  BY <1>1, PutRun
<1> HIDE DEF q
<1>3. \A j \in DOMAIN r : /\ IsRestart(h, q[j]) <=> IsRestart(g, r[j])
                          /\ q[j].gen = r[j].gen
  BY <1>2 DEF IsRestart, Current
<1>4. RestartInv(h, q)
  BY <1>1, <1>2, <1>3 DEF RestartInv, Typed
<1> QED BY <1>4 DEF q

\* A run that ends.
LEMMA ReturnKeepsRestart ==
    ASSUME NEW g, NEW r, RestartInv(g, r), NEW h \in GroupRuntime,
           NEW i \in DOMAIN r, NEW run \in Run, r[i].pc # "done",
           run.kind = r[i].kind, run.gen = r[i].gen, run.pc = "done",
           h.generation = g.generation, h.latch = Latch(g, r[i])
    PROVE  RestartInv(h, [r EXCEPT ![i] = run])
<1>1. r \in Seq(Run)
  BY DEF RestartInv, Typed
<1> DEFINE q == [r EXCEPT ![i] = run]
<1>2. /\ q \in Seq(Run) /\ DOMAIN q = DOMAIN r /\ q[i] = run
      /\ \A j \in DOMAIN r : j # i => q[j] = r[j]
  BY <1>1, PutRun
<1> HIDE DEF q
<1>3. \A j \in DOMAIN r : /\ IsRestart(h, q[j]) <=> (j # i /\ IsRestart(g, r[j]))
                          /\ q[j].gen = r[j].gen
  BY <1>2 DEF IsRestart, Current
<1>4. CASE IsRestart(g, r[i])
  <2>1. h.latch = 0 /\ (~torn => i = g.latch)
    BY <1>4 DEF Latch, IsRestart, Current, RestartInv
  <2> QED BY <1>1, <1>2, <1>3, <2>1 DEF RestartInv, Typed, q
<1>5. CASE ~IsRestart(g, r[i])
  <2>1. h.latch = g.latch
    BY <1>5 DEF Latch, IsRestart, Current
  <2> QED BY <1>1, <1>2, <1>3, <1>5, <2>1 DEF RestartInv, Typed, q
<1> QED BY <1>4, <1>5

\* A first start.
LEMMA AppendKeepsRestart ==
    ASSUME NEW g, NEW r, RestartInv(g, r), NEW h \in GroupRuntime, NEW run \in Run,
           h.generation = g.generation, h.latch = g.latch,
           run.kind = "start", run.gen = g.generation
    PROVE  RestartInv(h, Append(r, run))
<1>1. r \in Seq(Run) /\ g \in GroupRuntime /\ g.latch \in Nat /\ g.generation \in Nat
  BY DEF RestartInv, Typed, GroupRuntime
<1> DEFINE q == Append(r, run)
           n == Len(r) + 1
<1>2. /\ q \in Seq(Run) /\ DOMAIN q = DOMAIN r \cup {n} /\ q[n] = run
      /\ \A i \in DOMAIN r : q[i] = r[i]
  BY <1>1, AppendRun
<1> HIDE DEF q, n
<1>3. ASSUME NEW i \in DOMAIN q
      PROVE  /\ q[i].gen <= h.generation
             /\ IsRestart(h, q[i]) => i \in DOMAIN r /\ IsRestart(g, r[i])
  <2>1. CASE i = n
    BY <1>1, <1>2, <2>1 DEF IsRestart
  <2>2. CASE i \in DOMAIN r
    BY <1>2, <2>2 DEF IsRestart, Current, RestartInv
  <2> QED BY <1>2, <2>1, <2>2
<1>4. ~torn /\ h.latch # 0 => h.latch \in DOMAIN q /\ IsRestart(h, q[h.latch])
  BY <1>2 DEF RestartInv, IsRestart, Current
<1>5. RestartInv(h, q)
  BY <1>2, <1>3, <1>4 DEF RestartInv, Typed
<1> QED BY <1>5 DEF q

\* stopGroup and the teardown: the generation of every run is over.
LEMMA StopEndsRuns ==
    ASSUME NEW g, NEW r, RestartInv(g, r), NEW h \in GroupRuntime,
           h.generation = g.generation + 1
    PROVE  /\ Typed(h, TakeDown(g, r))
           /\ \A i \in DOMAIN TakeDown(g, r) :
                 /\ TakeDown(g, r)[i].gen <= h.generation
                 /\ TakeDown(g, r)[i].gen # h.generation
<1>1. r \in Seq(Run) /\ g \in GroupRuntime /\ g.generation \in Nat
  BY DEF RestartInv, Typed, GroupRuntime
<1> DEFINE q == TakeDown(g, r)
<1>2. q \in Seq(Run) /\ DOMAIN q = DOMAIN r /\ \A i \in DOMAIN r : SameRun(q[i], r[i])
  BY <1>1, TakeDownRuns DEF TakenDown
<1> HIDE DEF q
<1>3. \A i \in DOMAIN r : r[i] \in Run
  BY <1>1
<1>4. \A i \in DOMAIN q : q[i].gen <= g.generation /\ q[i].gen \in Nat
  BY <1>2, <1>3 DEF SameRun, RestartInv, Run
<1>5. \A i \in DOMAIN q : q[i].gen <= h.generation /\ q[i].gen # h.generation
  BY <1>1, <1>4
<1> QED BY <1>2, <1>5 DEF Typed, q

-----------------------------------------------------------------------------
(***************************************************************************)
(* The steps of the group.                                                 *)
(***************************************************************************)
LEMMA LatchIsNat ==
    ASSUME NEW g \in GroupRuntime, NEW run
    PROVE  Latch(g, run) \in Nat
  BY DEF Latch, GroupRuntime

\* The updates of the group's record, field by field.
LEMMA GroupUpdates ==
    ASSUME NEW g \in GroupRuntime, NEW n \in Nat, NEW m \in Nat, NEW P \in SUBSET Shapes
    PROVE  /\ [g EXCEPT !.start = n] \in GroupRuntime
           /\ [g EXCEPT !.session = n] \in GroupRuntime
           /\ [g EXCEPT !.latch = n] \in GroupRuntime
           /\ [g EXCEPT !.pending = P] \in GroupRuntime
           /\ [g EXCEPT !.pending = P, !.ready = TRUE, !.latch = n] \in GroupRuntime
           /\ [g EXCEPT !.handle = m, !.latch = n] \in GroupRuntime
           /\ [g EXCEPT !.generation = n] \in GroupRuntime
<1>1. [g EXCEPT !.start = n] \in GroupRuntime BY DEF GroupRuntime
<1>2. [g EXCEPT !.session = n] \in GroupRuntime BY DEF GroupRuntime
<1>3. [g EXCEPT !.latch = n] \in GroupRuntime BY DEF GroupRuntime
<1>4. [g EXCEPT !.pending = P] \in GroupRuntime BY DEF GroupRuntime
<1>5. [g EXCEPT !.pending = P, !.ready = TRUE, !.latch = n] \in GroupRuntime
  BY DEF GroupRuntime
<1>6. [g EXCEPT !.handle = m, !.latch = n] \in GroupRuntime BY DEF GroupRuntime
<1>7. [g EXCEPT !.generation = n] \in GroupRuntime BY DEF GroupRuntime
<1> QED BY <1>1, <1>2, <1>3, <1>4, <1>5, <1>6, <1>7

LEMMA GroupReady ==
    ASSUME NEW g \in GroupRuntime, NEW b \in BOOLEAN
    PROVE  [g EXCEPT !.ready = g.ready \/ b] \in GroupRuntime
  BY DEF GroupRuntime

\* The parts of Inv a step starts from.
LEMMA Parts ==
    ASSUME Inv
    PROVE  /\ group \in GroupRuntime /\ runs \in Seq(Run)
           /\ Len(runs) \in Nat /\ Len(runs) + 1 \in Nat
           /\ DOMAIN runs = 1 .. Len(runs)
           /\ \A i \in DOMAIN runs : i \in Nat /\ runs[i] \in Run
  BY DEF Inv, RestartInv, Typed

\* The updates of a run's record.
Same(t, u) == t \in Run /\ t.kind = u.kind /\ t.gen = u.gen

LEMMA RunWakes ==
    ASSUME NEW run \in Run
    PROVE  LET t == [run EXCEPT !.pc = "subscribe"] IN Same(t, run) /\ t.pc = "subscribe"
  BY DEF Run, Same

LEMMA RunOpens ==
    ASSUME NEW run \in Run, NEW A \in SUBSET Shapes
    PROVE  LET t == [run EXCEPT !.pc = "opening", !.engine = "live", !.known = A]
           IN  Same(t, run) /\ t.pc = "opening"
  BY DEF Run, Same

LEMMA RunReturns ==
    ASSUME NEW run \in Run
    PROVE  /\ LET t == [run EXCEPT !.pc = "done"] IN Same(t, run) /\ t.pc = "done"
           /\ LET t == [run EXCEPT !.pc = "done", !.known = {}] IN Same(t, run) /\ t.pc = "done"
           /\ LET t == [Unsubscribe(run) EXCEPT !.pc = "done"] IN Same(t, run) /\ t.pc = "done"
           /\ LET t == [Unsubscribe(run) EXCEPT !.pc = "done", !.lease = "none"]
              IN  Same(t, run) /\ t.pc = "done"
<1>1. LET t == [run EXCEPT !.pc = "done"] IN Same(t, run) /\ t.pc = "done"
  BY DEF Run, Same
<1>2. LET t == [run EXCEPT !.pc = "done", !.known = {}] IN Same(t, run) /\ t.pc = "done"
  BY DEF Run, Same
<1>3. Unsubscribe(run) \in Run /\ SameRun(Unsubscribe(run), run)
  BY UnsubscribeType
<1>4. LET t == [Unsubscribe(run) EXCEPT !.pc = "done"] IN Same(t, run) /\ t.pc = "done"
  BY <1>3 DEF Run, Same, SameRun
<1>5. LET t == [Unsubscribe(run) EXCEPT !.pc = "done", !.lease = "none"]
      IN  Same(t, run) /\ t.pc = "done"
  BY <1>3 DEF Run, Same, SameRun
<1> QED BY <1>1, <1>2, <1>4, <1>5

LEMMA RunWorks ==
    ASSUME NEW run \in Run, NEW A \in SUBSET Shapes, NEW m \in {"idle", "posted"}
    PROVE  /\ LET t == [run EXCEPT !.answered = A] IN Same(t, run) /\ t.pc = run.pc
           /\ LET t == [run EXCEPT !.ended = A] IN Same(t, run) /\ t.pc = run.pc
           /\ LET t == [run EXCEPT !.mint = m] IN Same(t, run) /\ t.pc = run.pc
           /\ LET t == [run EXCEPT !.mint = m, !.token = A] IN Same(t, run) /\ t.pc = run.pc
           /\ LET t == [run EXCEPT !.known = A, !.engine = "synced"]
              IN  Same(t, run) /\ t.pc = run.pc
<1>1. LET t == [run EXCEPT !.answered = A] IN Same(t, run) /\ t.pc = run.pc
  BY DEF Run, Same
<1>2. LET t == [run EXCEPT !.ended = A] IN Same(t, run) /\ t.pc = run.pc
  BY DEF Run, Same
<1>3. LET t == [run EXCEPT !.mint = m] IN Same(t, run) /\ t.pc = run.pc
  BY DEF Run, Same
<1>4. LET t == [run EXCEPT !.mint = m, !.token = A] IN Same(t, run) /\ t.pc = run.pc
  BY DEF Run, Same
<1>5. LET t == [run EXCEPT !.known = A, !.engine = "synced"] IN Same(t, run) /\ t.pc = run.pc
  BY DEF Run, Same
<1> QED BY <1>1, <1>2, <1>3, <1>4, <1>5

-----------------------------------------------------------------------------
(***************************************************************************)
(* Every step keeps the latch's invariant.                                 *)
(***************************************************************************)
LEMMA StoresStep ==
    ASSUME Inv, [Next]_vars
    PROVE  Stores'
<1> USE DEF Stores
<1>1. runs \in Seq(Run) /\ \A i \in DOMAIN runs : runs[i] \in Run
  BY Parts
<1>2. \A i \in DOMAIN runs : runs[i].granted \in SUBSET Shapes /\ runs[i].known \in SUBSET Shapes
  BY <1>1 DEF Run
<1>3. group.pending \in SUBSET Shapes
  BY Parts DEF GroupRuntime
<1>4. ASSUME NEW i \in DOMAIN runs, ClearRows(i)
      PROVE  /\ rows' \in SUBSET Shapes /\ cursor' \in SUBSET Shapes /\ grants' = grants
             /\ Announced(i) \in SUBSET Shapes
  BY <1>2, <1>3, <1>4 DEF ClearRows, Stale, Announced, Inv
<1>5. ASSUME NEW i \in DOMAIN runs, Open(i) \/ Commit(i)
      PROVE  Stores'
  BY <1>2, <1>4, <1>5
     DEF Open, Wake, Subscribe, SubscribeAbandoned, ClearAbandoned, ClearNothingGranted,
         ClearAndOpen, StreamAnswers, Opened, Commit, Inv
<1>6. ASSUME NEW i \in DOMAIN runs,
             \/ OpenFails(i) \/ Mint(i) \/ MintAnswered(i) \/ MintFails(i)
             \/ \E s \in Shapes : StreamEnds(i, s)
      PROVE  Stores'
  BY <1>6 DEF OpenFails, Mint, MintAnswered, MintFails, StreamEnds, Inv
<1>7. CASE Desync \/ DesyncForgets \/ DesyncTruncates
  BY <1>7 DEF Desync, DesyncForgets, DesyncTruncates, CursorReset, Inv
<1>8. CASE EnsureGroupStarted \/ TearDown \/ GrantsChange \/ UNCHANGED vars
  BY <1>8 DEF EnsureGroupStarted, TearDown, GrantsChange, vars, Inv
<1> QED BY <1>5, <1>6, <1>7, <1>8 DEF Next, Progress

\* What openGroup does to the run i: it ends as `t`, or goes on as `t`.
Ends(i, h, t) ==
    /\ group' = h /\ h \in GroupRuntime /\ runs' = [runs EXCEPT ![i] = t]
    /\ Same(t, runs[i]) /\ runs[i].pc # "done" /\ t.pc = "done"
    /\ h.generation = group.generation /\ h.latch = Latch(group, runs[i])

GoesOn(i, h, t) ==
    /\ group' = h /\ h \in GroupRuntime /\ runs' = [runs EXCEPT ![i] = t]
    /\ Same(t, runs[i]) /\ (t.pc = "done" <=> runs[i].pc = "done")
    /\ h.generation = group.generation /\ h.latch = group.latch

LEMMA EndsOrGoesOn ==
    ASSUME Inv, NEW i \in DOMAIN runs, NEW h, NEW t, Ends(i, h, t) \/ GoesOn(i, h, t)
    PROVE  RestartInv(group', runs')
<1>1. t \in Run /\ t.kind = runs[i].kind /\ t.gen = runs[i].gen
  BY DEF Ends, GoesOn, Same
<1>2. CASE Ends(i, h, t)
  BY <1>1, <1>2, ReturnKeepsRestart DEF Inv, Ends
<1>3. CASE GoesOn(i, h, t)
  BY <1>1, <1>3, UpdateKeepsRestart DEF Inv, GoesOn
<1> QED BY <1>2, <1>3

LEMMA ReturnEnds ==
    ASSUME Inv, NEW i \in DOMAIN runs, NEW t, Return(i, t),
           Same(t, runs[i]), runs[i].pc # "done", t.pc = "done"
    PROVE  \E h : Ends(i, h, t)
<1> DEFINE h == [group EXCEPT !.latch = Latch(group, t)]
<1>1. Latch(group, t) = Latch(group, runs[i])
  BY DEF Latch, Same
<1>2. h \in GroupRuntime /\ h.generation = group.generation /\ h.latch = Latch(group, t)
  <2>1. group \in GroupRuntime /\ Latch(group, t) \in Nat
    BY Parts, LatchIsNat
  <2> QED BY <2>1, GroupUpdates DEF GroupRuntime
<1> HIDE DEF h
<1>3. Ends(i, h, t)
  BY <1>1, <1>2 DEF Ends, Return, h
<1> QED BY <1>3

LEMMA OpenStep ==
    ASSUME Inv, NEW i \in DOMAIN runs, Open(i)
    PROVE  RestartInv(group', runs')
<1>1. /\ group \in GroupRuntime /\ runs[i] \in Run /\ i \in Nat /\ grants \in SUBSET Shapes
      /\ cursor \in SUBSET Shapes
  BY Parts DEF Inv, Stores
<1>2. runs[i].granted \in SUBSET Shapes /\ runs[i].answered \in SUBSET Shapes
  BY <1>1 DEF Run
<1>3. SUFFICES \E h, t : Ends(i, h, t) \/ GoesOn(i, h, t)
  BY EndsOrGoesOn
<1>4. CASE Wake(i)
  <2>1. CASE Abandoned(i)
    BY <1>1, <1>4, <2>1, ReturnEnds, RunReturns DEF Wake, At
  <2>2. CASE ~Abandoned(i)
    <3> DEFINE t == [runs[i] EXCEPT !.pc = "subscribe"]
    <3>1. Same(t, runs[i]) /\ t.pc = "subscribe" /\ runs' = [runs EXCEPT ![i] = t]
      BY <1>1, <1>4, <2>2, RunWakes DEF Wake
    <3> HIDE DEF t
    <3>2. GoesOn(i, group, t)
      BY <1>1, <1>4, <2>2, <3>1 DEF GoesOn, Wake, At
    <3> QED BY <3>2
  <2> QED BY <2>1, <2>2
<1>5. CASE Subscribe(i)
  <2> DEFINE l == IF grants = {} THEN "none" ELSE "held"
             t == [runs[i] EXCEPT !.pc = "clear", !.granted = grants, !.token = grants,
                                  !.known = cursor, !.lease = l]
             h == [group EXCEPT !.session = i]
  <2>1. Same(t, runs[i]) /\ t.pc = "clear"
    <3>1. l \in {"none", "held"}
      OBVIOUS
    <3> HIDE DEF l
    <3> QED BY <1>1, <3>1 DEF Run, Same
  <2>2. h \in GroupRuntime /\ h.generation = group.generation /\ h.latch = group.latch
    BY <1>1, GroupUpdates DEF GroupRuntime
  <2>3. group' = h /\ runs' = [runs EXCEPT ![i] = t] /\ runs[i].pc = "subscribe"
    BY <1>5 DEF Subscribe, At
  <2> HIDE DEF t, h
  <2>4. GoesOn(i, h, t)
    BY <2>1, <2>2, <2>3 DEF GoesOn
  <2> QED BY <2>4
<1>6. CASE SubscribeAbandoned(i)
  BY <1>1, <1>6, ReturnEnds, RunReturns DEF SubscribeAbandoned, At
<1>7. CASE ClearAbandoned(i)
  BY <1>1, <1>7, ReturnEnds, RunReturns DEF ClearAbandoned, ClearRows, At
<1>8. CASE ClearNothingGranted(i)
  <2> DEFINE t == [runs[i] EXCEPT !.pc = "done", !.known = {}]
             h == [group EXCEPT !.pending = {}, !.ready = TRUE, !.latch = Latch(group, runs[i])]
  <2>1. Same(t, runs[i]) /\ t.pc = "done"
    BY <1>1, RunReturns
  <2>2. Latch(group, runs[i]) \in Nat /\ {} \in SUBSET Shapes
    BY <1>1, LatchIsNat
  <2>3. h \in GroupRuntime
    BY <1>1, <2>2, GroupUpdates
  <2>4. h.generation = group.generation /\ h.latch = Latch(group, runs[i])
    BY <1>1 DEF GroupRuntime
  <2>5. group' = h /\ runs' = [runs EXCEPT ![i] = t] /\ runs[i].pc = "clear"
    BY <1>8 DEF ClearNothingGranted, ClearRows, At
  <2> HIDE DEF t, h
  <2>6. Ends(i, h, t)
    BY <2>1, <2>3, <2>4, <2>5 DEF Ends
  <2> QED BY <2>6
<1>9. CASE ClearAndOpen(i)
  <2> DEFINE k == cursor' \cap runs[i].granted
             t == [runs[i] EXCEPT !.pc = "opening", !.engine = "live", !.known = k]
             h == [group EXCEPT !.pending = {}]
  <2>1. k \in SUBSET Shapes
    BY <1>2
  <2>2. Same(t, runs[i]) /\ t.pc = "opening"
    BY <1>1, <2>1, RunOpens
  <2>3. h \in GroupRuntime /\ h.generation = group.generation /\ h.latch = group.latch
    BY <1>1, GroupUpdates DEF GroupRuntime
  <2>4. group' = h /\ runs' = [runs EXCEPT ![i] = t] /\ runs[i].pc = "clear"
    BY <1>9 DEF ClearAndOpen, ClearRows, At
  <2> HIDE DEF t, h
  <2>5. GoesOn(i, h, t)
    BY <2>2, <2>3, <2>4 DEF GoesOn
  <2> QED BY <2>5
<1>10. ASSUME NEW s \in Shapes, StreamAnswers(i, s)
       PROVE  \E h, t : GoesOn(i, h, t)
  <2> DEFINE a == runs[i].answered \cup {s}
             t == [runs[i] EXCEPT !.answered = a]
  <2>1. a \in SUBSET Shapes
    BY <1>2
  <2>2. Same(t, runs[i]) /\ t.pc = runs[i].pc
    BY <1>1, <2>1, RunWorks
  <2>3. group' = group /\ runs' = [runs EXCEPT ![i] = t]
    BY <1>10 DEF StreamAnswers
  <2> HIDE DEF t
  <2>4. GoesOn(i, group, t)
    BY <1>1, <2>2, <2>3 DEF GoesOn
  <2> QED BY <2>4
<1>11. CASE Opened(i)
  <2>1. CASE Abandoned(i)
    BY <1>1, <1>11, <2>1, ReturnEnds, RunReturns DEF Opened, At
  <2>2. CASE ~Abandoned(i)
    <3> DEFINE t == [runs[i] EXCEPT !.pc = "done"]
               h == [group EXCEPT !.handle = i, !.latch = Latch(group, runs[i])]
    <3>1. Same(t, runs[i]) /\ t.pc = "done"
      BY <1>1, RunReturns
    <3>2. Latch(group, runs[i]) \in Nat
      BY <1>1, LatchIsNat
    <3>3. h \in GroupRuntime
      BY <1>1, <3>2, GroupUpdates
    <3>4. h.generation = group.generation /\ h.latch = Latch(group, runs[i])
      BY <1>1 DEF GroupRuntime
    <3>5. group' = h /\ runs' = [runs EXCEPT ![i] = t] /\ runs[i].pc = "opening"
      BY <1>11, <2>2 DEF Opened, At
    <3> HIDE DEF t, h
    <3>6. Ends(i, h, t)
      BY <3>1, <3>3, <3>4, <3>5 DEF Ends
    <3> QED BY <3>6
  <2> QED BY <2>1, <2>2
<1> QED BY <1>4, <1>5, <1>6, <1>7, <1>8, <1>9, <1>10, <1>11 DEF Open

\* Mint, MintFails and Commit touch neither the generation nor the latch.
LEMMA WorkStep ==
    ASSUME Inv, NEW i \in DOMAIN runs, Mint(i) \/ MintFails(i) \/ Commit(i)
    PROVE  RestartInv(group', runs')
<1>1. group \in GroupRuntime /\ runs[i] \in Run
  BY Parts
<1>2. SUFFICES \E h, t : GoesOn(i, h, t)
  BY EndsOrGoesOn
<1>3. ASSUME NEW m \in {"idle", "posted"}, group' = group,
             runs' = [runs EXCEPT ![i] = [runs[i] EXCEPT !.mint = m]]
      PROVE  \E h, t : GoesOn(i, h, t)
  <2> DEFINE t == [runs[i] EXCEPT !.mint = m]
  <2>1. Same(t, runs[i]) /\ t.pc = runs[i].pc
    BY <1>1 DEF Run, Same
  <2> HIDE DEF t
  <2>2. GoesOn(i, group, t)
    BY <1>1, <1>3, <2>1 DEF GoesOn, t
  <2> QED BY <2>2
<1>4. CASE Mint(i)
  BY <1>3, <1>4 DEF Mint
<1>5. CASE MintFails(i)
  BY <1>3, <1>5 DEF MintFails
<1>6. CASE Commit(i)
  <2> DEFINE b == runs[i].engine = "live"
             t == [runs[i] EXCEPT !.known = runs[i].granted, !.engine = "synced"]
             h == [group EXCEPT !.ready = group.ready \/ b]
  <2>1. Same(t, runs[i]) /\ t.pc = runs[i].pc
    BY <1>1 DEF Run, Same
  <2>2. h \in GroupRuntime
    BY <1>1, GroupReady
  <2>3. h.generation = group.generation /\ h.latch = group.latch
    BY <1>1 DEF GroupRuntime
  <2>4. group' = h /\ runs' = [runs EXCEPT ![i] = t]
    BY <1>6 DEF Commit
  <2> HIDE DEF t, h
  <2>5. GoesOn(i, h, t)
    BY <2>1, <2>2, <2>3, <2>4 DEF GoesOn
  <2> QED BY <2>5
<1> QED BY <1>4, <1>5, <1>6

\* A handler that changes one run and then asks for a restart.
LEMMA AskForRestart ==
    ASSUME NEW g, NEW r, RestartInv(g, r), Become(ScheduleRestart(g, r))
    PROVE  RestartInv(group', runs')
  BY ScheduleKeepsRestart DEF Become

LEMMA StreamEndsStep ==
    ASSUME Inv, NEW i \in DOMAIN runs, NEW s \in Shapes, StreamEnds(i, s)
    PROVE  RestartInv(group', runs')
<1> DEFINE t == [runs[i] EXCEPT !.ended = runs[i].ended \cup {s}]
<1>1. group \in GroupRuntime /\ runs[i] \in Run
  BY Parts
<1>2. Same(t, runs[i]) /\ t.pc = runs[i].pc
  BY <1>1 DEF Run, Same
<1>3. Become(ScheduleRestart(group, [runs EXCEPT ![i] = t]))
  BY DEF StreamEnds
<1> HIDE DEF t
<1>4. RestartInv(group, [runs EXCEPT ![i] = t])
  BY <1>1, <1>2, UpdateKeepsRestart DEF Inv, Same
<1> QED BY <1>3, <1>4, AskForRestart

LEMMA MintAnsweredStep ==
    ASSUME Inv, NEW i \in DOMAIN runs, MintAnswered(i)
    PROVE  RestartInv(group', runs')
<1> DEFINE revoked == runs[i].token \ grants
           t == [runs[i] EXCEPT !.mint = "idle", !.token = runs[i].token \cap grants]
           h == [group EXCEPT !.pending = group.pending \cup revoked]
<1>1. group \in GroupRuntime /\ runs[i] \in Run
  BY Parts
<1>2. runs[i].token \in SUBSET Shapes /\ group.pending \in SUBSET Shapes
  BY <1>1 DEF Run, GroupRuntime
<1>3. Same(t, runs[i]) /\ t.pc = runs[i].pc
  BY <1>1, <1>2 DEF Run, Same
<1>4. h \in GroupRuntime /\ h.generation = group.generation /\ h.latch = group.latch
  <2>1. group.pending \cup revoked \in SUBSET Shapes
    BY <1>2
  <2> HIDE DEF revoked
  <2> QED BY <1>1, <2>1 DEF GroupRuntime
<1>5. \/ group' = group /\ runs' = [runs EXCEPT ![i] = t]
      \/ Become(ScheduleRestart(h, [runs EXCEPT ![i] = t]))
  <2>1. IF revoked = {} THEN group' = group /\ runs' = [runs EXCEPT ![i] = t]
        ELSE Become(ScheduleRestart(h, [runs EXCEPT ![i] = t]))
    BY DEF MintAnswered
  <2> HIDE DEF revoked, t, h
  <2> QED BY <2>1
<1> HIDE DEF t, h
<1>6. RestartInv(group, [runs EXCEPT ![i] = t]) /\ RestartInv(h, [runs EXCEPT ![i] = t])
  BY <1>1, <1>3, <1>4, UpdateKeepsRestart DEF Inv, Same
<1> QED BY <1>5, <1>6, AskForRestart

LEMMA OpenFailsStep ==
    ASSUME Inv, NEW i \in DOMAIN runs, OpenFails(i)
    PROVE  RestartInv(group', runs')
<1> DEFINE t == [Unsubscribe(runs[i]) EXCEPT !.pc = "done"]
           q == [runs EXCEPT ![i] = t]
           h == [group EXCEPT !.latch = Latch(group, runs[i])]
<1>1. group \in GroupRuntime /\ runs[i] \in Run /\ runs[i].pc # "done"
  BY Parts DEF OpenFails, At
<1>2. Same(t, runs[i]) /\ t.pc = "done"
  BY <1>1, RunReturns
<1>3. h \in GroupRuntime /\ h.generation = group.generation /\ h.latch = Latch(group, runs[i])
  <2>1. Latch(group, runs[i]) \in Nat
    BY <1>1, LatchIsNat
  <2> QED BY <1>1, <2>1 DEF GroupRuntime
<1>4. \/ runs[i].kind = "restart" /\ Become(RestartFailed(group, q, runs[i]))
      \/ runs[i].kind # "restart" /\ Become(StartFailed(group, q))
  BY DEF OpenFails
<1> HIDE DEF t, h
<1>5. RestartInv(h, q)
  <2>1. RestartInv(group, runs)
    BY DEF Inv
  <2>2. t \in Run /\ t.kind = runs[i].kind /\ t.gen = runs[i].gen
    BY <1>2 DEF Same
  <2> QED BY <1>1, <1>2, <1>3, <2>1, <2>2, ReturnKeepsRestart
<1>6. CASE runs[i].kind = "restart"
  <2>1. Become(ScheduleRestart(h, q)) \/ Become(Pair(h, q))
    BY <1>4, <1>6 DEF RestartFailed, h
  <2> QED BY <1>5, <2>1, AskForRestart DEF Become, Pair
<1>7. CASE runs[i].kind # "restart"
  <2>1. Latch(group, runs[i]) = group.latch
    BY <1>7 DEF Latch
  <2>2. h = group
    BY <1>1, <2>1 DEF h, GroupRuntime
  <2> QED BY <1>4, <1>5, <1>7, <2>2, AskForRestart DEF StartFailed
<1> QED BY <1>6, <1>7

LEMMA StartStep ==
    ASSUME Inv, EnsureGroupStarted
    PROVE  RestartInv(group', runs')
<1> DEFINE n == NewRun(group, "start", "subscribe")
           h == [group EXCEPT !.start = Len(runs) + 1]
<1>1. group \in GroupRuntime /\ runs \in Seq(Run) /\ Len(runs) + 1 \in Nat
  BY Parts
<1>2. n \in Run /\ n.kind = "start" /\ n.gen = group.generation
  BY <1>1, NewRunType
<1>3. h \in GroupRuntime
  BY <1>1, GroupUpdates
<1>4. h.generation = group.generation /\ h.latch = group.latch
  BY <1>1 DEF GroupRuntime
<1>5. group' = h /\ runs' = Append(runs, n)
  BY DEF EnsureGroupStarted
<1> HIDE DEF n, h
<1> QED BY <1>2, <1>3, <1>4, <1>5, AppendKeepsRestart DEF Inv

LEMMA StopStep ==
    ASSUME Inv, Desync \/ TearDown
    PROVE  RestartInv(group, runs)'
<1>1. group \in GroupRuntime /\ runs \in Seq(Run) /\ group.generation \in Nat
  BY Parts DEF GroupRuntime
<1>2. CASE Desync
  <2> DEFINE h == Stopped(group)
  <2>1. h \in GroupRuntime /\ h.generation = group.generation + 1 /\ h.latch = 0
    BY <1>1 DEF GroupRuntime, Stopped
  <2>2. group' = h /\ runs' = TakeDown(group, runs) /\ torn' = torn
    BY <1>2 DEF Desync, Become, Pair
  <2> HIDE DEF h
  <2> QED BY <2>1, <2>2, StopEndsRuns DEF Inv, RestartInv, IsRestart, Current
<1>3. CASE TearDown
  <2> DEFINE m == group.generation + 1
             h == [group EXCEPT !.generation = m]
  <2>1. h \in GroupRuntime
    <3>1. m \in Nat
      BY <1>1
    <3> HIDE DEF m
    <3> QED BY <1>1, <3>1, GroupUpdates
  <2>2. h.generation = group.generation + 1
    BY <1>1 DEF GroupRuntime
  <2>3. group' = h /\ runs' = TakeDown(group, runs) /\ torn' = TRUE
    BY <1>3 DEF TearDown
  <2> HIDE DEF h
  <2> QED BY <2>1, <2>2, <2>3, StopEndsRuns DEF Inv, RestartInv
<1> QED BY <1>2, <1>3

LEMMA SchedulePointers ==
    ASSUME NEW g, NEW r, Typed(g, r), Pointers(g, r)
    PROVE  LET p == ScheduleRestart(g, r) IN Pointers(p.group, p.runs)
<1>1. CASE torn \/ g.latch # 0
  BY <1>1 DEF ScheduleRestart, Pair
<1>2. CASE ~torn /\ g.latch = 0
  <2> DEFINE N == Len(r) + 1
             h == [g EXCEPT !.latch = N, !.handle = 0, !.session = 0]
             q == Append(TakeDown(g, r), NewRun(g, "restart", "backoff"))
  <2>1. ScheduleRestart(g, r) = Pair(h, q)
    BY <1>2 DEF ScheduleRestart
  <2>2. g \in GroupRuntime /\ r \in Seq(Run) /\ Len(r) \in Nat /\ N \in Nat
    BY DEF Typed
  <2>3. Len(q) = N
    BY <2>2, TakeDownRuns, NewRunType, AppendRun
  <2>4. h.latch = N /\ h.handle = 0 /\ h.session = 0 /\ h.start = g.start
    <3> HIDE DEF N
    <3> QED BY <2>2, LatchType
  <2> HIDE DEF h, q
  <2>5. Pointers(h, q)
    BY <2>2, <2>3, <2>4 DEF Pointers
  <2> QED BY <2>1, <2>5 DEF Pair
<1> QED BY <1>1, <1>2

\* A step changes the run i, and no pointer but to i or 0.
LEMMA PutPointers ==
    ASSUME Inv, NEW i \in DOMAIN runs, NEW h, NEW t, Pointers(group, runs),
           h.start = group.start, h.latch \in {group.latch, 0},
           h.handle \in {group.handle, i}, h.session \in {group.session, i}
    PROVE  Pointers(h, [runs EXCEPT ![i] = t])
<1>1. Len([runs EXCEPT ![i] = t]) = Len(runs) /\ i \in 0 .. Len(runs)
  BY Parts
<1> QED BY <1>1 DEF Pointers

LEMMA PointersStep ==
    ASSUME Inv, [Next]_vars
    PROVE  Pointers(group', runs')
<1>1. /\ group \in GroupRuntime /\ runs \in Seq(Run) /\ Pointers(group, runs)
      /\ Len(runs) \in Nat
  BY Parts DEF Inv
<1>2. \A run : Latch(group, run) \in {group.latch, 0}
  BY DEF Latch
<1>3. ASSUME NEW i \in DOMAIN runs, NEW t, Return(i, t)
      PROVE  Pointers(group', runs')
  <2> DEFINE l == Latch(group, t)
             h == [group EXCEPT !.latch = l]
  <2>1. l \in {group.latch, 0}
    BY <1>2
  <2> HIDE DEF l
  <2>2. /\ h.start = group.start /\ h.latch = l
        /\ h.handle = group.handle /\ h.session = group.session
    BY <1>1 DEF GroupRuntime
  <2>3. group' = h /\ runs' = [runs EXCEPT ![i] = t]
    BY <1>3 DEF Return, l
  <2> HIDE DEF h
  <2> QED BY <1>1, <2>1, <2>2, <2>3, PutPointers
<1>4. ASSUME NEW i \in DOMAIN runs, NEW t, runs' = [runs EXCEPT ![i] = t],
             \/ group' = group
             \/ group' = [group EXCEPT !.session = i]
             \/ group' = [group EXCEPT !.pending = {}]
             \/ group' = [group EXCEPT !.pending = {}, !.ready = TRUE,
                                      !.latch = Latch(group, runs[i])]
             \/ group' = [group EXCEPT !.handle = i, !.latch = Latch(group, runs[i])]
             \/ \E b : group' = [group EXCEPT !.ready = b]
      PROVE  Pointers(group', runs')
  <2> DEFINE l == Latch(group, runs[i])
  <2>1. l \in {group.latch, 0}
    BY <1>2
  <2> HIDE DEF l
  <2>2. /\ group'.start = group.start /\ group'.latch \in {group.latch, 0}
        /\ group'.handle \in {group.handle, i} /\ group'.session \in {group.session, i}
    <3>1. CASE \/ group' = group \/ group' = [group EXCEPT !.session = i]
               \/ group' = [group EXCEPT !.pending = {}]
      BY <1>1, <3>1 DEF GroupRuntime
    <3>2. CASE group' = [group EXCEPT !.pending = {}, !.ready = TRUE, !.latch = l]
      BY <1>1, <2>1, <3>2 DEF GroupRuntime
    <3>3. CASE group' = [group EXCEPT !.handle = i, !.latch = l]
      BY <1>1, <2>1, <3>3 DEF GroupRuntime
    <3>4. CASE \E b : group' = [group EXCEPT !.ready = b]
      BY <1>1, <3>4 DEF GroupRuntime
    <3> QED BY <1>4, <3>1, <3>2, <3>3, <3>4 DEF l
  <2> QED BY <1>1, <1>4, <2>2, PutPointers
<1>5. ASSUME NEW i \in DOMAIN runs, Open(i) \/ Commit(i) \/ Mint(i) \/ MintFails(i)
      PROVE  Pointers(group', runs')
  <2>1. CASE Wake(i) \/ SubscribeAbandoned(i) \/ ClearAbandoned(i)
    BY <1>3, <1>4, <2>1 DEF Wake, SubscribeAbandoned, ClearAbandoned
  <2>2. CASE Subscribe(i)
    BY <1>4, <2>2 DEF Subscribe
  <2>3. CASE ClearNothingGranted(i)
    BY <1>4, <2>3 DEF ClearNothingGranted
  <2>4. CASE ClearAndOpen(i)
    BY <1>4, <2>4 DEF ClearAndOpen
  <2>5. CASE \E s \in Shapes : StreamAnswers(i, s)
    BY <1>4, <2>5 DEF StreamAnswers
  <2>6. CASE Opened(i)
    BY <1>3, <1>4, <2>6 DEF Opened
  <2>7. CASE Commit(i)
    BY <1>4, <2>7 DEF Commit
  <2>8. CASE Mint(i) \/ MintFails(i)
    BY <1>4, <2>8 DEF Mint, MintFails
  <2> QED BY <1>5, <2>1, <2>2, <2>3, <2>4, <2>5, <2>6, <2>7, <2>8 DEF Open
<1>6. ASSUME NEW g, NEW r, Typed(g, r), Pointers(g, r), Become(ScheduleRestart(g, r))
      PROVE  Pointers(group', runs')
  BY <1>6, SchedulePointers DEF Become
<1>7. ASSUME NEW i \in DOMAIN runs, NEW t \in Run
      PROVE  [runs EXCEPT ![i] = t] \in Seq(Run) /\ Pointers(group, [runs EXCEPT ![i] = t])
  BY <1>1, PutRun, PutPointers
<1>8. ASSUME NEW i \in DOMAIN runs, NEW s \in Shapes, StreamEnds(i, s)
      PROVE  Pointers(group', runs')
  <2> DEFINE t == [runs[i] EXCEPT !.ended = runs[i].ended \cup {s}]
             q == [runs EXCEPT ![i] = t]
  <2>1. t \in Run
    BY Parts DEF Run
  <2>2. Become(ScheduleRestart(group, q))
    BY <1>8 DEF StreamEnds
  <2> HIDE DEF t
  <2>3. Typed(group, q) /\ Pointers(group, q)
    BY <1>1, <1>7, <2>1 DEF Typed
  <2> QED BY <1>6, <2>2, <2>3
<1>9. ASSUME NEW i \in DOMAIN runs, MintAnswered(i)
      PROVE  Pointers(group', runs')
  <2> DEFINE revoked == runs[i].token \ grants
             t == [runs[i] EXCEPT !.mint = "idle", !.token = runs[i].token \cap grants]
             q == [runs EXCEPT ![i] = t]
             h == [group EXCEPT !.pending = group.pending \cup revoked]
  <2>1. runs[i] \in Run /\ runs[i].token \in SUBSET Shapes /\ group.pending \in SUBSET Shapes
    BY <1>1, Parts DEF Run, GroupRuntime
  <2>2. t \in Run
    BY <2>1 DEF Run
  <2>3. /\ h \in GroupRuntime /\ h.start = group.start
        /\ h.handle = group.handle /\ h.session = group.session /\ h.latch = group.latch
    <3>1. group.pending \cup revoked \in SUBSET Shapes
      BY <2>1
    <3> HIDE DEF revoked
    <3> QED BY <1>1, <3>1 DEF GroupRuntime
  <2>4. \/ group' = group /\ runs' = q
        \/ Become(ScheduleRestart(h, q))
    <3>1. IF revoked = {} THEN group' = group /\ runs' = q
          ELSE Become(ScheduleRestart(h, q))
      BY <1>9 DEF MintAnswered
    <3> HIDE DEF revoked, q, h
    <3> QED BY <3>1
  <2> HIDE DEF t, h
  <2>5. q \in Seq(Run) /\ Pointers(group, q) /\ Pointers(h, q)
    BY <1>1, <1>7, <2>2, <2>3, PutPointers
  <2> QED BY <1>6, <2>3, <2>4, <2>5 DEF Typed
<1>10. ASSUME NEW i \in DOMAIN runs, OpenFails(i)
       PROVE  Pointers(group', runs')
  <2> DEFINE t == [Unsubscribe(runs[i]) EXCEPT !.pc = "done"]
             q == [runs EXCEPT ![i] = t]
             l == Latch(group, runs[i])
             h == [group EXCEPT !.latch = l]
  <2>1. t \in Run
    BY RunReturns, Parts DEF Same
  <2>2. /\ h \in GroupRuntime /\ h.start = group.start /\ h.latch \in {group.latch, 0}
        /\ h.handle = group.handle /\ h.session = group.session
    <3>1. l \in {group.latch, 0} /\ l \in Nat
      BY <1>1, <1>2, LatchIsNat
    <3> HIDE DEF l
    <3> QED BY <1>1, <3>1 DEF GroupRuntime
  <2>3. \/ Become(RestartFailed(group, q, runs[i])) \/ Become(StartFailed(group, q))
    BY <1>10 DEF OpenFails
  <2> HIDE DEF t
  <2>4. \/ Become(ScheduleRestart(group, q)) \/ Become(ScheduleRestart(h, q))
        \/ Become(Pair(h, q))
    <3> HIDE DEF q
    <3> QED BY <2>3 DEF RestartFailed, StartFailed
  <2> HIDE DEF h
  <2>5. q \in Seq(Run) /\ Pointers(group, q) /\ Pointers(h, q)
    BY <1>1, <1>7, <2>1, <2>2, PutPointers
  <2> HIDE DEF q
  <2>6. CASE Become(Pair(h, q))
    BY <2>5, <2>6 DEF Become, Pair
  <2> QED BY <1>1, <1>6, <2>2, <2>4, <2>5, <2>6 DEF Typed
<1>11. CASE EnsureGroupStarted
  <2> DEFINE N == Len(runs) + 1
             n == NewRun(group, "start", "subscribe")
             h == [group EXCEPT !.start = N]
  <2>1. group' = h /\ runs' = Append(runs, n) /\ n \in Run /\ N \in Nat
    BY <1>1, <1>11, NewRunType DEF EnsureGroupStarted
  <2>2. Len(runs') = N
    BY <1>1, <2>1, AppendRun
  <2>3. /\ h.start = N /\ h.latch = group.latch
        /\ h.handle = group.handle /\ h.session = group.session
    <3> HIDE DEF N
    <3> QED BY <1>1 DEF GroupRuntime
  <2> HIDE DEF h, n
  <2> QED BY <1>1, <2>1, <2>2, <2>3 DEF Pointers
<1>12. CASE Desync \/ TearDown
  <2>1. runs' = TakeDown(group, runs)
    BY <1>12 DEF Desync, Become, Pair, TearDown
  <2>2. Len(runs') = Len(runs)
    BY <1>1, <2>1, TakeDownRuns
  <2>3. CASE Desync
    BY <1>1, <2>2, <2>3 DEF Desync, Become, Pair, Stopped, Pointers
  <2>4. CASE TearDown
    <3>1. /\ group'.start = group.start /\ group'.latch = group.latch
          /\ group'.handle = group.handle /\ group'.session = group.session
      BY <1>1, <2>4 DEF TearDown, GroupRuntime
    <3> QED BY <1>1, <2>2, <3>1 DEF Pointers
  <2> QED BY <1>12, <2>3, <2>4
<1>13. CASE DesyncForgets \/ DesyncTruncates \/ GrantsChange \/ UNCHANGED vars
  BY <1>1, <1>13 DEF DesyncForgets, DesyncTruncates, GrantsChange, vars
<1> QED BY <1>5, <1>8, <1>9, <1>10, <1>11, <1>12, <1>13 DEF Next, Progress

LEMMA InvStep ==
    ASSUME Inv, [Next]_vars
    PROVE  Inv'
<1>1. Stores' /\ Pointers(group, runs)'
  BY StoresStep, PointersStep DEF Pointers
<1>2. SUFFICES RestartInv(group, runs)'
  BY <1>1 DEF Inv
<1>3. ASSUME torn' = torn, RestartInv(group', runs')
      PROVE  RestartInv(group, runs)'
  BY <1>3 DEF RestartInv, IsRestart, Current, Typed
<1>4. CASE EnsureGroupStarted
  BY <1>3, <1>4, StartStep DEF EnsureGroupStarted
<1>5. ASSUME NEW i \in DOMAIN runs, Open(i)
      PROVE  RestartInv(group, runs)'
  <2>1. torn' = torn
    BY <1>5 DEF Open, Wake, Subscribe, SubscribeAbandoned, ClearAbandoned,
                ClearNothingGranted, ClearAndOpen, ClearRows, StreamAnswers, Opened
  <2> QED BY <1>3, <1>5, <2>1, OpenStep
<1>6. ASSUME NEW i \in DOMAIN runs, Mint(i) \/ MintFails(i) \/ Commit(i)
      PROVE  RestartInv(group, runs)'
  BY <1>3, <1>6, WorkStep DEF Mint, MintFails, Commit
<1>7. ASSUME NEW i \in DOMAIN runs, OpenFails(i)
      PROVE  RestartInv(group, runs)'
  BY <1>3, <1>7, OpenFailsStep DEF OpenFails
<1>8. ASSUME NEW i \in DOMAIN runs, MintAnswered(i)
      PROVE  RestartInv(group, runs)'
  BY <1>3, <1>8, MintAnsweredStep DEF MintAnswered
<1>9. ASSUME NEW i \in DOMAIN runs, NEW s \in Shapes, StreamEnds(i, s)
      PROVE  RestartInv(group, runs)'
  BY <1>3, <1>9, StreamEndsStep DEF StreamEnds
<1>10. CASE Desync \/ TearDown
  BY <1>10, StopStep
<1>11. CASE DesyncForgets \/ DesyncTruncates \/ GrantsChange \/ UNCHANGED vars
  <2>1. group' = group /\ runs' = runs /\ torn' = torn
    BY <1>11 DEF DesyncForgets, DesyncTruncates, GrantsChange, vars
  <2> QED BY <1>3, <2>1 DEF Inv
<1> QED BY <1>4, <1>5, <1>6, <1>7, <1>8, <1>9, <1>10, <1>11 DEF Next, Progress

LEMMA InvInit == Init => Inv
<1> SUFFICES ASSUME Init PROVE Inv
  OBVIOUS
<1>1. Stores
  BY DEF Init, Stores
<1>2. group \in GroupRuntime /\ group.latch = 0
  BY DEF Init, GroupRuntime
<1>3. runs \in Seq(Run) /\ DOMAIN runs = {}
  BY DEF Init
<1>4. Pointers(group, runs)
  BY DEF Init, Pointers
<1> QED BY <1>1, <1>2, <1>3, <1>4 DEF Inv, RestartInv, Typed

\* scheduleRestart's latch, for any number of starts, stops and faults and in
\* every window: at most one restart of the group's generation is under way,
\* and the latch is set exactly while it is.
THEOREM RestartTheorem == Spec => []OneRestart
<1>1. Inv => OneRestart
  <2> SUFFICES ASSUME Inv, ~torn
               PROVE  {i \in DOMAIN runs : Restarting(i)} = {group.latch} \ {0}
    BY DEF OneRestart
  <2>1. \A i \in DOMAIN runs : i # 0 /\ (Restarting(i) <=> IsRestart(group, runs[i]))
    BY Parts DEF Restarting, Underway, IsRestart, Current
  <2> QED BY <2>1 DEF Inv, RestartInv
<1> QED BY <1>1, InvInit, InvStep, PTL DEF Spec

-----------------------------------------------------------------------------
(***************************************************************************)
(* The engine and the session of a group, without the windows that break   *)
(* them.  A started group that is not torn down has at most one run of its *)
(* generation, and while it has one it has no engine.                      *)
(***************************************************************************)
OwnedRun(g, i, run) ==
    /\ run.pc = "done" /\ Live(run) => i = g.handle /\ g.start # 0 /\ ~torn
    /\ run.lease = "held" => i = g.session /\ ~torn
    /\ run.mint = "posted" => run.pc = "done"
    /\ Live(run) => run.pc \in {"opening", "done"}
    /\ run.pc = "opening" => Live(run)
    /\ run.pc # "done" => run.ended = {}
    /\ i = g.handle => run.pc = "done"
    /\ Current(g, run) /\ ~torn =>
          /\ g.start # 0 /\ g.handle = 0 /\ g.session \in {0, i}
          /\ run.pc \in {"clear", "opening"} => g.session = i

Owned(g, r) ==
    /\ \A i \in DOMAIN r : OwnedRun(g, i, r[i])
    /\ ~torn => \A i, j \in DOMAIN r : Current(g, r[i]) /\ Current(g, r[j]) => i = j
    /\ ~torn /\ g.start = 0 => g.handle = 0 /\ g.session = 0 /\ g.latch = 0

Reading(g, r) ==
    ~torn /\ g.start # 0 =>
    \/ \E i \in DOMAIN r : Current(g, r[i])
    \/ g.handle \in DOMAIN r /\ Live(r[g.handle]) /\ r[g.handle].ended = {}
    \/ g.session \in DOMAIN r /\ r[g.session].granted = {} /\ r[g.session].pc = "done"

GroupInv == Inv /\ Owned(group, runs) /\ Reading(group, runs)

\* scheduleRestart, asked for by a group that has no run under way.
LEMMA ScheduleKeepsOwned ==
    ASSUME NEW g, NEW r, RestartInv(g, r), Owned(g, r), ~torn, g.start # 0, g.latch = 0,
           \A i \in DOMAIN r : ~Current(g, r[i])
    PROVE  LET p == ScheduleRestart(g, r) IN Owned(p.group, p.runs) /\ Reading(p.group, p.runs)
<1> DEFINE t == TakeDown(g, r)
           n == NewRun(g, "restart", "backoff")
           h == [g EXCEPT !.latch = Len(r) + 1, !.handle = 0, !.session = 0]
           q == Append(t, n)
           N == Len(r) + 1
<1>1. ScheduleRestart(g, r) = Pair(h, q)
  BY DEF ScheduleRestart
<1>2. g \in GroupRuntime /\ r \in Seq(Run) /\ Len(r) \in Nat /\ DOMAIN r = 1 .. Len(r)
  BY DEF RestartInv, Typed
<1>3. N \in Nat /\ N # 0 /\ \A i \in DOMAIN r : i # 0 /\ i # N
  BY <1>2
<1>4. /\ t \in Seq(Run) /\ Len(t) = Len(r) /\ DOMAIN t = DOMAIN r
      /\ \A i \in DOMAIN r : TakenDown(g, i, t[i], r[i])
  BY <1>2, TakeDownRuns
<1>5. /\ n \in Run /\ n.pc = "backoff" /\ n.gen = g.generation
      /\ n.engine = "none" /\ n.lease = "none" /\ n.mint = "idle" /\ n.ended = {}
  BY <1>2, NewRunType
<1>6. /\ h \in GroupRuntime /\ h.generation = g.generation /\ h.start = g.start
      /\ h.handle = 0 /\ h.session = 0
  BY <1>2, <1>3, LatchType
<1>7. /\ q \in Seq(Run) /\ DOMAIN q = DOMAIN r \cup {N}
      /\ q[N] = n /\ \A i \in DOMAIN r : q[i] = t[i]
  BY <1>4, <1>5, AppendRun
<1> HIDE DEF t, n, h, q, N
<1>8. ASSUME NEW i \in DOMAIN r
      PROVE  OwnedRun(h, i, q[i]) /\ ~Current(h, q[i])
  <2>1. OwnedRun(g, i, r[i]) /\ TakenDown(g, i, t[i], r[i]) /\ q[i] = t[i] /\ ~Current(g, r[i])
    BY <1>4, <1>7 DEF Owned
  <2>2. ~Current(h, q[i])
    BY <1>6, <2>1 DEF Current, TakenDown, SameRun
  <2>3. q[i].lease # "held" /\ ~(q[i].pc = "done" /\ Live(q[i]))
    BY <2>1 DEF OwnedRun, TakenDown, SameRun, Live
  <2>4. (q[i].pc = "opening" => Live(q[i])) /\ (q[i].pc # "done" => q[i].ended = {})
    BY <2>1 DEF OwnedRun, TakenDown, SameRun, Live
  <2>5. (q[i].mint = "posted" => q[i].pc = "done") /\ (Live(q[i]) => q[i].pc \in {"opening", "done"})
    BY <2>1 DEF OwnedRun, TakenDown, SameRun, Live
  <2> QED BY <1>3, <1>6, <2>2, <2>3, <2>4, <2>5 DEF OwnedRun
<1>9. OwnedRun(h, N, q[N]) /\ Current(h, q[N])
  BY <1>3, <1>5, <1>6, <1>7 DEF OwnedRun, Current, Live
<1>10. Owned(h, q)
  BY <1>6, <1>7, <1>8, <1>9 DEF Owned
<1>11. Reading(h, q)
  BY <1>7, <1>9 DEF Reading
<1> QED BY <1>1, <1>10, <1>11 DEF Pair

\* One run is replaced, in a group that keeps its generation.
LEMMA PutKeepsOwned ==
    ASSUME NEW g, NEW r, RestartInv(g, r), Owned(g, r), NEW h, NEW i \in DOMAIN r, NEW run \in Run,
           h.generation = g.generation, h.start = g.start, run.gen = r[i].gen,
           run.pc # "done" => r[i].pc # "done",
           OwnedRun(h, i, run),
           \A j \in DOMAIN r : j # i => OwnedRun(h, j, r[j]),
           ~torn /\ h.start = 0 => h.handle = 0 /\ h.session = 0 /\ h.latch = 0
    PROVE  Owned(h, [r EXCEPT ![i] = run])
<1>1. r \in Seq(Run)
  BY DEF RestartInv, Typed
<1> DEFINE q == [r EXCEPT ![i] = run]
<1>2. /\ q \in Seq(Run) /\ DOMAIN q = DOMAIN r /\ q[i] = run
      /\ \A j \in DOMAIN r : j # i => q[j] = r[j]
  BY <1>1, PutRun
<1> HIDE DEF q
<1>3. \A j \in DOMAIN r : OwnedRun(h, j, q[j]) /\ (Current(h, q[j]) => Current(g, r[j]))
  BY <1>2 DEF Current
<1>4. Owned(h, q)
  BY <1>2, <1>3 DEF Owned
<1> QED BY <1>4 DEF q

\* The group keeps what OwnedRun looks at.
LEMMA OwnedRunKept ==
    ASSUME NEW g, NEW h, NEW j, NEW run, OwnedRun(g, j, run),
           h.generation = g.generation, h.start = g.start, h.handle = g.handle,
           h.session = g.session
    PROVE  OwnedRun(h, j, run)
  BY DEF OwnedRun, Current

\* A step of the run i that neither installs nor removes anything of the group.
Quiet(i, h, t) ==
    /\ group' = h /\ runs' = [runs EXCEPT ![i] = t] /\ t \in Run
    /\ h.generation = group.generation /\ h.start = group.start
    /\ h.handle = group.handle /\ h.session = group.session
    /\ h.latch \in {group.latch, 0}
    /\ t.gen = runs[i].gen /\ OwnedRun(group, i, t)
    /\ t.pc # "done" => runs[i].pc # "done"
    /\ ~torn /\ Current(group, runs[i]) => t.pc # "done"
    /\ runs[i].pc = "done" => /\ t.granted = runs[i].granted /\ t.ended = runs[i].ended
                              /\ Live(runs[i]) => Live(t)

LEMMA QuietStep ==
    ASSUME GroupInv, NEW i \in DOMAIN runs, NEW h, NEW t, Quiet(i, h, t)
    PROVE  Owned(group', runs') /\ Reading(group', runs')
<1>1. RestartInv(group, runs) /\ Owned(group, runs) /\ Reading(group, runs) /\ runs \in Seq(Run)
  BY DEF GroupInv, Inv, RestartInv, Typed
<1>2. \A j \in DOMAIN runs : OwnedRun(group, j, runs[j])
  BY <1>1 DEF Owned
<1>3. /\ t \in Run /\ t.gen = runs[i].gen
      /\ h.generation = group.generation /\ h.start = group.start
      /\ t.pc # "done" => runs[i].pc # "done"
      /\ h.handle = group.handle /\ h.session = group.session
  BY DEF Quiet
<1>4. OwnedRun(h, i, t) /\ \A j \in DOMAIN runs : OwnedRun(h, j, runs[j])
  BY <1>2, <1>3, OwnedRunKept DEF Quiet
<1>5. ~torn /\ h.start = 0 => h.handle = 0 /\ h.session = 0 /\ h.latch = 0
  BY <1>1 DEF Quiet, Owned
<1> DEFINE q == [runs EXCEPT ![i] = t]
<1>6. Owned(h, q)
  BY <1>1, <1>3, <1>4, <1>5, PutKeepsOwned
<1>7. /\ DOMAIN q = DOMAIN runs /\ q[i] = t
      /\ \A j \in DOMAIN runs : j # i => q[j] = runs[j]
  BY <1>1, <1>3, PutRun
<1> HIDE DEF q
<1>8. Reading(h, q)
  <2> SUFFICES ASSUME ~torn, h.start # 0
               PROVE  \/ \E j \in DOMAIN q : Current(h, q[j])
                      \/ h.handle \in DOMAIN q /\ Live(q[h.handle]) /\ q[h.handle].ended = {}
                      \/ /\ h.session \in DOMAIN q /\ q[h.session].granted = {}
                         /\ q[h.session].pc = "done"
    BY DEF Reading
  <2>1. ASSUME NEW j \in DOMAIN runs, Current(group, runs[j])
        PROVE  Current(h, q[j])
    BY <1>3, <1>7, <2>1 DEF Quiet, Current
  <2>2. ASSUME NEW j \in DOMAIN runs, runs[j].pc = "done"
        PROVE  /\ q[j].granted = runs[j].granted /\ q[j].ended = runs[j].ended
               /\ q[j].pc = "done" /\ (Live(runs[j]) => Live(q[j]))
    BY <1>7, <2>2 DEF Quiet
  <2>3. CASE group.handle \in DOMAIN runs /\ Live(runs[group.handle]) /\ runs[group.handle].ended = {}
    <3>1. runs[group.handle].pc = "done"
      BY <1>2, <2>3 DEF OwnedRun
    <3> QED BY <1>3, <1>7, <2>2, <2>3, <3>1
  <2>4. CASE /\ group.session \in DOMAIN runs /\ runs[group.session].granted = {}
             /\ runs[group.session].pc = "done"
    BY <1>3, <1>7, <2>2, <2>4
  <2>5. CASE \E j \in DOMAIN runs : Current(group, runs[j])
    BY <1>7, <2>1, <2>5
  <2> QED BY <1>1, <1>3, <2>3, <2>4, <2>5 DEF Reading
<1> QED BY <1>6, <1>8 DEF Quiet, q

\* The parts of GroupInv a step of the run i starts from.
LEMMA OwnedParts ==
    ASSUME GroupInv, NEW i \in DOMAIN runs
    PROVE  /\ group \in GroupRuntime /\ runs[i] \in Run /\ i \in Nat /\ i # 0
           /\ OwnedRun(group, i, runs[i]) /\ RestartInv(group, runs) /\ Owned(group, runs)
           /\ Latch(group, runs[i]) \in {group.latch, 0}
           /\ Current(group, runs[i]) /\ ~torn <=> ~Abandoned(i) /\ runs[i].pc # "done"
<1>1. /\ group \in GroupRuntime /\ runs[i] \in Run /\ i \in Nat /\ i # 0
      /\ RestartInv(group, runs) /\ Owned(group, runs)
  BY Parts DEF GroupInv, Inv
<1> QED BY <1>1 DEF Owned, Latch, Abandoned, Current

\* A run that gives up, with its engine closed or before it had one.
LEMMA GivesUp ==
    ASSUME GroupInv, NEW i \in DOMAIN runs, NEW t \in Run, Abandoned(i), runs[i].pc # "done",
           t.pc = "done", t.engine = "none", t.gen = runs[i].gen, t.kind = runs[i].kind,
           t.lease \in {runs[i].lease, "none"}, Return(i, t)
    PROVE  Owned(group', runs') /\ Reading(group', runs')
<1> DEFINE h == [group EXCEPT !.latch = Latch(group, t)]
<1>1. group \in GroupRuntime /\ OwnedRun(group, i, runs[i]) /\ Latch(group, runs[i]) \in {group.latch, 0}
  BY OwnedParts
<1>2. Latch(group, t) \in {group.latch, 0}
  BY <1>1 DEF Latch
<1>3. /\ h.generation = group.generation /\ h.start = group.start
      /\ h.handle = group.handle /\ h.session = group.session
      /\ h.latch \in {group.latch, 0}
  BY <1>1, <1>2 DEF GroupRuntime
<1>4. group' = h /\ runs' = [runs EXCEPT ![i] = t]
  BY DEF Return
<1> HIDE DEF h
<1>5. OwnedRun(group, i, t)
  BY <1>1 DEF OwnedRun, Current, Live
<1>6. Quiet(i, h, t)
  BY <1>3, <1>4, <1>5 DEF Quiet, Abandoned, Current
<1> QED BY <1>6, QuietStep

LEMMA OwnedClearAndOpen ==
    ASSUME GroupInv, NEW i \in DOMAIN runs, ClearAndOpen(i)
    PROVE  Owned(group', runs') /\ Reading(group', runs')
<1> DEFINE k == cursor' \cap runs[i].granted
           t == [runs[i] EXCEPT !.pc = "opening", !.engine = "live", !.known = k]
           h == [group EXCEPT !.pending = {}]
<1>1. /\ group \in GroupRuntime /\ runs[i] \in Run /\ OwnedRun(group, i, runs[i])
      /\ runs[i].pc = "clear" /\ ~Abandoned(i)
  BY OwnedParts DEF ClearAndOpen, ClearRows, At
<1>2. Current(group, runs[i]) /\ ~torn
  BY <1>1, OwnedParts
<1>3. /\ t \in Run /\ t.pc = "opening" /\ t.engine = "live" /\ t.gen = runs[i].gen
      /\ t.lease = runs[i].lease /\ t.mint = runs[i].mint /\ t.ended = runs[i].ended
  <2>1. k \in SUBSET Shapes
    BY <1>1 DEF Run
  <2> HIDE DEF k
  <2> QED BY <1>1, <2>1 DEF Run
<1>4. /\ h.generation = group.generation /\ h.start = group.start
      /\ h.handle = group.handle /\ h.session = group.session
      /\ h.latch = group.latch
  BY <1>1 DEF GroupRuntime
<1>5. group' = h /\ runs' = [runs EXCEPT ![i] = t]
  BY DEF ClearAndOpen
<1> HIDE DEF t, h
<1>6. OwnedRun(group, i, t)
  BY <1>1, <1>2, <1>3 DEF OwnedRun, Current, Live
<1>7. Quiet(i, h, t)
  BY <1>1, <1>3, <1>4, <1>5, <1>6 DEF Quiet
<1> QED BY <1>7, QuietStep

\* The answer of the control plane gives the group its session.
LEMMA OwnedSubscribe ==
    ASSUME GroupInv, NEW i \in DOMAIN runs, Subscribe(i)
    PROVE  Owned(group', runs') /\ Reading(group', runs')
<1> DEFINE l == IF grants = {} THEN "none" ELSE "held"
           t == [runs[i] EXCEPT !.pc = "clear", !.granted = grants, !.token = grants,
                                !.known = cursor, !.lease = l]
           h == [group EXCEPT !.session = i]
           q == [runs EXCEPT ![i] = t]
<1>1. /\ group \in GroupRuntime /\ runs[i] \in Run /\ OwnedRun(group, i, runs[i]) /\ i # 0
      /\ RestartInv(group, runs) /\ Owned(group, runs)
      /\ runs[i].pc = "subscribe" /\ ~Abandoned(i)
  BY OwnedParts DEF Subscribe, At
<1>2. Current(group, runs[i]) /\ ~torn
  BY <1>1, OwnedParts
<1>3. grants \in SUBSET Shapes /\ cursor \in SUBSET Shapes
  BY DEF GroupInv, Inv, Stores
<1>4. /\ t \in Run /\ t.pc = "clear" /\ t.engine = runs[i].engine /\ t.gen = runs[i].gen
      /\ t.mint = runs[i].mint /\ t.ended = runs[i].ended
  <2>1. l \in {"none", "held"}
    OBVIOUS
  <2> HIDE DEF l
  <2> QED BY <1>1, <1>3, <2>1 DEF Run
<1>5. /\ h.generation = group.generation /\ h.start = group.start
      /\ h.handle = group.handle /\ h.session = i
  BY <1>1 DEF GroupRuntime
<1>6. group' = h /\ runs' = q
  BY DEF Subscribe
<1> HIDE DEF t, h
<1>7. OwnedRun(h, i, t)
  BY <1>1, <1>2, <1>4, <1>5 DEF OwnedRun, Current, Live
<1>8. ASSUME NEW j \in DOMAIN runs, j # i
      PROVE  OwnedRun(h, j, runs[j])
  <2>1. OwnedRun(group, j, runs[j]) /\ ~Current(group, runs[j]) /\ j # 0
    BY <1>1, <1>2, <1>8, OwnedParts DEF Owned
  <2>2. group.session \in {0, i}
    BY <1>1, <1>2 DEF OwnedRun
  <2> QED BY <1>5, <1>8, <2>1, <2>2 DEF OwnedRun, Current
<1>9. Owned(h, q)
  BY <1>1, <1>2, <1>4, <1>5, <1>7, <1>8, PutKeepsOwned DEF OwnedRun
<1>10. Reading(h, q)
  <2>1. i \in DOMAIN q /\ q[i] = t
    BY <1>1, <1>4, PutRun, Parts DEF GroupInv
  <2>2. Current(h, q[i])
    BY <1>2, <1>4, <1>5, <2>1 DEF Current
  <2> QED BY <2>1, <2>2 DEF Reading
<1> QED BY <1>6, <1>9, <1>10

\* The current run ends with what the group then rests on: no stream at all ...
LEMMA OwnedNothingGranted ==
    ASSUME GroupInv, NEW i \in DOMAIN runs, ClearNothingGranted(i)
    PROVE  Owned(group', runs') /\ Reading(group', runs')
<1> DEFINE t == [runs[i] EXCEPT !.pc = "done", !.known = {}]
           h == [group EXCEPT !.pending = {}, !.ready = TRUE, !.latch = Latch(group, runs[i])]
           q == [runs EXCEPT ![i] = t]
<1>1. /\ group \in GroupRuntime /\ runs[i] \in Run /\ OwnedRun(group, i, runs[i]) /\ i # 0
      /\ RestartInv(group, runs) /\ Owned(group, runs)
      /\ runs[i].pc = "clear" /\ ~Abandoned(i) /\ runs[i].granted = {}
  BY OwnedParts DEF ClearNothingGranted, ClearRows, At
<1>2. Current(group, runs[i]) /\ ~torn
  BY <1>1, OwnedParts
<1>3. /\ t \in Run /\ t.pc = "done" /\ t.engine = runs[i].engine /\ t.gen = runs[i].gen
      /\ t.mint = runs[i].mint /\ t.ended = runs[i].ended /\ t.lease = runs[i].lease
      /\ t.granted = runs[i].granted
  BY <1>1 DEF Run
<1>4. /\ h.generation = group.generation /\ h.start = group.start
      /\ h.handle = group.handle /\ h.session = group.session
  BY <1>1 DEF GroupRuntime
<1>5. group' = h /\ runs' = q
  BY DEF ClearNothingGranted
<1> HIDE DEF t, h
<1>6. OwnedRun(h, i, t)
  BY <1>1, <1>2, <1>3, <1>4 DEF OwnedRun, Current, Live
<1>7. \A j \in DOMAIN runs : OwnedRun(h, j, runs[j])
  BY <1>1, <1>4, OwnedRunKept DEF Owned
<1>8. group.start # 0 /\ group.session = i
  BY <1>1, <1>2 DEF OwnedRun
<1>9. Owned(h, q)
  BY <1>1, <1>3, <1>4, <1>6, <1>7, <1>8, PutKeepsOwned
<1>10. Reading(h, q)
  <2>1. i \in DOMAIN q /\ q[i] = t
    BY <1>1, <1>3, PutRun, Parts DEF GroupInv
  <2> QED BY <1>1, <1>3, <1>4, <1>8, <2>1 DEF Reading
<1> QED BY <1>5, <1>9, <1>10

\* ... or its engine, all of whose streams read.
LEMMA OwnedOpened ==
    ASSUME GroupInv, NEW i \in DOMAIN runs, Opened(i), ~Abandoned(i)
    PROVE  Owned(group', runs') /\ Reading(group', runs')
<1> DEFINE t == [runs[i] EXCEPT !.pc = "done"]
           h == [group EXCEPT !.handle = i, !.latch = Latch(group, runs[i])]
           q == [runs EXCEPT ![i] = t]
<1>1. /\ group \in GroupRuntime /\ runs[i] \in Run /\ OwnedRun(group, i, runs[i]) /\ i # 0
      /\ RestartInv(group, runs) /\ Owned(group, runs) /\ runs[i].pc = "opening"
  BY OwnedParts DEF Opened, At
<1>2. Current(group, runs[i]) /\ ~torn
  BY <1>1, OwnedParts
<1>3. /\ t \in Run /\ t.pc = "done" /\ t.engine = runs[i].engine /\ t.gen = runs[i].gen
      /\ t.mint = runs[i].mint /\ t.ended = runs[i].ended /\ t.lease = runs[i].lease
  BY <1>1 DEF Run
<1>4. /\ h.generation = group.generation /\ h.start = group.start
      /\ h.handle = i /\ h.session = group.session
  BY <1>1 DEF GroupRuntime
<1>5. group' = h /\ runs' = q
  BY DEF Opened
<1> HIDE DEF t, h
<1>6. group.start # 0 /\ group.handle = 0 /\ Live(runs[i]) /\ runs[i].ended = {}
  BY <1>1, <1>2 DEF OwnedRun
<1>7. OwnedRun(h, i, t)
  BY <1>1, <1>2, <1>3, <1>4, <1>6 DEF OwnedRun, Current, Live
<1>8. ASSUME NEW j \in DOMAIN runs, j # i
      PROVE  OwnedRun(h, j, runs[j])
  <2>1. OwnedRun(group, j, runs[j]) /\ ~Current(group, runs[j]) /\ j # 0
    BY <1>1, <1>2, <1>8, OwnedParts DEF Owned
  <2> QED BY <1>4, <1>6, <1>8, <2>1 DEF OwnedRun, Current
<1>9. Owned(h, q)
  BY <1>1, <1>3, <1>4, <1>6, <1>7, <1>8, PutKeepsOwned
<1>10. Reading(h, q)
  <2>1. i \in DOMAIN q /\ q[i] = t
    BY <1>1, <1>3, PutRun, Parts DEF GroupInv
  <2> QED BY <1>3, <1>4, <1>6, <2>1 DEF Reading, Live
<1> QED BY <1>5, <1>9, <1>10

LEMMA OwnedOpen ==
    ASSUME GroupInv, NEW i \in DOMAIN runs, Open(i)
    PROVE  Owned(group', runs') /\ Reading(group', runs')
<1>1. group \in GroupRuntime /\ runs[i] \in Run /\ OwnedRun(group, i, runs[i])
  BY OwnedParts
<1>2. CASE Abandoned(i) /\ (Wake(i) \/ SubscribeAbandoned(i))
  <2> DEFINE t == [runs[i] EXCEPT !.pc = "done"]
  <2>1. Return(i, t) /\ runs[i].pc \in {"backoff", "subscribe"}
    BY <1>2 DEF Wake, SubscribeAbandoned, At
  <2>2. runs[i].engine = "none"
    BY <1>1, <2>1 DEF OwnedRun, Live, Run
  <2>3. /\ t \in Run /\ t.pc = "done" /\ t.engine = "none" /\ t.gen = runs[i].gen
        /\ t.kind = runs[i].kind /\ t.lease = runs[i].lease
    BY <1>1, <2>2 DEF Run
  <2> HIDE DEF t
  <2> QED BY <1>2, <2>1, <2>3, GivesUp
<1>3. CASE ClearAbandoned(i)
  <2> DEFINE t == [runs[i] EXCEPT !.pc = "done", !.known = {}]
  <2>1. Return(i, t) /\ runs[i].pc = "clear" /\ Abandoned(i)
    BY <1>3 DEF ClearAbandoned, ClearRows, At
  <2>2. runs[i].engine = "none"
    BY <1>1, <2>1 DEF OwnedRun, Live, Run
  <2>3. /\ t \in Run /\ t.pc = "done" /\ t.engine = "none" /\ t.gen = runs[i].gen
        /\ t.kind = runs[i].kind /\ t.lease = runs[i].lease
    BY <1>1, <2>2 DEF Run
  <2> HIDE DEF t
  <2> QED BY <2>1, <2>3, GivesUp
<1>4. CASE Opened(i) /\ Abandoned(i)
  <2> DEFINE u == Unsubscribe(runs[i])
             t == [u EXCEPT !.pc = "done", !.lease = "none"]
  <2>1. Return(i, t) /\ runs[i].pc = "opening"
    BY <1>4 DEF Opened, At
  <2>2. u \in Run /\ u.engine = "none" /\ u.gen = runs[i].gen /\ u.kind = runs[i].kind
    BY <1>1, UnsubscribeType DEF SameRun
  <2> HIDE DEF u
  <2>3. /\ t \in Run /\ t.pc = "done" /\ t.engine = "none" /\ t.gen = runs[i].gen
        /\ t.kind = runs[i].kind /\ t.lease = "none"
    BY <2>2 DEF Run
  <2> HIDE DEF t
  <2> QED BY <1>4, <2>1, <2>3, GivesUp
<1>5. CASE ~Abandoned(i) /\ Wake(i)
  <2> DEFINE t == [runs[i] EXCEPT !.pc = "subscribe"]
  <2>1. runs' = [runs EXCEPT ![i] = t] /\ group' = group /\ runs[i].pc = "backoff"
    BY <1>5 DEF Wake, At
  <2>2. /\ t \in Run /\ t.pc = "subscribe" /\ t.engine = runs[i].engine
        /\ t.gen = runs[i].gen /\ t.lease = runs[i].lease /\ t.mint = runs[i].mint
        /\ t.ended = runs[i].ended
    BY <1>1 DEF Run
  <2> HIDE DEF t
  <2>3. OwnedRun(group, i, t)
    BY <1>1, <2>1, <2>2 DEF OwnedRun, Current, Live
  <2>4. Quiet(i, group, t)
    BY <2>1, <2>2, <2>3 DEF Quiet
  <2> QED BY <2>4, QuietStep
<1>6. ASSUME NEW s \in Shapes, StreamAnswers(i, s)
      PROVE  Owned(group', runs') /\ Reading(group', runs')
  <2> DEFINE t == [runs[i] EXCEPT !.answered = runs[i].answered \cup {s}]
  <2>1. runs' = [runs EXCEPT ![i] = t] /\ group' = group /\ runs[i].pc = "opening"
    BY <1>6 DEF StreamAnswers, At
  <2>2. /\ t \in Run /\ t.pc = runs[i].pc /\ t.engine = runs[i].engine
        /\ t.gen = runs[i].gen /\ t.lease = runs[i].lease /\ t.mint = runs[i].mint
        /\ t.ended = runs[i].ended
    BY <1>1 DEF Run
  <2> HIDE DEF t
  <2>3. OwnedRun(group, i, t)
    BY <1>1, <2>1, <2>2 DEF OwnedRun, Current, Live
  <2>4. Quiet(i, group, t)
    BY <2>1, <2>2, <2>3 DEF Quiet
  <2> QED BY <2>4, QuietStep
<1> QED BY <1>2, <1>3, <1>4, <1>5, <1>6, OwnedSubscribe, OwnedNothingGranted, OwnedClearAndOpen,
           OwnedOpened DEF Open, SubscribeAbandoned

LEMMA OwnedWork ==
    ASSUME GroupInv, Windows \cap {"early", "failed_start", "late_mint"} = {},
           NEW i \in DOMAIN runs, Mint(i) \/ MintFails(i) \/ Commit(i)
    PROVE  Owned(group', runs') /\ Reading(group', runs')
<1>1. group \in GroupRuntime /\ runs[i] \in Run /\ OwnedRun(group, i, runs[i])
  BY OwnedParts
<1>2. CASE Mint(i) \/ MintFails(i)
  <2>1. PICK m \in {"idle", "posted"} :
           runs' = [runs EXCEPT ![i] = [runs[i] EXCEPT !.mint = m]] /\ group' = group
    BY <1>2 DEF Mint, MintFails
  <2> DEFINE t == [runs[i] EXCEPT !.mint = m]
  <2>2. runs[i].pc = "done"
    BY <1>1, <1>2 DEF Mint, MintFails, OwnedRun
  <2>3. /\ t \in Run /\ t.pc = "done" /\ t.engine = runs[i].engine /\ t.gen = runs[i].gen
        /\ t.lease = runs[i].lease /\ t.ended = runs[i].ended /\ t.granted = runs[i].granted
    BY <1>1, <2>2 DEF Run
  <2> HIDE DEF t
  <2>4. OwnedRun(group, i, t)
    BY <1>1, <2>2, <2>3 DEF OwnedRun, Current, Live
  <2>5. Quiet(i, group, t)
    BY <2>1, <2>2, <2>3, <2>4 DEF Quiet, Current, Live, t
  <2> QED BY <2>5, QuietStep
<1>3. CASE Commit(i)
  <2> DEFINE b == runs[i].engine = "live"
             t == [runs[i] EXCEPT !.known = runs[i].granted, !.engine = "synced"]
             h == [group EXCEPT !.ready = group.ready \/ b]
  <2>1. group' = h /\ runs' = [runs EXCEPT ![i] = t] /\ runs[i].pc = "done" /\ Live(runs[i])
    BY <1>3 DEF Commit, At
  <2>2. /\ t \in Run /\ t.pc = "done" /\ t.engine = "synced" /\ t.gen = runs[i].gen
        /\ t.lease = runs[i].lease /\ t.ended = runs[i].ended /\ t.granted = runs[i].granted
        /\ t.mint = runs[i].mint
    BY <1>1, <2>1 DEF Run
  <2>3. /\ h.generation = group.generation /\ h.start = group.start
        /\ h.handle = group.handle /\ h.session = group.session
        /\ h.latch = group.latch
    BY <1>1 DEF GroupRuntime
  <2> HIDE DEF t, h
  <2>4. OwnedRun(group, i, t)
    BY <1>1, <2>1, <2>2 DEF OwnedRun, Current, Live
  <2>5. Quiet(i, h, t)
    BY <2>1, <2>2, <2>3, <2>4 DEF Quiet, Current, Live
  <2> QED BY <2>5, QuietStep
<1> QED BY <1>2, <1>3

\* A group with an engine, or whose session's run has ended, has no run under way.
LEMMA NothingUnderway ==
    ASSUME GroupInv, ~torn, NEW i \in DOMAIN runs, runs[i].pc = "done",
           i = group.handle \/ i = group.session
    PROVE  group.start # 0 /\ group.latch = 0 /\ \A j \in DOMAIN runs : ~Current(group, runs[j])
<1>1. Owned(group, runs) /\ RestartInv(group, runs) /\ i # 0
  BY OwnedParts
<1>2. ASSUME NEW j \in DOMAIN runs, Current(group, runs[j])
      PROVE  FALSE
  <2>1. OwnedRun(group, j, runs[j]) /\ j # i
    BY <1>1, <1>2 DEF Owned, Current
  <2> QED BY <1>1, <1>2, <2>1 DEF OwnedRun
<1>3. group.latch = 0
  BY <1>1, <1>2 DEF RestartInv, IsRestart
<1> QED BY <1>1, <1>2, <1>3 DEF Owned

\* onStreamEnd and onRevoked: the run i of the engine is changed, then a restart
\* is asked for.
LEMMA OwnedAsk ==
    ASSUME GroupInv, ~torn, NEW i \in DOMAIN runs, runs[i].pc = "done",
           i = group.handle \/ i = group.session,
           NEW h \in GroupRuntime, NEW t \in Run,
           h.generation = group.generation, h.start = group.start, h.handle = group.handle,
           h.session = group.session, h.latch = group.latch,
           t.kind = runs[i].kind, t.gen = runs[i].gen, t.pc = "done", OwnedRun(group, i, t),
           Become(ScheduleRestart(h, [runs EXCEPT ![i] = t]))
    PROVE  Owned(group', runs') /\ Reading(group', runs')
<1> DEFINE q == [runs EXCEPT ![i] = t]
<1>1. Owned(group, runs) /\ RestartInv(group, runs) /\ runs \in Seq(Run)
  BY OwnedParts DEF RestartInv, Typed
<1>2. group.start # 0 /\ group.latch = 0 /\ \A j \in DOMAIN runs : ~Current(group, runs[j])
  BY NothingUnderway
<1>3. /\ DOMAIN q = DOMAIN runs /\ q[i] = t
      /\ \A j \in DOMAIN runs : j # i => q[j] = runs[j]
  BY <1>1, PutRun
<1>4. RestartInv(h, q)
  BY <1>1, UpdateKeepsRestart
<1>5. Owned(h, q)
  <2>1. OwnedRun(h, i, t) /\ \A j \in DOMAIN runs : OwnedRun(h, j, runs[j])
    BY <1>1, OwnedRunKept DEF Owned
  <2> QED BY <1>1, <1>2, <2>1, PutKeepsOwned
<1>6. Become(ScheduleRestart(h, q))
  OBVIOUS
<1> HIDE DEF q
<1>7. \A j \in DOMAIN q : ~Current(h, q[j])
  BY <1>2, <1>3 DEF Current
<1> QED BY <1>2, <1>4, <1>5, <1>6, <1>7, ScheduleKeepsOwned DEF Become

LEMMA OwnedStreamEnds ==
    ASSUME GroupInv, Windows \cap {"early", "failed_start", "late_mint"} = {},
           NEW i \in DOMAIN runs, NEW s \in Shapes, StreamEnds(i, s)
    PROVE  Owned(group', runs') /\ Reading(group', runs')
<1> DEFINE t == [runs[i] EXCEPT !.ended = runs[i].ended \cup {s}]
<1>1. group \in GroupRuntime /\ runs[i] \in Run /\ OwnedRun(group, i, runs[i])
  BY OwnedParts
<1>2. runs[i].pc = "done" /\ i = group.handle /\ ~torn
  BY <1>1 DEF StreamEnds, OwnedRun
<1>3. /\ t \in Run /\ t.pc = "done" /\ t.engine = runs[i].engine /\ t.gen = runs[i].gen
      /\ t.kind = runs[i].kind /\ t.lease = runs[i].lease /\ t.mint = runs[i].mint
  BY <1>1, <1>2 DEF Run
<1>4. Become(ScheduleRestart(group, [runs EXCEPT ![i] = t]))
  BY DEF StreamEnds
<1> HIDE DEF t
<1>5. OwnedRun(group, i, t)
  BY <1>1, <1>2, <1>3 DEF OwnedRun, Current, Live
<1> QED BY <1>1, <1>2, <1>3, <1>4, <1>5, OwnedAsk

LEMMA OwnedMintAnswered ==
    ASSUME GroupInv, Windows \cap {"early", "failed_start", "late_mint"} = {},
           NEW i \in DOMAIN runs, MintAnswered(i)
    PROVE  Owned(group', runs') /\ Reading(group', runs')
<1> DEFINE revoked == runs[i].token \ grants
           t == [runs[i] EXCEPT !.mint = "idle", !.token = runs[i].token \cap grants]
           h == [group EXCEPT !.pending = group.pending \cup revoked]
<1>1. group \in GroupRuntime /\ runs[i] \in Run /\ OwnedRun(group, i, runs[i])
  BY OwnedParts
<1>2. runs[i].token \in SUBSET Shapes /\ group.pending \in SUBSET Shapes
  BY <1>1 DEF Run, GroupRuntime
<1>3. runs[i].pc = "done" /\ i = group.session /\ ~torn
  BY <1>1 DEF MintAnswered, OwnedRun
<1>4. /\ t \in Run /\ t.pc = "done" /\ t.engine = runs[i].engine /\ t.gen = runs[i].gen
      /\ t.kind = runs[i].kind /\ t.lease = runs[i].lease /\ t.mint = "idle"
      /\ t.granted = runs[i].granted /\ t.ended = runs[i].ended
  BY <1>1, <1>2, <1>3 DEF Run
<1>5. /\ h \in GroupRuntime /\ h.generation = group.generation /\ h.start = group.start
      /\ h.handle = group.handle /\ h.session = group.session /\ h.latch = group.latch
  <2>1. group.pending \cup revoked \in SUBSET Shapes
    BY <1>2
  <2> HIDE DEF revoked
  <2> QED BY <1>1, <2>1 DEF GroupRuntime
<1>6. \/ group' = group /\ runs' = [runs EXCEPT ![i] = t]
      \/ Become(ScheduleRestart(h, [runs EXCEPT ![i] = t]))
  <2>1. IF revoked = {} THEN group' = group /\ runs' = [runs EXCEPT ![i] = t]
        ELSE Become(ScheduleRestart(h, [runs EXCEPT ![i] = t]))
    BY DEF MintAnswered
  <2> HIDE DEF revoked, t, h
  <2> QED BY <2>1
<1> HIDE DEF t, h
<1>7. OwnedRun(group, i, t)
  BY <1>1, <1>3, <1>4 DEF OwnedRun, Current, Live
<1>8. CASE group' = group /\ runs' = [runs EXCEPT ![i] = t]
  <2>1. Quiet(i, group, t)
    BY <1>3, <1>4, <1>7, <1>8 DEF Quiet, Current, Live
  <2> QED BY <2>1, QuietStep
<1>9. CASE Become(ScheduleRestart(h, [runs EXCEPT ![i] = t]))
  BY <1>3, <1>4, <1>5, <1>7, <1>9, OwnedAsk
<1> QED BY <1>6, <1>8, <1>9

LEMMA OwnedOpenFails ==
    ASSUME GroupInv, Windows \cap {"early", "failed_start", "late_mint"} = {},
           NEW i \in DOMAIN runs, OpenFails(i)
    PROVE  Owned(group', runs') /\ Reading(group', runs')
<1> DEFINE u == Unsubscribe(runs[i])
           t == [u EXCEPT !.pc = "done"]
           q == [runs EXCEPT ![i] = t]
           h == [group EXCEPT !.latch = Latch(group, runs[i])]
<1>1. /\ group \in GroupRuntime /\ runs[i] \in Run /\ OwnedRun(group, i, runs[i])
      /\ Owned(group, runs) /\ RestartInv(group, runs)
      /\ Latch(group, runs[i]) \in {group.latch, 0} /\ runs[i].pc # "done"
  BY OwnedParts DEF OpenFails, At
<1>2. /\ t \in Run /\ t.pc = "done" /\ t.engine = "none" /\ t.gen = runs[i].gen
      /\ t.kind = runs[i].kind /\ t.lease = runs[i].lease /\ t.mint = runs[i].mint
  <2>1. /\ u \in Run /\ u.engine = "none" /\ u.gen = runs[i].gen /\ u.kind = runs[i].kind
        /\ u.lease = runs[i].lease /\ u.mint = runs[i].mint
    BY <1>1, UnsubscribeType DEF SameRun
  <2> HIDE DEF u
  <2> QED BY <2>1 DEF Run
<1>3. /\ h \in GroupRuntime /\ h.generation = group.generation /\ h.start = group.start
      /\ h.handle = group.handle /\ h.session = group.session /\ h.latch = Latch(group, runs[i])
  <2>1. Latch(group, runs[i]) \in Nat
    BY <1>1, LatchIsNat
  <2> QED BY <1>1, <2>1 DEF GroupRuntime
<1>4. \/ runs[i].kind = "restart" /\ Become(RestartFailed(group, q, runs[i]))
      \/ runs[i].kind = "start" /\ Become(StartFailed(group, q)) /\ ~Abandoned(i)
  <2>1. \/ runs[i].kind = "restart" /\ Become(RestartFailed(group, q, runs[i]))
        \/ runs[i].kind # "restart" /\ Become(StartFailed(group, q))
    BY DEF OpenFails
  <2>2. runs[i].kind = "start" => ~Abandoned(i)
    BY DEF OpenFails
  <2>3. runs[i].kind \in {"start", "restart"}
    BY <1>1 DEF Run
  <2> HIDE DEF t, q
  <2> QED BY <2>1, <2>2, <2>3
<1>5. runs[i].kind = "start" => h = group
  BY <1>1 DEF Latch, GroupRuntime
<1>6. \/ ~Abandoned(i) /\ Become(ScheduleRestart(h, q))
      \/ Abandoned(i) /\ Become(Pair(h, q))
  <2> HIDE DEF t, q
  <2>1. CASE runs[i].kind = "restart"
    BY <1>4, <2>1 DEF RestartFailed, Abandoned
  <2>2. CASE runs[i].kind = "start"
    BY <1>4, <1>5, <2>2 DEF StartFailed
  <2> QED BY <1>4, <2>1, <2>2
<1> HIDE DEF u, t, h
<1>7. CASE Abandoned(i)
  <2>1. OwnedRun(group, i, t)
    BY <1>1, <1>2 DEF OwnedRun, Current, Live
  <2>2. group' = h /\ runs' = q
    BY <1>6, <1>7 DEF Become, Pair
  <2>3. Quiet(i, h, t)
    BY <1>1, <1>2, <1>3, <1>7, <2>1, <2>2 DEF Quiet, Abandoned, Current
  <2> QED BY <2>3, QuietStep
<1>8. CASE ~Abandoned(i)
  <2>1. ~torn /\ Current(group, runs[i])
    BY <1>1, <1>8, OwnedParts
  <2>2. group.start # 0
    BY <1>1, <2>1 DEF OwnedRun
  <2>3. h.latch = 0
    <3>1. CASE IsRestart(group, runs[i])
      BY <1>3, <3>1 DEF Latch, IsRestart, Current
    <3>2. CASE ~IsRestart(group, runs[i])
      <4>1. group.latch = 0
        BY <1>1, <2>1, <3>2 DEF RestartInv, Owned, IsRestart
      <4> QED BY <1>1, <1>3, <4>1
    <3> QED BY <3>1, <3>2
  <2>4. RestartInv(h, q)
    BY <1>1, <1>2, <1>3, ReturnKeepsRestart
  <2>5. OwnedRun(h, i, t) /\ \A j \in DOMAIN runs : OwnedRun(h, j, runs[j])
    <3>1. OwnedRun(group, i, t)
      BY <1>1, <1>2 DEF OwnedRun, Current, Live
    <3> QED BY <1>1, <1>3, <3>1, OwnedRunKept DEF Owned
  <2>6. Owned(h, q)
    BY <1>1, <1>2, <1>3, <2>2, <2>5, PutKeepsOwned
  <2>7. \A j \in DOMAIN q : ~Current(h, q[j])
    <3>1. /\ DOMAIN q = DOMAIN runs /\ q[i] = t
          /\ \A j \in DOMAIN runs : j # i => q[j] = runs[j]
      BY <1>1, <1>2, PutRun DEF RestartInv, Typed
    <3> HIDE DEF q
    <3> QED BY <1>1, <1>2, <1>3, <2>1, <3>1 DEF Owned, Current
  <2>8. Become(ScheduleRestart(h, q))
    BY <1>6, <1>8
  <2> HIDE DEF q
  <2> QED BY <1>3, <2>1, <2>2, <2>3, <2>4, <2>6, <2>7, <2>8, ScheduleKeepsOwned DEF Become
<1> QED BY <1>7, <1>8

LEMMA OwnedStart ==
    ASSUME GroupInv, EnsureGroupStarted
    PROVE  Owned(group', runs') /\ Reading(group', runs')
<1> DEFINE n == NewRun(group, "start", "subscribe")
           N == Len(runs) + 1
           h == [group EXCEPT !.start = N]
           q == Append(runs, n)
<1>1. /\ group \in GroupRuntime /\ runs \in Seq(Run) /\ N \in Nat /\ N # 0
      /\ Owned(group, runs) /\ group.start = 0
      /\ \A i \in DOMAIN runs : i # 0 /\ i # N
  BY Parts DEF GroupInv, EnsureGroupStarted
<1>2. /\ n \in Run /\ n.pc = "subscribe" /\ n.gen = group.generation
      /\ n.engine = "none" /\ n.lease = "none" /\ n.mint = "idle" /\ n.ended = {}
  BY <1>1, NewRunType
<1>3. group' = h /\ runs' = q
  BY DEF EnsureGroupStarted
<1>4. /\ DOMAIN q = DOMAIN runs \cup {N}
      /\ q[N] = n /\ \A i \in DOMAIN runs : q[i] = runs[i]
  BY <1>1, <1>2, AppendRun
<1> HIDE DEF N
<1>5. /\ h.generation = group.generation /\ h.start = N
      /\ h.handle = group.handle /\ h.session = group.session /\ h.latch = group.latch
  BY <1>1 DEF GroupRuntime
<1> HIDE DEF n, h, q
<1>6. \A i \in DOMAIN runs : OwnedRun(group, i, runs[i])
  BY <1>1 DEF Owned
<1>7. ~torn => group.handle = 0 /\ group.session = 0
  BY <1>1 DEF Owned
<1>8. ASSUME NEW i \in DOMAIN runs
      PROVE  OwnedRun(h, i, q[i]) /\ (~torn => ~Current(h, q[i]))
  <2>1. OwnedRun(group, i, runs[i]) /\ q[i] = runs[i]
    BY <1>4, <1>6
  <2> QED BY <1>1, <1>5, <2>1 DEF OwnedRun, Current
<1>9. Current(h, q[N])
  BY <1>2, <1>4, <1>5 DEF Current
<1>10. group.handle # N
  BY Parts DEF GroupInv, Inv, Pointers, N
<1>11. OwnedRun(h, N, q[N])
  BY <1>1, <1>2, <1>4, <1>5, <1>7, <1>10 DEF OwnedRun, Current, Live
<1>12. Owned(h, q)
  BY <1>1, <1>4, <1>5, <1>8, <1>11 DEF Owned
<1>13. Reading(h, q)
  BY <1>4, <1>9 DEF Reading
<1> QED BY <1>3, <1>12, <1>13

\* stopGroup and the teardown close the engine and the session.
LEMMA OwnedStop ==
    ASSUME GroupInv, Desync \/ TearDown
    PROVE  Owned(group, runs)' /\ Reading(group, runs)'
<1> DEFINE q == TakeDown(group, runs)
<1>1. /\ group \in GroupRuntime /\ runs \in Seq(Run) /\ group.generation \in Nat
      /\ RestartInv(group, runs) /\ Owned(group, runs) /\ \A i \in DOMAIN runs : i # 0
  BY Parts DEF GroupInv, Inv, GroupRuntime
<1>2. DOMAIN q = DOMAIN runs /\ \A i \in DOMAIN runs : TakenDown(group, i, q[i], runs[i])
  BY <1>1, TakeDownRuns
<1>3. runs' = q /\ ~torn
  BY DEF Desync, Become, Pair, TearDown
<1>4. group' \in GroupRuntime /\ group'.generation = group.generation + 1
  <2>1. CASE Desync
    BY <1>1, <2>1 DEF Desync, Become, Pair, Stopped, GroupRuntime
  <2>2. CASE TearDown
    <3> DEFINE m == group.generation + 1
    <3>1. m \in Nat /\ group' = [group EXCEPT !.generation = m]
      BY <1>1, <2>2 DEF TearDown
    <3> HIDE DEF m
    <3>2. group' \in GroupRuntime /\ group'.generation = m
      BY <1>1, <3>1 DEF GroupRuntime
    <3> QED BY <3>2 DEF m
  <2> QED BY <2>1, <2>2
<1>5. \A i \in DOMAIN q : q[i].gen # group'.generation
  BY <1>1, <1>4, StopEndsRuns
<1> HIDE DEF q
<1>6. ASSUME NEW i \in DOMAIN runs
      PROVE  /\ q[i].lease # "held" /\ ~(q[i].pc = "done" /\ Live(q[i]))
             /\ (q[i].mint = "posted" => q[i].pc = "done")
             /\ (Live(q[i]) => q[i].pc \in {"opening", "done"})
             /\ (q[i].pc = "opening" => Live(q[i])) /\ (q[i].pc # "done" => q[i].ended = {})
             /\ i = group.handle => q[i].pc = "done"
  <2>1. OwnedRun(group, i, runs[i]) /\ TakenDown(group, i, q[i], runs[i])
    BY <1>1, <1>2 DEF Owned
  <2> QED BY <2>1 DEF OwnedRun, TakenDown, SameRun, Live
<1>7. group'.handle \in {0, group.handle}
  <2>1. CASE Desync
    BY <2>1 DEF Desync, Become, Pair, Stopped
  <2>2. CASE TearDown
    BY <1>1, <2>2 DEF TearDown, GroupRuntime
  <2> QED BY <2>1, <2>2
<1>8. \A i \in DOMAIN runs : ~Current(group', q[i])
  BY <1>2, <1>5 DEF Current
<1>9. ~torn' => group'.start = 0 /\ group'.handle = 0 /\ group'.session = 0 /\ group'.latch = 0
  <2>1. CASE Desync
    BY <2>1 DEF Desync, Become, Pair, Stopped
  <2>2. CASE TearDown
    BY <2>2 DEF TearDown
  <2> QED BY <2>1, <2>2
<1> QED BY <1>1, <1>2, <1>3, <1>6, <1>7, <1>8, <1>9 DEF Owned, OwnedRun, Reading, Current, Live

LEMMA GroupInvStep ==
    ASSUME GroupInv, [Next]_vars, Windows \cap {"early", "failed_start", "late_mint"} = {}
    PROVE  GroupInv'
<1>1. Inv'
  BY InvStep DEF GroupInv
<1>2. SUFFICES Owned(group, runs)' /\ Reading(group, runs)'
  BY <1>1 DEF GroupInv
<1>3. ASSUME torn' = torn, Owned(group', runs'), Reading(group', runs')
      PROVE  Owned(group, runs)' /\ Reading(group, runs)'
  BY <1>3 DEF Owned, OwnedRun, Reading, Current, Live
<1>4. CASE EnsureGroupStarted
  BY <1>3, <1>4, OwnedStart DEF EnsureGroupStarted
<1>5. ASSUME NEW i \in DOMAIN runs, Open(i)
      PROVE  Owned(group, runs)' /\ Reading(group, runs)'
  <2>1. torn' = torn
    BY <1>5 DEF Open, Wake, Subscribe, SubscribeAbandoned, ClearAbandoned,
                ClearNothingGranted, ClearAndOpen, ClearRows, StreamAnswers, Opened
  <2> QED BY <1>3, <1>5, <2>1, OwnedOpen
<1>6. ASSUME NEW i \in DOMAIN runs, Mint(i) \/ MintFails(i) \/ Commit(i)
      PROVE  Owned(group, runs)' /\ Reading(group, runs)'
  <2>1. torn' = torn
    BY <1>6 DEF Mint, MintFails, Commit
  <2> QED BY <1>3, <1>6, <2>1, OwnedWork
<1>7. ASSUME NEW i \in DOMAIN runs, OpenFails(i)
      PROVE  Owned(group, runs)' /\ Reading(group, runs)'
  <2>1. torn' = torn
    BY <1>7 DEF OpenFails
  <2> QED BY <1>3, <1>7, <2>1, OwnedOpenFails
<1>8. ASSUME NEW i \in DOMAIN runs, MintAnswered(i)
      PROVE  Owned(group, runs)' /\ Reading(group, runs)'
  <2>1. torn' = torn
    BY <1>8 DEF MintAnswered
  <2> QED BY <1>3, <1>8, <2>1, OwnedMintAnswered
<1>9. ASSUME NEW i \in DOMAIN runs, NEW s \in Shapes, StreamEnds(i, s)
      PROVE  Owned(group, runs)' /\ Reading(group, runs)'
  <2>1. torn' = torn
    BY <1>9 DEF StreamEnds
  <2> QED BY <1>3, <1>9, <2>1, OwnedStreamEnds
<1>10. CASE Desync \/ TearDown
  BY <1>10, OwnedStop
<1>11. CASE DesyncForgets \/ DesyncTruncates \/ GrantsChange \/ UNCHANGED vars
  <2>1. group' = group /\ runs' = runs /\ torn' = torn
    BY <1>11 DEF DesyncForgets, DesyncTruncates, GrantsChange, vars
  <2> QED BY <1>3, <2>1 DEF GroupInv
<1> QED BY <1>4, <1>5, <1>6, <1>7, <1>8, <1>9, <1>10, <1>11 DEF Next, Progress

LEMMA GroupInvInit == Init => GroupInv
<1> SUFFICES ASSUME Init PROVE GroupInv
  OBVIOUS
<1>1. Inv
  BY InvInit
<1>2. DOMAIN runs = {} /\ group.start = 0 /\ group.handle = 0 /\ group.session = 0
      /\ group.latch = 0
  BY DEF Init
<1> QED BY <1>1, <1>2 DEF GroupInv, Owned, Reading

LEMMA GroupInvImplies ==
    ASSUME GroupInv
    PROVE  EngineIsTheGroups /\ SessionsAreReleased /\ ReadingOrRecovering
<1>1. \A i \in DOMAIN runs : OwnedRun(group, i, runs[i]) /\ i # 0
  BY Parts DEF GroupInv, Owned
<1>2. EngineIsTheGroups
  BY <1>1 DEF EngineIsTheGroups, OwnedRun, At
<1>3. SessionsAreReleased
  BY <1>1 DEF SessionsAreReleased, OwnedRun
<1>4. ReadingOrRecovering
  BY <1>1 DEF GroupInv, Reading, ReadingOrRecovering, Underway, Current
<1> QED BY <1>2, <1>3, <1>4

\* Whatever was suspended when the group was stopped, restarted or torn down, the
\* only engine that reads and the only session that is held are the ones the group
\* would close, and a started group reads or recovers: for any number of starts,
\* stops and faults, when no stream ends before its engine is installed, no first
\* start fails after a stop and no re-mint answers after its session is closed.
THEOREM OwnedTheorem ==
    ASSUME Windows \cap {"early", "failed_start", "late_mint"} = {}
    PROVE  Spec => [](EngineIsTheGroups /\ SessionsAreReleased /\ ReadingOrRecovering)
<1>1. GroupInv /\ [Next]_vars => GroupInv'
  BY GroupInvStep
<1> QED BY <1>1, GroupInvInit, GroupInvImplies, PTL DEF Spec

-----------------------------------------------------------------------------
(***************************************************************************)
(* The rows, the cursor row and what onRefused announced, in a group none  *)
(* of whose windows is open.  Outside desync() the cursor row names exactly *)
(* the shapes that have rows.  What makes that inductive is what each run  *)
(* still holds of an earlier state: the reading of the cursor row it will  *)
(* write back, and the grants its engine will commit.                      *)
(***************************************************************************)
\* A run about to write the cursor row back from its reading of it.
Clearing(run) == run.pc = "clear" /\ run.known \ run.granted # {}

\* An engine that commits, or will once its streams have answered.
Serving(g, run) == Live(run) /\ (run.pc = "done" \/ Current(g, run))

RowsRun(g, i, run) ==
    /\ Clearing(run) => run.known = cursor /\ (~torn => Current(g, run))
    /\ ~torn /\ Current(g, run) /\ run.pc = "clear" =>
          run.known = cursor /\ told \cap run.granted = {}
    /\ ~torn /\ Serving(g, run) =>
          /\ run.known \subseteq rows /\ rows \subseteq run.granted
          /\ told \cap run.granted = {} /\ g.session = i

RowsInv ==
    /\ \A i \in DOMAIN runs : RowsRun(group, i, runs[i])
    /\ \A i, j \in DOMAIN runs : Clearing(runs[i]) /\ Clearing(runs[j]) => i = j
    /\ desync # "forgotten" => cursor = rows
    /\ desync = "forgotten" => cursor = {}
    /\ desync # "idle" => group.start = 0 /\ \A i \in DOMAIN runs : ~Clearing(runs[i])
    /\ told \cap rows = {}

\* A run that holds nothing the rows depend on, and one that holds what it held.
Harmless(g, run) == run.pc # "clear" /\ (torn \/ ~Serving(g, run))

Follows(h, t, u) ==
    /\ t.granted = u.granted /\ t.known = u.known /\ t.gen = u.gen
    /\ t.pc = "clear" => u.pc = "clear"
    /\ ~torn /\ Serving(h, t) => Serving(group, u) /\ h.session = group.session

Untouched ==
    /\ rows' = rows /\ cursor' = cursor /\ told' = told /\ torn' = torn /\ desync' = desync
    /\ group'.generation = group.generation
    /\ group'.start = group.start \/ desync = "idle"

LEMMA RowsFramed ==
    ASSUME RowsInv, Untouched,
           \A i \in DOMAIN runs' : \/ Harmless(group', runs'[i])
                                   \/ i \in DOMAIN runs /\ Follows(group', runs'[i], runs[i])
    PROVE  RowsInv'
<1>1. ASSUME NEW i \in DOMAIN runs'
      PROVE  /\ RowsRun(group, i, runs[i])'
             /\ Clearing(runs[i])' => i \in DOMAIN runs /\ Clearing(runs[i])
  <2>1. CASE Harmless(group', runs'[i])
    BY <2>1 DEF Harmless, RowsRun, Clearing, Serving, Live, Current, Untouched
  <2>2. CASE i \in DOMAIN runs /\ Follows(group', runs'[i], runs[i])
    <3>1. RowsRun(group, i, runs[i])
      BY <2>2 DEF RowsInv
    <3>2. Clearing(runs[i])' => Clearing(runs[i])
      BY <2>2 DEF Clearing, Follows
    <3>3. ~torn' /\ Serving(group, runs[i])' => Serving(group, runs[i]) /\ group'.session = group.session
      BY <2>2 DEF Follows, Serving, Live, Current, Untouched
    <3>4. runs'[i].pc = "clear" /\ Current(group, runs[i])' => runs[i].pc = "clear" /\ Current(group, runs[i])
      BY <2>2 DEF Follows, Current, Untouched
    <3>5. (Clearing(runs[i])' /\ Current(group, runs[i]) => Current(group, runs[i])')
      BY <2>2 DEF Follows, Current, Untouched, Clearing
    <3>6. runs'[i].granted = runs[i].granted /\ runs'[i].known = runs[i].known
      BY <2>2 DEF Follows
    <3> QED BY <2>2, <3>1, <3>2, <3>3, <3>4, <3>5, <3>6 DEF RowsRun, Untouched
  <2> QED BY <1>1, <2>1, <2>2
<1>2. \A i, j \in DOMAIN runs' : Clearing(runs[i])' /\ Clearing(runs[j])' => i = j
  BY <1>1 DEF RowsInv, Clearing
<1>3. desync' # "idle" => group'.start = 0 /\ \A i \in DOMAIN runs' : ~Clearing(runs[i])'
  BY <1>1 DEF RowsInv, Untouched
<1>4. /\ desync' # "forgotten" => cursor' = rows'
      /\ desync' = "forgotten" => cursor' = {}
      /\ told' \cap rows' = {}
  BY DEF RowsInv, Untouched
<1> QED BY <1>1, <1>2, <1>3, <1>4 DEF RowsInv

Ledgers == rows' = rows /\ cursor' = cursor /\ told' = told /\ torn' = torn /\ desync' = desync

SameGroup(h) ==
    /\ h \in GroupRuntime /\ h.generation = group.generation /\ h.start = group.start
    /\ h.session = group.session /\ h.handle = group.handle

\* One run changes.
LEMMA RowsPut ==
    ASSUME GroupInv, RowsInv, Ledgers, NEW i \in DOMAIN runs, NEW h, NEW t \in Run,
           group' = h, runs' = [runs EXCEPT ![i] = t],
           h.generation = group.generation, h.start = group.start, h.session = group.session,
           Harmless(group, t) \/ Follows(group, t, runs[i])
    PROVE  RowsInv'
<1>1. /\ DOMAIN runs' = DOMAIN runs /\ runs'[i] = t
      /\ \A j \in DOMAIN runs : j # i => runs'[j] = runs[j]
  BY PutRun, Parts DEF GroupInv
<1>2. Untouched
  BY DEF Untouched, Ledgers
<1>3. \A j \in DOMAIN runs : Follows(h, runs[j], runs[j])
  BY DEF Follows, Serving, Current
<1>4. Harmless(h, t) \/ Follows(h, t, runs[i])
  BY DEF Follows, Harmless, Serving, Current
<1> QED BY <1>1, <1>2, <1>3, <1>4, RowsFramed

\* One run ends, and a restart is asked for.
LEMMA RowsSchedule ==
    ASSUME GroupInv, GroupInv', RowsInv, Ledgers, NEW i \in DOMAIN runs, NEW h, NEW t \in Run,
           SameGroup(h), t.pc = "done",
           Harmless(group, t) \/ Follows(group, t, runs[i]),
           Become(ScheduleRestart(h, [runs EXCEPT ![i] = t]))
    PROVE  RowsInv'
<1> DEFINE q == [runs EXCEPT ![i] = t]
<1>1. CASE torn \/ h.latch # 0
  <2>1. group' = h /\ runs' = q
    BY <1>1 DEF Become, ScheduleRestart, Pair
  <2> QED BY <2>1, RowsPut DEF SameGroup
<1>2. CASE ~torn /\ h.latch = 0
  <2> DEFINE d == TakeDown(h, q)
             n == NewRun(h, "restart", "backoff")
             N == Len(q) + 1
             g == [h EXCEPT !.latch = N, !.handle = 0, !.session = 0]
  <2>1. group' = g /\ runs' = Append(d, n)
    BY <1>2 DEF Become, ScheduleRestart, Pair
  <2>2. /\ q \in Seq(Run) /\ DOMAIN q = DOMAIN runs /\ q[i] = t /\ Len(q) \in Nat /\ N \in Nat
        /\ \A j \in DOMAIN runs : j # i => q[j] = runs[j]
    BY PutRun, Parts DEF GroupInv
  <2>3. h \in GroupRuntime
    BY DEF SameGroup
  <2> HIDE DEF q
  <2>4. /\ d \in Seq(Run) /\ Len(d) = Len(q) /\ DOMAIN d = DOMAIN q
        /\ \A j \in DOMAIN q : TakenDown(h, j, d[j], q[j])
    BY <2>2, <2>3, TakeDownRuns
  <2>5. n \in Run /\ n.pc = "backoff" /\ n.engine = "none"
    BY <2>3, NewRunType
  <2> HIDE DEF d, n
  <2>6. DOMAIN runs' = DOMAIN runs \cup {N} /\ runs'[N] = n /\ \A j \in DOMAIN runs : runs'[j] = d[j]
    BY <2>1, <2>2, <2>4, <2>5, AppendRun
  <2>7. /\ group'.generation = group.generation /\ group'.start = group.start
        /\ group'.session = 0 /\ group'.handle = 0
    <3> HIDE DEF N
    <3>1. /\ g.generation = h.generation /\ g.start = h.start
          /\ g.session = 0 /\ g.handle = 0
      BY <2>3 DEF GroupRuntime
    <3> HIDE DEF g
    <3> QED BY <2>1, <3>1 DEF SameGroup
  <2>8. ASSUME NEW j \in DOMAIN runs
        PROVE  Harmless(group', runs'[j]) \/ Follows(group', runs'[j], runs[j])
    <3>1. OwnedRun(group, j, runs[j])' /\ j # 0 /\ ~torn'
      BY <1>2, <2>6, OwnedParts DEF GroupInv, Owned, Ledgers
    <3>2. ~Serving(group, runs[j])'
      BY <2>7, <3>1 DEF OwnedRun, Serving, Live, Current
    <3>3. ~Serving(group', runs'[j])
      BY <3>2 DEF Serving, Live, Current
    <3>4. TakenDown(h, j, runs'[j], q[j])
      BY <2>2, <2>4, <2>6
    <3>5. CASE j = i
      BY <2>2, <3>3, <3>4, <3>5 DEF Harmless, TakenDown, SameRun
    <3>6. CASE j # i /\ j = group.handle
      <4>1. runs[j].pc = "done"
        BY <3>6, OwnedParts DEF OwnedRun
      <4> QED BY <2>2, <3>3, <3>4, <3>6, <4>1 DEF Harmless, TakenDown, SameRun
    <3>7. CASE j # i /\ j # group.handle
      BY <2>2, <3>3, <3>4, <3>7 DEF Follows, TakenDown, SameRun, SameGroup
    <3> QED BY <3>5, <3>6, <3>7
  <2>9. Harmless(group', n)
    BY <2>5 DEF Harmless, Serving, Live
  <2>10. Untouched
    BY <2>7 DEF Untouched, Ledgers
  <2> QED BY <2>6, <2>8, <2>9, <2>10, RowsFramed
<1> QED BY <1>1, <1>2

\* Nothing else serves or clears while the group has a run under way.
LEMMA RowsAlone ==
    ASSUME GroupInv, RowsInv, ~torn, NEW i \in DOMAIN runs, Current(group, runs[i])
    PROVE  /\ desync = "idle" /\ cursor = rows
           /\ \A j \in DOMAIN runs : j # i => /\ ~Clearing(runs[j]) /\ ~Serving(group, runs[j])
                                              /\ ~Current(group, runs[j])
<1>1. group.start # 0 /\ group.handle = 0
  BY OwnedParts DEF OwnedRun
<1>2. desync = "idle" /\ cursor = rows
  BY <1>1 DEF RowsInv
<1>3. ASSUME NEW j \in DOMAIN runs, j # i
      PROVE  ~Clearing(runs[j]) /\ ~Serving(group, runs[j]) /\ ~Current(group, runs[j])
  <2>1. OwnedRun(group, j, runs[j]) /\ RowsRun(group, j, runs[j]) /\ j # 0
    BY OwnedParts DEF RowsInv
  <2>2. ~Current(group, runs[j])
    BY <1>3, OwnedParts DEF Owned
  <2> QED BY <1>1, <2>1, <2>2 DEF OwnedRun, RowsRun, Serving
<1> QED BY <1>2, <1>3

\* The run that is under way changes, and what the ledgers hold with it.
LEMMA RowsMove ==
    ASSUME GroupInv, RowsInv, ~torn, torn' = torn, desync' = desync,
           NEW i \in DOMAIN runs, Current(group, runs[i]),
           NEW h, NEW t \in Run, group' = h, runs' = [runs EXCEPT ![i] = t],
           h.generation = group.generation,
           cursor' = rows', told' \cap rows' = {}, RowsRun(group, i, runs[i])'
    PROVE  RowsInv'
<1>1. /\ DOMAIN runs' = DOMAIN runs /\ runs'[i] = t
      /\ \A j \in DOMAIN runs : j # i => runs'[j] = runs[j]
  BY PutRun, Parts DEF GroupInv
<1>2. /\ desync = "idle"
      /\ \A j \in DOMAIN runs : j # i => /\ ~Clearing(runs[j]) /\ ~Serving(group, runs[j])
                                         /\ ~Current(group, runs[j])
  BY RowsAlone
<1>3. ASSUME NEW j \in DOMAIN runs, j # i
      PROVE  RowsRun(group, j, runs[j])' /\ ~Clearing(runs[j])'
  <2>1. runs'[j] = runs[j]
    BY <1>1, <1>3
  <2>2. ~Clearing(runs[j])' /\ ~Serving(group, runs[j])' /\ ~Current(group, runs[j])'
    BY <1>2, <1>3, <2>1 DEF Clearing, Serving, Current, Live
  <2> QED BY <2>2 DEF RowsRun
<1>5. \A j \in DOMAIN runs' : RowsRun(group, j, runs[j])'
  BY <1>1, <1>3
<1>6. \A j, k \in DOMAIN runs' : Clearing(runs[j])' /\ Clearing(runs[k])' => j = k
  BY <1>1, <1>3
<1> QED BY <1>2, <1>5, <1>6 DEF RowsInv

LEMMA RowsSubscribe ==
    ASSUME GroupInv, RowsInv, NEW i \in DOMAIN runs, Subscribe(i)
    PROVE  RowsInv'
<1> DEFINE l == IF grants = {} THEN "none" ELSE "held"
           t == [runs[i] EXCEPT !.pc = "clear", !.granted = grants, !.token = grants,
                                !.known = cursor, !.lease = l]
           h == [group EXCEPT !.session = i]
<1>1. /\ group \in GroupRuntime /\ runs[i] \in Run /\ OwnedRun(group, i, runs[i])
      /\ runs[i].pc = "subscribe" /\ ~torn /\ Current(group, runs[i])
  BY OwnedParts DEF Subscribe, At
<1>2. grants \in SUBSET Shapes /\ cursor \in SUBSET Shapes
  BY DEF GroupInv, Inv, Stores
<1>3. /\ t \in Run /\ t.pc = "clear" /\ t.engine = runs[i].engine /\ t.gen = runs[i].gen
      /\ t.granted = grants /\ t.known = cursor
  <2>1. l \in {"none", "held"}
    OBVIOUS
  <2> HIDE DEF l
  <2> QED BY <1>1, <1>2, <2>1 DEF Run
<1>4. h.generation = group.generation
  BY <1>1 DEF GroupRuntime
<1>5. group' = h /\ runs' = [runs EXCEPT ![i] = t]
  BY DEF Subscribe
<1> HIDE DEF t, h
<1>6. /\ torn' = torn /\ desync' = desync /\ cursor' = cursor /\ rows' = rows
      /\ told' = told \ grants
  BY DEF Subscribe
<1>7. ~Live(t)
  BY <1>1, <1>3 DEF OwnedRun, Live
<1>8. Current(group', t)
  BY <1>1, <1>3, <1>4, <1>5 DEF Current
<1>9. RowsRun(group, i, runs[i])'
  <2>1. told' \cap t.granted = {} /\ t.known = cursor' /\ ~Serving(group', t)
    BY <1>3, <1>6, <1>7 DEF Serving
  <2>2. runs'[i] = t
    BY <1>3, <1>5, PutRun, Parts DEF GroupInv
  <2> QED BY <1>8, <2>1, <2>2 DEF RowsRun, Serving, Live, Current
<1>10. cursor = rows /\ told \cap rows = {}
  BY <1>1, RowsAlone DEF RowsInv
<1>11. cursor' = rows' /\ told' \cap rows' = {}
  BY <1>6, <1>10
<1> QED BY <1>1, <1>3, <1>4, <1>5, <1>6, <1>9, <1>11, RowsMove

\* What the transaction of reconcilePersistedShapes leaves.
LEMMA RowsCleared ==
    ASSUME GroupInv, RowsInv, ~torn, NEW i \in DOMAIN runs, Current(group, runs[i]), ClearRows(i)
    PROVE  /\ rows' = cursor' /\ rows' = runs[i].known \cap runs[i].granted
           /\ told \cap runs[i].granted = {}
<1>1. runs[i].known = cursor /\ told \cap runs[i].granted = {}
  BY DEF RowsInv, RowsRun, ClearRows, At
<1>2. cursor = rows
  BY RowsAlone
<1>3. rows' = runs[i].known \cap runs[i].granted
  BY <1>1, <1>2 DEF ClearRows, Stale
<1>4. CASE Stale(i) = {}
  BY <1>1, <1>2, <1>3, <1>4 DEF ClearRows, Stale
<1>5. CASE Stale(i) # {}
  BY <1>1, <1>3, <1>5 DEF ClearRows
<1> QED BY <1>1, <1>3, <1>4, <1>5

LEMMA RowsNothingGranted ==
    ASSUME GroupInv, RowsInv, NEW i \in DOMAIN runs, ClearNothingGranted(i)
    PROVE  RowsInv' /\ rows' = {} /\ group.session = i /\ runs[i].granted = {}
<1> DEFINE t == [runs[i] EXCEPT !.pc = "done", !.known = {}]
           h == [group EXCEPT !.pending = {}, !.ready = TRUE, !.latch = Latch(group, runs[i])]
<1>1. /\ group \in GroupRuntime /\ runs[i] \in Run /\ OwnedRun(group, i, runs[i])
      /\ runs[i].pc = "clear" /\ ~torn /\ Current(group, runs[i]) /\ runs[i].granted = {}
  BY OwnedParts DEF ClearNothingGranted, ClearRows, At
<1>2. t \in Run /\ t.pc = "done" /\ t.engine = runs[i].engine
  BY <1>1 DEF Run
<1>3. h.generation = group.generation
  BY <1>1 DEF GroupRuntime
<1>4. group' = h /\ runs' = [runs EXCEPT ![i] = t] /\ torn' = torn /\ desync' = desync
  BY DEF ClearNothingGranted, ClearRows
<1> HIDE DEF t, h
<1>5. rows' = cursor' /\ rows' = {}
  BY <1>1, RowsCleared DEF ClearNothingGranted
<1>6. ~Live(t)
  BY <1>1, <1>2 DEF OwnedRun, Live
<1>7. RowsRun(group, i, runs[i])'
  <2>1. runs'[i] = t
    BY <1>2, <1>4, PutRun, Parts DEF GroupInv
  <2> QED BY <1>2, <1>6, <2>1 DEF RowsRun, Serving, Live, Current, Clearing
<1>8. group.session = i
  BY <1>1 DEF OwnedRun
<1>9. cursor' = rows' /\ told' \cap rows' = {}
  BY <1>5
<1> QED BY <1>1, <1>2, <1>3, <1>4, <1>5, <1>7, <1>8, <1>9, RowsMove

LEMMA RowsClearAndOpen ==
    ASSUME GroupInv, RowsInv, NEW i \in DOMAIN runs, ClearAndOpen(i)
    PROVE  RowsInv'
<1> DEFINE k == cursor' \cap runs[i].granted
           t == [runs[i] EXCEPT !.pc = "opening", !.engine = "live", !.known = k]
           h == [group EXCEPT !.pending = {}]
<1>1. /\ group \in GroupRuntime /\ runs[i] \in Run /\ OwnedRun(group, i, runs[i])
      /\ runs[i].pc = "clear" /\ ~torn /\ Current(group, runs[i]) /\ ClearRows(i)
  BY OwnedParts DEF ClearAndOpen, ClearRows, At
<1>2. /\ t \in Run /\ t.pc = "opening" /\ t.known = k /\ t.granted = runs[i].granted
      /\ t.gen = runs[i].gen
  <2>1. k \in SUBSET Shapes
    BY <1>1 DEF Run
  <2> HIDE DEF k
  <2> QED BY <1>1, <2>1 DEF Run
<1>3. h.generation = group.generation /\ h.session = group.session
  BY <1>1 DEF GroupRuntime
<1>4. /\ group' = h /\ runs' = [runs EXCEPT ![i] = t] /\ torn' = torn /\ desync' = desync
      /\ told' = told \cup Announced(i)
  BY DEF ClearAndOpen, ClearRows
<1> HIDE DEF t, h
<1>5. /\ rows' = cursor' /\ rows' \subseteq runs[i].granted /\ k = rows'
      /\ told \cap runs[i].granted = {}
  BY <1>1, RowsCleared
<1>6. told' \cap runs[i].granted = {}
  BY <1>4, <1>5 DEF Announced
<1>7. group'.session = i
  BY <1>1, <1>3, <1>4 DEF OwnedRun
<1>8. RowsRun(group, i, runs[i])'
  <2>1. t.pc # "clear" /\ t.known \subseteq rows' /\ rows' \subseteq t.granted /\ told' \cap t.granted = {}
    BY <1>2, <1>5, <1>6
  <2>2. runs'[i] = t
    BY <1>2, <1>4, PutRun, Parts DEF GroupInv
  <2> QED BY <1>7, <2>1, <2>2 DEF RowsRun, Clearing
<1>9. cursor' = rows' /\ told' \cap rows' = {}
  BY <1>5, <1>6
<1> QED BY <1>1, <1>2, <1>3, <1>4, <1>8, <1>9, RowsMove

\* A run that was abandoned still clears what it read, which only a run that
\* outlives the teardown does: nothing else reads or writes by then.
LEMMA RowsClearAbandoned ==
    ASSUME GroupInv, RowsInv, NEW i \in DOMAIN runs, ClearAbandoned(i)
    PROVE  RowsInv'
<1> DEFINE t == [runs[i] EXCEPT !.pc = "done", !.known = {}]
           h == [group EXCEPT !.latch = Latch(group, t)]
<1>1. /\ group \in GroupRuntime /\ runs[i] \in Run /\ OwnedRun(group, i, runs[i])
      /\ RowsRun(group, i, runs[i]) /\ runs[i].pc = "clear" /\ Abandoned(i) /\ ClearRows(i)
  BY OwnedParts DEF ClearAbandoned, ClearRows, At, RowsInv
<1>2. t \in Run /\ t.pc = "done" /\ t.engine = runs[i].engine
  BY <1>1 DEF Run
<1>3. h.generation = group.generation /\ h.start = group.start /\ h.session = group.session
  BY <1>1 DEF GroupRuntime
<1>4. /\ group' = h /\ runs' = [runs EXCEPT ![i] = t] /\ torn' = torn /\ desync' = desync
      /\ told' = told
  BY DEF ClearAbandoned, ClearRows, Return
<1> HIDE DEF t, h
<1>5. ~Live(t)
  BY <1>1, <1>2 DEF OwnedRun, Live
<1>6. CASE Stale(i) = {}
  <2>1. Ledgers
    BY <1>1, <1>4, <1>6 DEF Ledgers, ClearRows
  <2>2. Harmless(group, t)
    BY <1>2, <1>5 DEF Harmless, Serving
  <2> QED BY <1>2, <1>3, <1>4, <2>1, <2>2, RowsPut
<1>7. CASE Stale(i) # {}
  <2>1. Clearing(runs[i])
    BY <1>1, <1>7 DEF Clearing, Stale
  <2>2. torn /\ runs[i].known = cursor
    BY <1>1, <2>1 DEF RowsRun, Abandoned, Current
  <2>3. desync = "idle" /\ cursor = rows /\ told \cap rows = {}
    BY <2>1 DEF RowsInv
  <2>4. rows' = cursor' /\ told' \cap rows' = {}
    BY <1>1, <1>4, <1>7, <2>2, <2>3 DEF ClearRows, Stale
  <2>5. /\ DOMAIN runs' = DOMAIN runs /\ runs'[i] = t
        /\ \A j \in DOMAIN runs : j # i => runs'[j] = runs[j]
    BY <1>2, <1>4, PutRun, Parts DEF GroupInv
  <2>6. ASSUME NEW j \in DOMAIN runs'
        PROVE  ~Clearing(runs[j])'
    <3>1. CASE j = i
      BY <1>2, <2>5, <3>1 DEF Clearing
    <3>2. CASE j # i
      <4>1. ~Clearing(runs[j]) /\ runs'[j] = runs[j]
        BY <2>1, <2>5, <3>2 DEF RowsInv
      <4> QED BY <4>1 DEF Clearing
    <3> QED BY <3>1, <3>2
  <2>7. \A j \in DOMAIN runs' : RowsRun(group, j, runs[j])'
    BY <1>4, <2>2, <2>6 DEF RowsRun
  <2> QED BY <1>4, <2>3, <2>4, <2>6, <2>7 DEF RowsInv
<1> QED BY <1>6, <1>7

\* A run on its way to its answer, and one whose streams have all answered.
LEMMA RowsOpening ==
    ASSUME GroupInv, RowsInv, NEW i \in DOMAIN runs,
           Wake(i) \/ SubscribeAbandoned(i) \/ (\E s \in Shapes : StreamAnswers(i, s)) \/ Opened(i)
    PROVE  RowsInv'
<1>1. group \in GroupRuntime /\ runs[i] \in Run /\ OwnedRun(group, i, runs[i])
  BY OwnedParts
<1>2. Ledgers
  BY DEF Wake, SubscribeAbandoned, StreamAnswers, Opened, Ledgers
<1>3. ASSUME NEW t \in Run, Harmless(group, t), Return(i, t)
      PROVE  RowsInv'
  <2> DEFINE h == [group EXCEPT !.latch = Latch(group, t)]
  <2>1. h.generation = group.generation /\ h.start = group.start /\ h.session = group.session
    BY <1>1 DEF GroupRuntime
  <2>2. group' = h /\ runs' = [runs EXCEPT ![i] = t]
    BY <1>3 DEF Return
  <2> HIDE DEF h
  <2> QED BY <1>2, <1>3, <2>1, <2>2, RowsPut
<1>4. CASE Wake(i) \/ SubscribeAbandoned(i)
  <2> DEFINE t == [runs[i] EXCEPT !.pc = "done"]
             u == [runs[i] EXCEPT !.pc = "subscribe"]
  <2>1. /\ t \in Run /\ t.pc = "done" /\ t.engine = runs[i].engine
        /\ u \in Run /\ u.pc = "subscribe" /\ u.engine = runs[i].engine
    BY <1>1 DEF Run
  <2>2. ~Live(runs[i])
    BY <1>1, <1>4 DEF Wake, SubscribeAbandoned, At, OwnedRun
  <2>3. Return(i, t) \/ (runs' = [runs EXCEPT ![i] = u] /\ group' = group)
    BY <1>4 DEF Wake, SubscribeAbandoned
  <2> HIDE DEF t, u
  <2>4. Harmless(group, t) /\ Harmless(group, u)
    BY <2>1, <2>2 DEF Harmless, Serving, Live
  <2>5. CASE Return(i, t)
    BY <1>3, <2>1, <2>4, <2>5
  <2>6. CASE runs' = [runs EXCEPT ![i] = u] /\ group' = group
    BY <1>2, <2>1, <2>4, <2>6, RowsPut
  <2> QED BY <2>3, <2>5, <2>6
<1>5. ASSUME NEW s \in Shapes, StreamAnswers(i, s)
      PROVE  RowsInv'
  <2> DEFINE t == [runs[i] EXCEPT !.answered = runs[i].answered \cup {s}]
  <2>1. /\ t \in Run /\ t.pc = runs[i].pc /\ t.engine = runs[i].engine /\ t.gen = runs[i].gen
        /\ t.granted = runs[i].granted /\ t.known = runs[i].known
    BY <1>1 DEF Run
  <2>2. group' = group /\ runs' = [runs EXCEPT ![i] = t]
    BY <1>5 DEF StreamAnswers
  <2> HIDE DEF t
  <2>3. Follows(group, t, runs[i])
    BY <2>1 DEF Follows, Serving, Live, Current
  <2> QED BY <1>2, <2>1, <2>2, <2>3, RowsPut
<1>6. CASE Opened(i) /\ Abandoned(i)
  <2> DEFINE u == Unsubscribe(runs[i])
             t == [u EXCEPT !.pc = "done", !.lease = "none"]
  <2>1. u \in Run /\ u.engine = "none"
    BY <1>1, UnsubscribeType
  <2>2. Return(i, t)
    BY <1>6 DEF Opened
  <2> HIDE DEF u
  <2>3. t \in Run /\ t.pc = "done" /\ t.engine = "none"
    BY <2>1 DEF Run
  <2> HIDE DEF t
  <2>4. Harmless(group, t)
    BY <2>3 DEF Harmless, Serving, Live
  <2> QED BY <1>3, <2>2, <2>3, <2>4
<1>7. CASE Opened(i) /\ ~Abandoned(i)
  <2> DEFINE t == [runs[i] EXCEPT !.pc = "done"]
             h == [group EXCEPT !.handle = i, !.latch = Latch(group, runs[i])]
  <2>1. /\ t \in Run /\ t.pc = "done" /\ t.engine = runs[i].engine /\ t.gen = runs[i].gen
        /\ t.granted = runs[i].granted /\ t.known = runs[i].known
    BY <1>1 DEF Run
  <2>2. h.generation = group.generation /\ h.start = group.start /\ h.session = group.session
    BY <1>1 DEF GroupRuntime
  <2>3. group' = h /\ runs' = [runs EXCEPT ![i] = t] /\ runs[i].pc = "opening"
    BY <1>7 DEF Opened, At
  <2> HIDE DEF t, h
  <2>4. Current(group, runs[i])
    BY <1>7, <2>3, OwnedParts
  <2>5. Follows(group, t, runs[i])
    BY <2>1, <2>4 DEF Follows, Serving, Live
  <2> QED BY <1>2, <2>1, <2>2, <2>3, <2>5, RowsPut
<1> QED BY <1>4, <1>5, <1>6, <1>7

\* The commit of the group's engine.
LEMMA RowsCommit ==
    ASSUME GroupInv, RowsInv, NEW i \in DOMAIN runs, Commit(i)
    PROVE  RowsInv' /\ group.session = i /\ rows' = runs[i].granted
<1> DEFINE t == [runs[i] EXCEPT !.known = runs[i].granted, !.engine = "synced"]
           b == group.ready \/ runs[i].engine = "live"
           h == [group EXCEPT !.ready = b]
<1>1. /\ group \in GroupRuntime /\ runs[i] \in Run /\ OwnedRun(group, i, runs[i])
      /\ RowsRun(group, i, runs[i]) /\ i # 0
  BY OwnedParts DEF RowsInv
<1>2. runs[i].pc = "done" /\ Live(runs[i])
  BY DEF Commit, At
<1>3. i = group.handle /\ group.start # 0 /\ ~torn /\ Serving(group, runs[i])
  BY <1>1, <1>2 DEF OwnedRun, Serving
<1>4. /\ t \in Run /\ t.pc = "done" /\ t.granted = runs[i].granted /\ t.known = runs[i].granted
  BY <1>1, <1>2 DEF Run
<1>5. /\ h.generation = group.generation /\ h.start = group.start /\ h.session = group.session
  BY <1>1 DEF GroupRuntime
<1>6. /\ group' = h /\ runs' = [runs EXCEPT ![i] = t] /\ torn' = torn /\ desync' = desync
      /\ told' = told /\ cursor' = runs[i].granted
      /\ rows' = rows \cup (runs[i].granted \ runs[i].known)
  BY DEF Commit
<1> HIDE DEF t, b, h
<1>7. /\ runs[i].known \subseteq rows /\ rows \subseteq runs[i].granted
      /\ told \cap runs[i].granted = {} /\ group.session = i
  BY <1>1, <1>3 DEF RowsRun
<1>8. rows' = runs[i].granted
  BY <1>6, <1>7
<1>9. /\ DOMAIN runs' = DOMAIN runs /\ runs'[i] = t
      /\ \A j \in DOMAIN runs : j # i => runs'[j] = runs[j]
  BY <1>4, <1>6, PutRun, Parts DEF GroupInv
<1>10. \A j \in DOMAIN runs : ~Current(group, runs[j])
  BY <1>2, <1>3, NothingUnderway
<1>11. ASSUME NEW j \in DOMAIN runs, j # i
       PROVE  RowsRun(group, j, runs[j])' /\ ~Clearing(runs[j])'
  <2>1. /\ runs'[j] = runs[j] /\ ~Current(group, runs[j])
        /\ RowsRun(group, j, runs[j])
    BY <1>9, <1>10, <1>11 DEF RowsInv
  <2>2. ~Clearing(runs[j]) /\ ~Serving(group, runs[j])
    BY <1>3, <1>7, <1>11, <2>1 DEF RowsRun
  <2>3. ~Clearing(runs[j])' /\ ~Serving(group, runs[j])' /\ ~Current(group, runs[j])'
    BY <1>5, <1>6, <2>1, <2>2 DEF Clearing, Serving, Current, Live
  <2> QED BY <2>3 DEF RowsRun
<1>12. RowsRun(group, i, runs[i])' /\ ~Clearing(runs[i])'
  BY <1>4, <1>5, <1>6, <1>7, <1>8, <1>9 DEF RowsRun, Clearing, Current
<1>13. \A j \in DOMAIN runs' : RowsRun(group, j, runs[j])' /\ ~Clearing(runs[j])'
  BY <1>9, <1>11, <1>12
<1>14. desync = "idle"
  BY <1>3 DEF RowsInv
<1>15. cursor' = rows' /\ told' \cap rows' = {}
  BY <1>6, <1>7, <1>8
<1> QED BY <1>6, <1>7, <1>8, <1>13, <1>14, <1>15 DEF RowsInv

\* A re-mint that is posted or fails, and one whose answer may revoke.
LEMMA RowsMint ==
    ASSUME GroupInv, RowsInv, NEW i \in DOMAIN runs, Mint(i) \/ MintFails(i)
    PROVE  RowsInv'
<1>1. runs[i] \in Run
  BY OwnedParts
<1>2. Ledgers /\ group' = group /\ \E m \in {"idle", "posted"} : runs' = [runs EXCEPT ![i].mint = m]
  BY DEF Mint, MintFails, Ledgers
<1>3. PICK m \in {"idle", "posted"} : runs' = [runs EXCEPT ![i].mint = m]
  BY <1>2
<1> DEFINE t == [runs[i] EXCEPT !.mint = m]
<1>4. /\ t \in Run /\ t.pc = runs[i].pc /\ t.engine = runs[i].engine /\ t.gen = runs[i].gen
      /\ t.granted = runs[i].granted /\ t.known = runs[i].known
  BY <1>1 DEF Run
<1>5. runs' = [runs EXCEPT ![i] = t]
  BY <1>3
<1> HIDE DEF t
<1>6. Follows(group, t, runs[i])
  BY <1>4 DEF Follows, Serving, Live, Current
<1> QED BY <1>2, <1>4, <1>5, <1>6, RowsPut

LEMMA RowsMintAnswered ==
    ASSUME GroupInv, GroupInv', RowsInv, Windows = {}, NEW i \in DOMAIN runs, MintAnswered(i)
    PROVE  RowsInv'
<1> DEFINE revoked == runs[i].token \ grants
           t == [runs[i] EXCEPT !.mint = "idle", !.token = runs[i].token \cap grants]
           h == [group EXCEPT !.pending = group.pending \cup revoked]
<1>1. group \in GroupRuntime /\ runs[i] \in Run /\ OwnedRun(group, i, runs[i])
  BY OwnedParts
<1>2. runs[i].token \in SUBSET Shapes /\ group.pending \in SUBSET Shapes
  BY <1>1 DEF Run, GroupRuntime
<1>3. runs[i].pc = "done"
  BY <1>1 DEF MintAnswered, OwnedRun
<1>4. /\ t \in Run /\ t.pc = "done" /\ t.engine = runs[i].engine /\ t.gen = runs[i].gen
      /\ t.granted = runs[i].granted /\ t.known = runs[i].known
  BY <1>1, <1>2, <1>3 DEF Run
<1>5. SameGroup(h) /\ SameGroup(group)
  <2>1. group.pending \cup revoked \in SUBSET Shapes
    BY <1>2
  <2> HIDE DEF revoked
  <2> QED BY <1>1, <2>1 DEF GroupRuntime, SameGroup
<1>6. \/ group' = group /\ runs' = [runs EXCEPT ![i] = t]
      \/ Become(ScheduleRestart(h, [runs EXCEPT ![i] = t]))
  <2>1. IF revoked = {} THEN group' = group /\ runs' = [runs EXCEPT ![i] = t]
        ELSE Become(ScheduleRestart(h, [runs EXCEPT ![i] = t]))
    BY DEF MintAnswered
  <2> HIDE DEF revoked, t, h
  <2> QED BY <2>1
<1>7. Ledgers
  BY DEF MintAnswered, Ledgers
<1> HIDE DEF t, h
<1>8. Follows(group, t, runs[i])
  BY <1>3, <1>4 DEF Follows, Serving, Live, Current
<1>9. CASE group' = group /\ runs' = [runs EXCEPT ![i] = t]
  BY <1>4, <1>7, <1>8, <1>9, RowsPut
<1>10. CASE Become(ScheduleRestart(h, [runs EXCEPT ![i] = t]))
  BY <1>4, <1>5, <1>7, <1>8, <1>10, RowsSchedule
<1> QED BY <1>6, <1>9, <1>10

LEMMA RowsStreamEnds ==
    ASSUME GroupInv, GroupInv', RowsInv, Windows = {}, NEW i \in DOMAIN runs, NEW s \in Shapes,
           StreamEnds(i, s)
    PROVE  RowsInv'
<1> DEFINE t == [runs[i] EXCEPT !.ended = runs[i].ended \cup {s}]
<1>1. group \in GroupRuntime /\ runs[i] \in Run /\ OwnedRun(group, i, runs[i])
  BY OwnedParts
<1>2. runs[i].pc = "done"
  BY <1>1 DEF StreamEnds, OwnedRun
<1>3. /\ t \in Run /\ t.pc = "done" /\ t.engine = runs[i].engine /\ t.gen = runs[i].gen
      /\ t.granted = runs[i].granted /\ t.known = runs[i].known
  BY <1>1, <1>2 DEF Run
<1>4. Become(ScheduleRestart(group, [runs EXCEPT ![i] = t])) /\ Ledgers
  BY DEF StreamEnds, Ledgers
<1> HIDE DEF t
<1>5. Follows(group, t, runs[i]) /\ SameGroup(group)
  BY <1>1, <1>2, <1>3 DEF Follows, Serving, Live, Current, SameGroup
<1> QED BY <1>3, <1>4, <1>5, RowsSchedule

LEMMA RowsOpenFails ==
    ASSUME GroupInv, GroupInv', RowsInv, NEW i \in DOMAIN runs, OpenFails(i)
    PROVE  RowsInv'
<1> DEFINE u == Unsubscribe(runs[i])
           t == [u EXCEPT !.pc = "done"]
           q == [runs EXCEPT ![i] = t]
           l == Latch(group, runs[i])
           h == [group EXCEPT !.latch = l]
<1>1. group \in GroupRuntime /\ runs[i] \in Run /\ l \in Nat
  BY OwnedParts, LatchIsNat
<1>2. t \in Run /\ t.pc = "done" /\ t.engine = "none"
  <2>1. u \in Run /\ u.engine = "none"
    BY <1>1, UnsubscribeType
  <2> HIDE DEF u
  <2> QED BY <2>1 DEF Run
<1>3. SameGroup(h) /\ SameGroup(group)
  <2> HIDE DEF l
  <2> QED BY <1>1 DEF GroupRuntime, SameGroup
<1>4. \/ Become(RestartFailed(group, q, runs[i])) \/ Become(StartFailed(group, q))
  BY DEF OpenFails
<1> HIDE DEF u, t
<1>5. \/ Become(ScheduleRestart(group, q)) \/ Become(ScheduleRestart(h, q))
      \/ Become(Pair(h, q))
  <2> HIDE DEF q
  <2> QED BY <1>4 DEF RestartFailed, StartFailed
<1> HIDE DEF h
<1>6. Ledgers /\ Harmless(group, t)
  BY <1>2 DEF OpenFails, Ledgers, Harmless, Serving, Live
<1>7. CASE Become(Pair(h, q))
  <2>1. group' = h /\ runs' = q
    BY <1>7 DEF Become, Pair
  <2> QED BY <1>2, <1>3, <1>6, <2>1, RowsPut DEF SameGroup
<1>8. CASE Become(ScheduleRestart(group, q)) \/ Become(ScheduleRestart(h, q))
  BY <1>2, <1>3, <1>6, <1>8, RowsSchedule
<1> QED BY <1>5, <1>7, <1>8

LEMMA RowsStart ==
    ASSUME GroupInv, RowsInv, Windows = {}, EnsureGroupStarted
    PROVE  RowsInv'
<1> DEFINE n == NewRun(group, "start", "subscribe")
           N == Len(runs) + 1
<1>1. group \in GroupRuntime /\ runs \in Seq(Run) /\ N \in Nat
  BY Parts DEF GroupInv
<1>2. n \in Run /\ n.pc = "subscribe" /\ n.engine = "none"
  BY <1>1, NewRunType
<1>3. group' = [group EXCEPT !.start = N] /\ runs' = Append(runs, n) /\ desync = "idle" /\ Ledgers
  BY DEF EnsureGroupStarted, Ledgers
<1> HIDE DEF n
<1>4. /\ DOMAIN runs' = DOMAIN runs \cup {N}
      /\ runs'[N] = n /\ \A i \in DOMAIN runs : runs'[i] = runs[i]
  BY <1>1, <1>2, <1>3, AppendRun
<1> HIDE DEF N
<1>5. group'.generation = group.generation /\ group'.session = group.session
  BY <1>1, <1>3 DEF GroupRuntime
<1>6. Untouched
  BY <1>3, <1>5 DEF Untouched, Ledgers
<1>7. Harmless(group', n)
  BY <1>2 DEF Harmless, Serving, Live
<1>8. \A i \in DOMAIN runs : Follows(group', runs[i], runs[i])
  BY <1>5 DEF Follows, Serving, Current
<1> QED BY <1>4, <1>6, <1>7, <1>8, RowsFramed

\* stopGroup and the teardown: what is left of the runs neither reads nor, when
\* the group is stopped, clears.
LEMMA RowsStop ==
    ASSUME GroupInv, GroupInv', RowsInv, Windows = {}, Desync \/ TearDown
    PROVE  RowsInv'
<1>1. /\ group \in GroupRuntime /\ runs \in Seq(Run) /\ group.generation \in Nat
      /\ RestartInv(group, runs)
  BY Parts DEF GroupInv, Inv, GroupRuntime
<1>2. /\ DOMAIN runs' = DOMAIN runs
      /\ \A i \in DOMAIN runs : TakenDown(group, i, runs'[i], runs[i])
  BY <1>1, TakeDownRuns DEF Desync, TearDown, Become, Pair
<1>3. ASSUME NEW i \in DOMAIN runs, Clearing(runs[i])'
      PROVE  Clearing(runs[i]) /\ runs'[i].known = runs[i].known
  <2>1. TakenDown(group, i, runs'[i], runs[i]) /\ OwnedRun(group, i, runs[i])
    BY <1>2, OwnedParts
  <2> QED BY <1>3, <2>1 DEF TakenDown, SameRun, OwnedRun, Clearing
<1>4. CASE Desync
  <2>1. /\ desync = "idle" /\ desync' = "stopped" /\ torn' = torn /\ ~torn
        /\ rows' = rows /\ cursor' = cursor /\ told' = told /\ group'.start = 0
    BY <1>4 DEF Desync, Become, Pair, Stopped
  <2>2. \A i \in DOMAIN runs : ~Clearing(runs[i])
    BY <1>4 DEF Desync, At, Stale, Clearing
  <2>3. ASSUME NEW i \in DOMAIN runs
        PROVE  RowsRun(group, i, runs[i])' /\ ~Clearing(runs[i])'
    <3>1. OwnedRun(group, i, runs[i])'
      BY <1>2 DEF GroupInv, Owned
    <3>2. ~Current(group, runs[i])' /\ ~Serving(group, runs[i])'
      BY <2>1, <3>1 DEF OwnedRun, Serving, Current, Live
    <3>3. ~Clearing(runs[i])'
      BY <1>3, <2>2
    <3> QED BY <3>2, <3>3 DEF RowsRun
  <2> QED BY <1>2, <2>1, <2>3 DEF RowsInv
<1>5. CASE TearDown
  <2>1. torn' /\ rows' = rows /\ cursor' = cursor /\ told' = told /\ desync' = desync
    BY <1>5 DEF TearDown
  <2>2. group'.start = group.start
    BY <1>1, <1>5 DEF TearDown, GroupRuntime
  <2>3. \A i \in DOMAIN runs : RowsRun(group, i, runs[i])'
    BY <1>3, <2>1 DEF RowsRun, RowsInv
  <2>4. \A i, j \in DOMAIN runs' : Clearing(runs[i])' /\ Clearing(runs[j])' => i = j
    BY <1>2, <1>3 DEF RowsInv
  <2>5. desync' # "idle" => group'.start = 0 /\ \A i \in DOMAIN runs' : ~Clearing(runs[i])'
    BY <1>2, <1>3, <2>1, <2>2 DEF RowsInv
  <2> QED BY <1>2, <2>1, <2>3, <2>4, <2>5 DEF RowsInv
<1> QED BY <1>4, <1>5

\* desync() forgets the cursor row and truncates the members of a group that is
\* stopped: no run reads either of them.
LEMMA RowsDesync ==
    ASSUME GroupInv, RowsInv, DesyncForgets \/ DesyncTruncates
    PROVE  RowsInv'
<1>1. /\ runs' = runs /\ group' = group /\ torn' = torn /\ told' = told
      /\ desync # "idle" /\ cursor' = {}
      /\ \/ desync' = "forgotten"
         \/ desync' = "idle" /\ rows' = {}
  BY DEF DesyncForgets, DesyncTruncates, CursorReset, RowsInv
<1>2. rows' = rows \/ rows' = {}
  BY DEF DesyncForgets, DesyncTruncates
<1>3. group.start = 0 /\ \A i \in DOMAIN runs : ~Clearing(runs[i])
  BY <1>1 DEF RowsInv
<1>4. ASSUME NEW i \in DOMAIN runs
      PROVE  RowsRun(group, i, runs[i])' /\ ~Clearing(runs[i])'
  <2>1. OwnedRun(group, i, runs[i]) /\ ~Clearing(runs[i])
    BY <1>3, OwnedParts
  <2>2. ~torn => ~Current(group, runs[i]) /\ ~Serving(group, runs[i])
    BY <1>3, <2>1 DEF OwnedRun, Serving
  <2>3. ~Clearing(runs[i])'
    BY <1>1, <2>1 DEF Clearing
  <2>4. ~torn' => ~Current(group, runs[i])' /\ ~Serving(group, runs[i])'
    BY <1>1, <2>2 DEF Serving, Current, Live
  <2> QED BY <2>3, <2>4 DEF RowsRun
<1>5. told' \cap rows' = {}
  BY <1>1, <1>2 DEF RowsInv
<1>6. \A i \in DOMAIN runs' : RowsRun(group, i, runs[i])' /\ ~Clearing(runs[i])'
  BY <1>1, <1>4
<1> QED BY <1>1, <1>3, <1>5, <1>6 DEF RowsInv

LEMMA RowsStep ==
    ASSUME GroupInv, GroupInv', RowsInv, [Next]_vars, Windows = {}
    PROVE  RowsInv'
<1>1. CASE EnsureGroupStarted
  BY <1>1, RowsStart
<1>2. ASSUME NEW i \in DOMAIN runs, Open(i) \/ Commit(i)
      PROVE  RowsInv'
  BY <1>2, RowsOpening, RowsSubscribe, RowsClearAbandoned, RowsNothingGranted, RowsClearAndOpen,
     RowsCommit DEF Open
<1>3. ASSUME NEW i \in DOMAIN runs, OpenFails(i) \/ Mint(i) \/ MintAnswered(i) \/ MintFails(i)
      PROVE  RowsInv'
  BY <1>3, RowsOpenFails, RowsMint, RowsMintAnswered
<1>4. ASSUME NEW i \in DOMAIN runs, NEW s \in Shapes, StreamEnds(i, s)
      PROVE  RowsInv'
  BY <1>4, RowsStreamEnds
<1>5. CASE Desync \/ TearDown
  BY <1>5, RowsStop
<1>6. CASE DesyncForgets \/ DesyncTruncates
  BY <1>6, RowsDesync
<1>7. CASE GrantsChange \/ UNCHANGED vars
  <2>1. Untouched /\ runs' = runs /\ group' = group
    BY <1>7 DEF GrantsChange, vars, Untouched
  <2>2. \A i \in DOMAIN runs : Follows(group, runs[i], runs[i])
    BY DEF Follows
  <2> QED BY <2>1, <2>2, RowsFramed
<1> QED BY <1>1, <1>2, <1>3, <1>4, <1>5, <1>6, <1>7 DEF Next, Progress

LEMMA RowsInit == Init => RowsInv
<1> SUFFICES ASSUME Init PROVE RowsInv
  OBVIOUS
<1>1. DOMAIN runs = {} /\ desync = "idle" /\ cursor = rows /\ told = {}
  BY DEF Init
<1> QED BY <1>1 DEF RowsInv

\* scheduleRestart leaves the ready flag alone.
LEMMA ScheduleReady ==
    ASSUME NEW g \in GroupRuntime, NEW r, Become(ScheduleRestart(g, r))
    PROVE  group'.ready = g.ready
<1>1. CASE torn \/ g.latch # 0
  BY <1>1 DEF Become, ScheduleRestart, Pair
<1>2. CASE ~torn /\ g.latch = 0
  <2>1. group' = [g EXCEPT !.latch = Len(r) + 1, !.handle = 0, !.session = 0]
    BY <1>2 DEF Become, ScheduleRestart, Pair
  <2> QED BY <2>1 DEF GroupRuntime
<1> QED BY <1>1, <1>2

\* Only a commit, or an answer that grants nothing, makes the group ready.
LEMMA ReadyStep ==
    ASSUME GroupInv, Next, ~group.ready, group'.ready
    PROVE  \E i \in DOMAIN runs : ClearNothingGranted(i) \/ Commit(i)
<1>1. group \in GroupRuntime
  BY Parts DEF GroupInv
<1>2. CASE EnsureGroupStarted
  BY <1>1, <1>2 DEF EnsureGroupStarted, GroupRuntime
<1>3. ASSUME NEW i \in DOMAIN runs, Open(i)
      PROVE  ClearNothingGranted(i)
  <2>1. ASSUME NEW t, Return(i, t) PROVE FALSE
    BY <1>1, <2>1 DEF Return, GroupRuntime
  <2>2. CASE Wake(i) \/ SubscribeAbandoned(i) \/ ClearAbandoned(i)
    BY <2>1, <2>2 DEF Wake, SubscribeAbandoned, ClearAbandoned
  <2>3. CASE Subscribe(i)
    BY <1>1, <2>3 DEF Subscribe, GroupRuntime
  <2>4. CASE ClearAndOpen(i)
    BY <1>1, <2>4 DEF ClearAndOpen, GroupRuntime
  <2>5. CASE \E s \in Shapes : StreamAnswers(i, s)
    BY <2>5 DEF StreamAnswers
  <2>6. CASE Opened(i)
    <3>1. CASE Abandoned(i)
      BY <2>1, <2>6, <3>1 DEF Opened
    <3>2. CASE ~Abandoned(i)
      BY <1>1, <2>6, <3>2 DEF Opened, GroupRuntime
    <3> QED BY <3>1, <3>2
  <2> QED BY <1>3, <2>2, <2>3, <2>4, <2>5, <2>6 DEF Open
<1>4. ASSUME NEW i \in DOMAIN runs, OpenFails(i) PROVE FALSE
  <2> DEFINE q == [runs EXCEPT ![i] = [Unsubscribe(runs[i]) EXCEPT !.pc = "done"]]
             l == Latch(group, runs[i])
             h == [group EXCEPT !.latch = l]
  <2>1. \/ Become(RestartFailed(group, q, runs[i])) \/ Become(StartFailed(group, q))
    BY <1>4 DEF OpenFails
  <2> HIDE DEF q
  <2>2. \/ Become(ScheduleRestart(group, q)) \/ Become(ScheduleRestart(h, q))
        \/ Become(Pair(h, q))
    BY <2>1 DEF RestartFailed, StartFailed
  <2>3. h \in GroupRuntime /\ h.ready = group.ready
    <3>1. l \in Nat
      BY <1>1, LatchIsNat
    <3> HIDE DEF l
    <3> QED BY <1>1, <3>1 DEF GroupRuntime
  <2> HIDE DEF h
  <2>4. CASE Become(Pair(h, q))
    BY <2>3, <2>4 DEF Become, Pair
  <2> QED BY <1>1, <2>2, <2>3, <2>4, ScheduleReady
<1>5. ASSUME NEW i \in DOMAIN runs, MintAnswered(i) PROVE FALSE
  <2> DEFINE revoked == runs[i].token \ grants
             q == [runs EXCEPT ![i] = [runs[i] EXCEPT !.mint = "idle",
                                                      !.token = runs[i].token \cap grants]]
             h == [group EXCEPT !.pending = group.pending \cup revoked]
  <2>1. \/ group' = group \/ Become(ScheduleRestart(h, q))
    <3>1. IF revoked = {} THEN group' = group /\ runs' = q ELSE Become(ScheduleRestart(h, q))
      BY <1>5 DEF MintAnswered
    <3> HIDE DEF revoked, q, h
    <3> QED BY <3>1
  <2>2. h \in GroupRuntime /\ h.ready = group.ready
    <3>1. group.pending \cup revoked \in SUBSET Shapes
      BY <1>1, OwnedParts DEF GroupRuntime, Run
    <3> HIDE DEF revoked
    <3> QED BY <1>1, <3>1 DEF GroupRuntime
  <2> HIDE DEF h, q
  <2> QED BY <2>1, <2>2, ScheduleReady
<1>6. ASSUME NEW i \in DOMAIN runs, Mint(i) \/ MintFails(i) PROVE FALSE
  BY <1>6 DEF Mint, MintFails
<1>7. ASSUME NEW i \in DOMAIN runs, NEW s \in Shapes, StreamEnds(i, s) PROVE FALSE
  BY <1>1, <1>7, ScheduleReady DEF StreamEnds
<1>8. CASE Desync
  BY <1>8 DEF Desync, Become, Pair, Stopped
<1>9. CASE TearDown
  BY <1>1, <1>9 DEF TearDown, GroupRuntime
<1>10. CASE DesyncForgets \/ DesyncTruncates \/ GrantsChange
  BY <1>10 DEF DesyncForgets, DesyncTruncates, GrantsChange
<1> QED BY <1>2, <1>3, <1>4, <1>5, <1>6, <1>7, <1>8, <1>9, <1>10 DEF Next, Progress

LEMMA RowsHold ==
    ASSUME Windows = {}
    PROVE  Spec => [](GroupInv /\ RowsInv)
<1>1. GroupInv /\ [Next]_vars => GroupInv'
  BY GroupInvStep
<1>2. GroupInv /\ GroupInv' /\ RowsInv /\ [Next]_vars => RowsInv'
  BY RowsStep
<1> QED BY <1>1, <1>2, GroupInvInit, RowsInit, PTL DEF Spec

\* The cursor row never names a shape whose rows are gone: through any number of
\* starts, restarts, revocations, stops and teardowns, as long as none of the windows
\* the code leaves open is met.
THEOREM RowsTheorem ==
    ASSUME Windows = {}
    PROVE  Spec => []CursorHasRows
<1>1. RowsInv => CursorHasRows
  BY DEF RowsInv, CursorHasRows
<1> QED BY <1>1, RowsHold, PTL

\* Rows announced as lost stay gone until they are granted again: no commit of an
\* older session, and no restart, brings them back.
THEOREM LostRowsTheorem ==
    ASSUME Windows = {}
    PROVE  Spec => []LostRowsStayGone
<1>1. RowsInv => LostRowsStayGone
  BY DEF RowsInv, LostRowsStayGone
<1> QED BY <1>1, RowsHold, PTL

\* A group becomes ready only over rows its session was granted: the step that
\* makes it ready is a commit of the session's engine or the clear of a session
\* that grants nothing, and either leaves no row of any other shape.
THEOREM ReadyTheorem ==
    ASSUME Windows = {}
    PROVE  Spec => ReadyHoldsGranted
<1> DEFINE A == ~group.ready /\ group'.ready
                => group.session # 0 /\ rows' \subseteq runs[group.session].granted
<1>1. GroupInv /\ RowsInv /\ [Next]_vars => [A]_vars
  <2> SUFFICES ASSUME GroupInv, RowsInv, Next, ~group.ready, group'.ready
               PROVE  group.session # 0 /\ rows' \subseteq runs[group.session].granted
    OBVIOUS
  <2>1. PICK i \in DOMAIN runs : ClearNothingGranted(i) \/ Commit(i)
    BY ReadyStep
  <2>2. i # 0
    BY OwnedParts
  <2>3. CASE ClearNothingGranted(i)
    BY <2>2, <2>3, RowsNothingGranted
  <2>4. CASE Commit(i)
    BY <2>2, <2>4, RowsCommit
  <2> QED BY <2>1, <2>3, <2>4
<1> QED BY <1>1, RowsHold, PTL DEF Spec, ReadyHoldsGranted

-----------------------------------------------------------------------------
(***************************************************************************)
(* Types.                                                                  *)
(***************************************************************************)
Control ==
    /\ torn \in BOOLEAN
    /\ desync \in {"idle", "stopped", "forgotten"}
    /\ used \in [{"starts", "faults", "stops", "changes"} -> Nat]

LEMMA ControlStep ==
    ASSUME Control, [Next]_vars
    PROVE  Control'
<1>1. torn' = torn \/ torn' = TRUE
  BY DEF Next, Progress, Open, Wake, Subscribe, SubscribeAbandoned, ClearAbandoned,
         ClearNothingGranted, ClearAndOpen, ClearRows, StreamAnswers, Opened, Commit, OpenFails,
         Mint, MintAnswered, MintFails, StreamEnds, EnsureGroupStarted, Desync, DesyncForgets,
         DesyncTruncates, TearDown, GrantsChange, vars
<1>2. desync' \in {desync, "idle", "stopped", "forgotten"}
  BY DEF Next, Progress, Open, Wake, Subscribe, SubscribeAbandoned, ClearAbandoned,
         ClearNothingGranted, ClearAndOpen, ClearRows, StreamAnswers, Opened, Commit, OpenFails,
         Mint, MintAnswered, MintFails, StreamEnds, EnsureGroupStarted, Desync, DesyncForgets,
         DesyncTruncates, TearDown, GrantsChange, vars
<1>3. \/ used' = used
      \/ \E w \in {"starts", "faults", "stops", "changes"} : used' = [used EXCEPT ![w] = used[w] + 1]
  BY DEF Next, Progress, Open, Wake, Subscribe, SubscribeAbandoned, ClearAbandoned,
         ClearNothingGranted, ClearAndOpen, ClearRows, StreamAnswers, Opened, Commit, OpenFails,
         Mint, MintAnswered, MintFails, StreamEnds, EnsureGroupStarted, Desync, DesyncForgets,
         DesyncTruncates, TearDown, GrantsChange, Spend, vars
<1>4. used' \in [{"starts", "faults", "stops", "changes"} -> Nat]
  BY <1>3 DEF Control
<1>5. torn' \in BOOLEAN
  BY <1>1, Zenon DEF Control
<1>6. desync' \in {"idle", "stopped", "forgotten"}
  BY <1>2 DEF Control
<1> QED BY <1>4, <1>5, <1>6, Zenon DEF Control

\* The group names only runs of openGroup, and all state keeps its type, in every
\* window and for any bounds.
THEOREM GroupTypeTheorem == Spec => []TypeOK
<1>1. Init => Control
  <2> SUFFICES ASSUME Init PROVE Control
    OBVIOUS
  <2>1. used \in [{"starts", "faults", "stops", "changes"} -> Nat]
    BY DEF Init
  <2>2. torn \in BOOLEAN /\ desync \in {"idle", "stopped", "forgotten"}
    BY Zenon DEF Init
  <2> QED BY <2>1, <2>2 DEF Control
<1>2. Control /\ [Next]_vars => Control'
  BY ControlStep
<1>3. Inv /\ Control => TypeOK
  <2> SUFFICES ASSUME Inv, Control PROVE TypeOK
    OBVIOUS
  <2>1. group \in [generation : Nat, start : 0 .. Len(runs), latch : 0 .. Len(runs),
                   handle : 0 .. Len(runs), session : 0 .. Len(runs),
                   ready : BOOLEAN, pending : SUBSET Shapes]
    BY Parts DEF Inv, Pointers, GroupRuntime
  <2>2. runs \in Seq(Run)
    BY Parts
  <2> QED BY <2>1, <2>2, Zenon DEF TypeOK, Inv, Stores, Control
<1>4. Inv /\ [Next]_vars => Inv'
  BY InvStep
<1> QED BY <1>1, <1>2, <1>3, <1>4, InvInit, PTL DEF Spec
=============================================================================
