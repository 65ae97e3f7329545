------------------------ MODULE RecoveryMarkerProofs ------------------------
(***************************************************************************)
(* Proofs about RecoveryMarker, for every set of senders and writers and   *)
(* any number of crashes.  The invariant holds until a ROLLBACK undoes     *)
(* what another caller wrote; RecoveryMarkerRollback.cfg shows one.        *)
(***************************************************************************)
EXTENDS RecoveryMarker, FiniteSetTheorems, TLAPS

Pcs == SenderPcs \cup WriterPcs
Phases == {"down", "initialise", "park", "settle", "up"}

\* The caller of a waiting statement is suspended at the await of that statement.
Awaits(e, p) ==
    \/ e.kind = "SetMarker" /\ p = "setting" /\ e.by \in Senders
    \/ e.kind = "Mark" /\ p = "marking" /\ e.by \in Senders
    \/ e.kind = "Settle" /\ p \in {"settling", "failing"} /\ e.by \in Senders /\ e.to # "sending"
    \/ e.kind = "Clear" /\ p = "clearing" /\ e.by \in Senders
    \/ e.kind = "Begin" /\ p = "beginning"
    \/ e.kind = "Insert" /\ p = "inserting"
    \/ e.kind = "Commit" /\ p = "ending"
    \/ e.kind = "Rollback" /\ p = "ending" /\ e.by \in Failing

AwaitPcs == {"setting", "marking", "settling", "failing", "clearing", "beginning", "inserting", "ending"}

\* Every waiting statement is its caller's only one.
QueueOK(q, p) ==
    /\ \A i \in 1 .. Len(q) : Awaits(q[i], p[q[i].by])
    /\ \A i, j \in 1 .. Len(q) : q[i].by = q[j].by => i = j

Span(p) == {s \in Senders : p[s] \in SpanPcs}
NoClear(q) == \A i \in 1 .. Len(q) : q[i].kind # "Clear"
Covered(store) == store.marker = "false" => NoSending(store)

\* Appending to a sequence adds one last element.
LEMMA AppendFacts ==
    ASSUME NEW S, NEW q \in Seq(S), NEW e \in S
    PROVE  /\ Append(q, e) \in Seq(S)
           /\ Len(Append(q, e)) = Len(q) + 1
           /\ \A i \in 1 .. Len(q) : Append(q, e)[i] = q[i]
           /\ Append(q, e)[Len(q) + 1] = e
           /\ Len(q) \in Nat
  OBVIOUS

\* Taking the head off a sequence shifts the others.
LEMMA TailFacts ==
    ASSUME NEW S, NEW q \in Seq(S), q # <<>>
    PROVE  /\ Tail(q) \in Seq(S)
           /\ Len(Tail(q)) = Len(q) - 1
           /\ \A i \in 1 .. Len(Tail(q)) : Tail(q)[i] = q[i + 1]
           /\ Head(q) = q[1]
           /\ Head(q) \in S
           /\ Len(q) \in Nat /\ Len(q) > 0
  OBVIOUS

\* Every queued statement is a statement of a caller.
LEMMA StatementFacts ==
    ASSUME NEW q \in Seq(Stmts)
    PROVE  \A i \in 1 .. Len(q) : q[i] \in Stmts /\ q[i].by \in Callers
<1>1. \A i \in 1 .. Len(q) : q[i] \in Stmts
  OBVIOUS
<1> QED BY <1>1 DEF Stmts

\* Issuing a statement: a caller that awaits nothing appends one statement.
LEMMA IssueKeepsQueue ==
    ASSUME NEW q \in Seq(Stmts), NEW p \in [Callers -> Pcs], QueueOK(q, p),
           NEW e \in Stmts, NEW np \in Pcs,
           p[e.by] \notin AwaitPcs, Awaits(e, np)
    PROVE  QueueOK(Append(q, e), [p EXCEPT ![e.by] = np])
<1> DEFINE r == Append(q, e)
           n == [p EXCEPT ![e.by] = np]
<1>0. e.by \in Callers /\ \A i \in 1 .. Len(q) : q[i] \in Stmts /\ q[i].by \in Callers
  <2>1. e.by \in Callers
    BY DEF Stmts
  <2> QED BY <2>1, StatementFacts
<1>1. \A i \in 1 .. Len(q) : q[i].by # e.by
  BY <1>0 DEF QueueOK, Awaits, AwaitPcs
<1>2. /\ Len(r) = Len(q) + 1 /\ Len(q) \in Nat
      /\ \A i \in 1 .. Len(q) : r[i] = q[i]
      /\ r[Len(q) + 1] = e
  BY AppendFacts
<1>3. n[e.by] = np /\ \A i \in 1 .. Len(q) : n[q[i].by] = p[q[i].by]
  BY <1>0, <1>1
<1> HIDE DEF r, n
<1>4. \A i \in 1 .. Len(r) : Awaits(r[i], n[r[i].by])
  BY <1>2, <1>3 DEF QueueOK
<1>5. \A i, j \in 1 .. Len(r) : r[i].by = r[j].by => i = j
  BY <1>1, <1>2 DEF QueueOK
<1> QED BY <1>4, <1>5 DEF QueueOK, r, n

\* Running the head statement resolves its caller's await.
LEMMA ResolveKeepsQueue ==
    ASSUME NEW q \in Seq(Stmts), q # <<>>, NEW p \in [Callers -> Pcs], QueueOK(q, p)
    PROVE  QueueOK(Tail(q), [p EXCEPT ![Head(q).by] = Resolved(@)])
<1> DEFINE r == Tail(q)
           n == [p EXCEPT ![Head(q).by] = Resolved(@)]
<1>1. /\ Len(r) = Len(q) - 1 /\ Len(q) \in Nat /\ Len(q) > 0
      /\ \A i \in 1 .. Len(r) : r[i] = q[i + 1]
      /\ Head(q) = q[1]
  BY TailFacts
<1>2. \A i \in 1 .. Len(q) : q[i] \in Stmts /\ q[i].by \in Callers
  BY StatementFacts
<1>3. \A i \in 1 .. Len(r) : r[i].by # Head(q).by /\ r[i].by \in Callers
  BY <1>1, <1>2 DEF QueueOK
<1>4. \A i \in 1 .. Len(r) : n[r[i].by] = p[r[i].by]
  BY <1>3
<1> HIDE DEF r, n
<1>5. \A i \in 1 .. Len(r) : i + 1 \in 1 .. Len(q)
  BY <1>1
<1>6. \A i \in 1 .. Len(r) : Awaits(r[i], n[r[i].by])
  BY <1>1, <1>4, <1>5 DEF QueueOK
<1>7. \A i, j \in 1 .. Len(r) : r[i].by = r[j].by => i = j
  BY <1>1, <1>5 DEF QueueOK
<1> QED BY <1>6, <1>7 DEF QueueOK, r, n

\* A caller that awaits nothing moves on without a statement.
LEMMA MoveKeepsQueue ==
    ASSUME NEW q \in Seq(Stmts), NEW p \in [Callers -> Pcs], QueueOK(q, p),
           NEW c \in Callers, NEW np \in Pcs, p[c] \notin AwaitPcs
    PROVE  QueueOK(q, [p EXCEPT ![c] = np])
<1>1. \A i \in 1 .. Len(q) : q[i] \in Stmts /\ q[i].by \in Callers
  BY StatementFacts
<1>2. \A i \in 1 .. Len(q) : q[i].by # c
  BY DEF QueueOK, Awaits, AwaitPcs
<1> QED BY <1>1, <1>2 DEF QueueOK

-----------------------------------------------------------------------------
\* A sender relies on the marker from the moment its upsert ran, or the flag
\* was read, until its UPDATE has run.
RelyingSeesMarker == \A s \in Senders : pc[s] \in {"set", "marking"} => view.marker = "true"

DownIsQuiet ==
    phase # "up" => queue = <<>> /\ ~inTxn /\ ~dirty /\ pc = [c \in Callers |-> "idle"]

MarkerInv ==
    /\ TypeOK
    /\ ~undone
    /\ QueueOK(queue, pc)
    /\ inFlight = Cardinality(Span(pc))
    /\ ClearStaysOutsideSpans
    /\ RelyingSeesMarker
    /\ DirtyFlagIsBacked
    /\ Covered(view)
    /\ Covered(durable)
    /\ ~inTxn => view = durable
    /\ DownIsQuiet
    /\ phase \in {"initialise", "settle"} => NoSending(view)

\* The set of open spans is finite: the counter can stand for it.
LEMMA SpanCount ==
    ASSUME NEW p \in [Callers -> Pcs]
    PROVE  /\ IsFiniteSet(Span(p))
           /\ Cardinality(Span(p)) \in Nat
           /\ (Cardinality(Span(p)) = 0) = (Span(p) = {})
<1>1. IsFiniteSet(Span(p))
  BY FS_Subset, SendersAssumption DEF Span
<1> QED BY <1>1, FS_CardinalityType, FS_EmptySet

\* Entering and leaving a span moves the counter by one.
LEMMA SpanEnter ==
    ASSUME NEW p \in [Callers -> Pcs], NEW s \in Senders, p[s] \notin SpanPcs,
           NEW np \in SpanPcs
    PROVE  Cardinality(Span([p EXCEPT ![s] = np])) = Cardinality(Span(p)) + 1
<1>1. Span([p EXCEPT ![s] = np]) = Span(p) \cup {s} /\ s \notin Span(p)
  BY DEF Span, Callers
<1> QED BY <1>1, SpanCount, FS_AddElement

\* Leaving a span (markSendingScope.exit) takes one off the counter.
LEMMA SpanExit ==
    ASSUME NEW p \in [Callers -> Pcs], NEW s \in Senders, p[s] \in SpanPcs,
           NEW np, np \notin SpanPcs
    PROVE  Cardinality(Span([p EXCEPT ![s] = np])) = Cardinality(Span(p)) - 1
<1>1. Span([p EXCEPT ![s] = np]) = Span(p) \ {s} /\ s \in Span(p)
  BY DEF Span, Callers
<1> QED BY <1>1, SpanCount, FS_RemoveElement

\* A move inside a span, or outside one, leaves the open spans alone.
LEMMA SpanSame ==
    ASSUME NEW p \in [Callers -> Pcs], NEW c \in Callers, NEW np,
           p[c] \in SpanPcs <=> np \in SpanPcs
    PROVE  Span([p EXCEPT ![c] = np]) = Span(p)
  BY DEF Span, Callers

\* A fresh store, with no marker and no process.
LEMMA InitEstablishesInv == Init => MarkerInv
<1> SUFFICES ASSUME Init PROVE MarkerInv
  OBVIOUS
<1>1. TypeOK
  <2>1. durable \in Store /\ view \in Store
    BY DEF Init, Store, Markers, Statuses
  <2>2. queue \in Seq(Stmts)
    BY DEF Init
  <2>3. pc \in [Callers -> SenderPcs \cup WriterPcs]
    BY DEF Init, SenderPcs
  <2>4. crashes \in 0 .. MaxCrashes /\ inFlight \in Nat
    BY MaxCrashesAssumption DEF Init
  <2>5. inTxn \in BOOLEAN /\ dirty \in BOOLEAN /\ undone \in BOOLEAN
    BY DEF Init
  <2>6. phase \in {"down", "initialise", "park", "settle", "up"}
    BY DEF Init
  <2> QED BY <2>1, <2>2, <2>3, <2>4, <2>5, <2>6 DEF TypeOK
<1>2. QueueOK(queue, pc) /\ ClearStaysOutsideSpans /\ DirtyFlagIsBacked
  BY DEF Init, QueueOK, ClearStaysOutsideSpans, DirtyFlagIsBacked
<1>3. Span(pc) = {}
  BY DEF Init, Span, SpanPcs, Callers
<1>4. inFlight = Cardinality(Span(pc))
  BY <1>3, FS_EmptySet DEF Init
<1> QED BY <1>1, <1>2, <1>4
       DEF Init, MarkerInv, RelyingSeesMarker, Covered, DownIsQuiet, NoSending, Callers

\* What one data statement does to the store.
LEMMA EffectFacts ==
    ASSUME NEW store \in Store, NEW e \in Stmts, NEW p, Awaits(e, p), Covered(store),
           e.kind = "Mark" => store.marker = "true"
    PROVE  /\ Effect(store, e) \in Store
           /\ Covered(Effect(store, e))
           /\ e.kind # "Clear" /\ store.marker = "true" => Effect(store, e).marker = "true"
           /\ e.kind = "SetMarker" => Effect(store, e).marker = "true"
<1>1. CASE e.kind = "SetMarker"
  BY <1>1 DEF Effect, Store, Markers, Covered, NoSending
<1>2. CASE e.kind = "Mark"
  BY <1>2 DEF Effect, Store, Markers, Covered, NoSending, Statuses, Awaits
<1>3. CASE e.kind = "Settle"
  <2>1. e.by \in Senders /\ e.to \in Statuses /\ e.to # "sending"
    BY <1>3 DEF Awaits, Stmts
  <2> QED BY <1>3, <2>1 DEF Effect, Store, Covered, NoSending
<1>4. CASE e.kind = "Clear"
  <2>1. Effect(store, e) = IF store.marker # "absent" /\ NoSending(store)
                           THEN [store EXCEPT !.marker = "false"] ELSE store
    BY <1>4 DEF Effect
  <2> QED BY <1>4, <2>1 DEF Store, Markers, Covered, NoSending
<1>5. CASE e.kind \notin {"SetMarker", "Mark", "Settle", "Clear"}
  BY <1>5 DEF Effect
<1> QED BY <1>1, <1>2, <1>3, <1>4, <1>5

\* enqueueBatch inserts a pending row: it never makes a row sending.
LEMMA InsertFacts ==
    ASSUME NEW store \in Store, Covered(store), NEW t \in InsertEffect(store)
    PROVE  t \in Store /\ Covered(t) /\ t.marker = store.marker
  BY DEF InsertEffect, Store, Statuses, Covered, NoSending

\* Resolving an await keeps its caller inside or outside its span.
LEMMA ResolvedFacts ==
    ASSUME NEW p \in AwaitPcs
    PROVE  /\ Resolved(p) \in Pcs
           /\ p \in SpanPcs <=> Resolved(p) \in SpanPcs
           /\ Resolved(p) # "marking" /\ Resolved(p) # "setting"
           /\ Resolved(p) = "set" => p = "setting"
<1>1. \/ p = "setting" /\ Resolved(p) = "set"
      \/ p = "marking" /\ Resolved(p) = "marked"
      \/ p = "settling" /\ Resolved(p) = "settledBatch"
      \/ p = "failing" /\ Resolved(p) = "idle"
      \/ p = "clearing" /\ Resolved(p) = "cleared"
      \/ p = "beginning" /\ Resolved(p) = "begun"
      \/ p = "inserting" /\ Resolved(p) = "inserted"
      \/ p = "ending" /\ Resolved(p) = "ended"
  BY DEF AwaitPcs, Resolved
<1> QED BY <1>1 DEF Pcs, SenderPcs, WriterPcs, SpanPcs

\* Running the head of the queue: the callers' side of the invariant.
LEMMA ResolveKeepsCallers ==
    ASSUME MarkerInv, queue # <<>>, Resolve
    PROVE  /\ queue' \in Seq(Stmts)
           /\ pc' \in [Callers -> Pcs]
           /\ QueueOK(queue, pc)'
           /\ inFlight' = Cardinality(Span(pc'))
           /\ ClearStaysOutsideSpans'
           /\ DownIsQuiet'
<1> DEFINE h == Head(queue)
<1>1. /\ queue \in Seq(Stmts) /\ pc \in [Callers -> Pcs] /\ QueueOK(queue, pc)
      /\ queue' = Tail(queue) /\ pc' = [pc EXCEPT ![h.by] = Resolved(@)]
  BY DEF MarkerInv, TypeOK, Pcs, Resolve
<1>2. /\ queue' \in Seq(Stmts) /\ Len(queue') = Len(queue) - 1
      /\ Len(queue) \in Nat /\ Len(queue) > 0
      /\ \A i \in 1 .. Len(queue') : queue'[i] = queue[i + 1]
      /\ h = queue[1] /\ h \in Stmts
  BY <1>1, TailFacts
<1>3. h.by \in Callers /\ Awaits(h, pc[h.by])
  BY <1>1, <1>2 DEF Stmts, QueueOK
<1> HIDE DEF h
<1>4. /\ Resolved(pc[h.by]) \in Pcs
      /\ pc[h.by] \in SpanPcs <=> Resolved(pc[h.by]) \in SpanPcs
      /\ Resolved(pc[h.by]) # "marking" /\ Resolved(pc[h.by]) # "setting"
      /\ Resolved(pc[h.by]) = "set" => pc[h.by] = "setting"
  BY <1>3, ResolvedFacts DEF Awaits, AwaitPcs
<1>5. pc' \in [Callers -> Pcs]
  BY <1>1, <1>3, <1>4
<1>6. QueueOK(queue, pc)'
  BY <1>1, ResolveKeepsQueue DEF h
<1>7. Span(pc') = Span(pc)
  BY <1>1, <1>3, <1>4, SpanSame
<1>8. inFlight' = Cardinality(Span(pc'))
  BY <1>7 DEF MarkerInv, Resolve
<1>9. ClearStaysOutsideSpans'
  <2> SUFFICES ASSUME NEW s \in Senders, NEW i \in 1 .. Len(queue'), queue'[i].kind = "Clear"
               PROVE  /\ pc'[s] \notin {"set", "marking"}
                      /\ pc'[s] = "setting" => \A j \in 1 .. i : queue'[j].by # s
    BY DEF ClearStaysOutsideSpans
  <2>1. /\ i + 1 \in 1 .. Len(queue) /\ queue[i + 1].kind = "Clear"
        /\ \A j \in 1 .. i : j \in 1 .. Len(queue') /\ j + 1 \in 1 .. (i + 1)
        /\ 1 \in 1 .. (i + 1)
    BY <1>2
  <2>2. /\ pc[s] \notin {"set", "marking"}
        /\ pc[s] = "setting" => \A j \in 1 .. (i + 1) : queue[j].by # s
    BY <2>1 DEF MarkerInv, ClearStaysOutsideSpans
  <2>3. CASE s = h.by
    <3>1. pc[s] # "setting"
      BY <2>1, <2>2, <2>3, <1>2
    <3> QED BY <3>1, <2>3, <1>1, <1>3, <1>4
  <2>4. CASE s # h.by
    <3>1. pc'[s] = pc[s]
      BY <2>4, <1>1, <1>3 DEF Callers
    <3> QED BY <3>1, <2>1, <2>2, <1>2
  <2> QED BY <2>3, <2>4
<1>10. DownIsQuiet'
  BY DEF MarkerInv, DownIsQuiet, Resolve
<1> QED BY <1>2, <1>5, <1>6, <1>8, <1>9, <1>10

\* The connection runs the statement at the head of its queue.
LEMMA ExecuteKeepsInv ==
    ASSUME MarkerInv, Execute, ~undone'
    PROVE  MarkerInv'
<1> DEFINE h == Head(queue)
<1>1. queue # <<>> /\ Resolve
  BY DEF Execute, ExecuteData, ExecuteBegin, ExecuteCommit, ExecuteRollback
<1>2. /\ queue' \in Seq(Stmts) /\ pc' \in [Callers -> Pcs] /\ QueueOK(queue, pc)'
      /\ inFlight' = Cardinality(Span(pc')) /\ ClearStaysOutsideSpans' /\ DownIsQuiet'
  BY <1>1, ResolveKeepsCallers
<1>3. /\ queue \in Seq(Stmts) /\ pc \in [Callers -> Pcs]
      /\ view \in Store /\ durable \in Store /\ inTxn \in BOOLEAN
  BY DEF MarkerInv, TypeOK, Pcs
<1>4. /\ h = queue[1] /\ h \in Stmts /\ 1 \in 1 .. Len(queue)
      /\ Len(queue') = Len(queue) - 1 /\ Len(queue) \in Nat
      /\ \A i \in 1 .. Len(queue') : queue'[i] = queue[i + 1] /\ i + 1 \in 1 .. Len(queue)
  BY <1>1, <1>3, TailFacts DEF Resolve
<1>5. h.by \in Callers /\ Awaits(h, pc[h.by]) /\ h.kind \in Kinds
  BY <1>4 DEF Stmts, MarkerInv, QueueOK
<1>6. pc' = [pc EXCEPT ![h.by] = Resolved(@)]
  BY <1>1 DEF Resolve
<1> HIDE DEF h
<1>7. \A s \in Senders : pc'[s] \in {"set", "marking"} =>
          \/ pc[s] \in {"set", "marking"}
          \/ s = h.by /\ h.kind = "SetMarker"
  BY <1>3, <1>5, <1>6, ResolvedFacts DEF Awaits, AwaitPcs, Callers
<1>8. dirty' = dirty /\ phase' = phase /\ crashes' = crashes /\ inFlight' = inFlight
  BY <1>1 DEF Resolve
<1>9. phase = "up"
  BY <1>1 DEF MarkerInv, DownIsQuiet
<1>10. (\A i \in 1 .. Len(queue) : queue[i].kind # "Clear") =>
           \A i \in 1 .. Len(queue') : queue'[i].kind # "Clear"
  BY <1>4
<1>11. SUFFICES
         /\ view' \in Store /\ durable' \in Store /\ inTxn' \in BOOLEAN
         /\ RelyingSeesMarker' /\ DirtyFlagIsBacked'
         /\ Covered(view') /\ Covered(durable') /\ (~inTxn' => view' = durable')
  <2>0. undone' \in BOOLEAN
    BY DEF Execute, ExecuteData, ExecuteBegin, ExecuteCommit, ExecuteRollback, MarkerInv, TypeOK
  <2>1. TypeOK'
    BY <1>2, <1>8, <1>11, <2>0 DEF TypeOK, MarkerInv, Pcs
  <2> QED BY <2>1, <1>2, <1>8, <1>9, <1>11 DEF MarkerInv, Covered, NoSending
<1>12. CASE ExecuteData
  <2>1. CASE h.kind = "Insert"
    <3>1. view' \in Store /\ Covered(view') /\ view'.marker = view.marker
      BY <1>12, <2>1, <1>3, InsertFacts DEF ExecuteData, h, MarkerInv
    <3>2. durable' = IF inTxn THEN durable ELSE view'
      BY <1>12 DEF ExecuteData
    <3>3. inTxn' = inTxn
      BY <1>12 DEF ExecuteData
    <3>4. durable' \in Store /\ Covered(durable') /\ (~inTxn' => view' = durable')
      BY <3>1, <3>2, <3>3, <1>3 DEF MarkerInv
    <3>5. RelyingSeesMarker' /\ DirtyFlagIsBacked'
      BY <3>1, <2>1, <1>7, <1>8, <1>10 DEF MarkerInv, RelyingSeesMarker, DirtyFlagIsBacked
    <3> QED BY <3>1, <3>3, <3>4, <3>5, <1>3
  <2>2. CASE h.kind # "Insert"
    <3>1. view' = Effect(view, h)
      BY <1>12, <2>2 DEF ExecuteData, h
    <3>2. h.kind = "Mark" => view.marker = "true"
      BY <1>5 DEF Awaits, MarkerInv, RelyingSeesMarker
    <3>3. /\ view' \in Store /\ Covered(view')
          /\ h.kind # "Clear" /\ view.marker = "true" => view'.marker = "true"
          /\ h.kind = "SetMarker" => view'.marker = "true"
      BY <3>1, <3>2, <1>3, <1>4, <1>5, EffectFacts DEF MarkerInv
    <3>4. inTxn' = inTxn /\ durable' = IF inTxn THEN durable ELSE view'
      BY <1>12 DEF ExecuteData
    <3>5. durable' \in Store /\ Covered(durable') /\ (~inTxn' => view' = durable')
      BY <3>3, <3>4, <1>3 DEF MarkerInv
    <3>6. h.kind = "Clear" => ~dirty /\ \A s \in Senders : pc[s] \notin {"set", "marking"}
      BY <1>4 DEF MarkerInv, DirtyFlagIsBacked, ClearStaysOutsideSpans
    <3>7. RelyingSeesMarker'
      BY <3>3, <3>6, <1>7 DEF MarkerInv, RelyingSeesMarker
    <3>8. DirtyFlagIsBacked'
      BY <3>3, <3>6, <1>8, <1>10 DEF MarkerInv, DirtyFlagIsBacked
    <3> QED BY <3>3, <3>4, <3>5, <3>7, <3>8, <1>3
  <2> QED BY <2>1, <2>2
<1>13. CASE ExecuteBegin
  <2>1. view' = view /\ durable' = durable /\ inTxn' = TRUE /\ h.kind = "Begin"
    BY <1>13 DEF ExecuteBegin, h
  <2> QED BY <2>1, <1>3, <1>7, <1>8, <1>10 DEF MarkerInv, RelyingSeesMarker, DirtyFlagIsBacked
<1>14. CASE ExecuteCommit
  <2>1. view' = view /\ durable' = view /\ inTxn' = FALSE /\ h.kind = "Commit"
    BY <1>14 DEF ExecuteCommit, h
  <2> QED BY <2>1, <1>3, <1>7, <1>8, <1>10 DEF MarkerInv, RelyingSeesMarker, DirtyFlagIsBacked
<1>15. CASE ExecuteRollback
  <2>1. view = durable /\ view' = view /\ durable' = view /\ inTxn' = FALSE /\ h.kind = "Rollback"
    BY <1>15 DEF ExecuteRollback, h
  <2> QED BY <2>1, <1>3, <1>7, <1>8, <1>10 DEF MarkerInv, RelyingSeesMarker, DirtyFlagIsBacked
<1> QED BY <1>12, <1>13, <1>14, <1>15 DEF Execute

\* A caller's own step leaves the store alone; what remains to be shown is
\* what it does to the queue, the spans and the cached flag.
LEMMA CallerStep ==
    ASSUME MarkerInv, phase = "up",
           UNCHANGED <<durable, view, inTxn, phase, crashes, undone>>,
           queue' \in Seq(Stmts), pc' \in [Callers -> Pcs], dirty' \in BOOLEAN,
           QueueOK(queue, pc)', inFlight' = Cardinality(Span(pc')),
           ClearStaysOutsideSpans', RelyingSeesMarker', DirtyFlagIsBacked'
    PROVE  MarkerInv'
<1>1. inFlight' \in Nat
  BY SpanCount
<1>2. TypeOK'
  BY <1>1 DEF TypeOK, MarkerInv, Pcs
<1> QED BY <1>2 DEF MarkerInv, DownIsQuiet, Covered, NoSending

\* Appending a statement that is not a clear, by a caller that awaits nothing.
LEMMA IssueStep ==
    ASSUME MarkerInv, NEW c \in Callers, NEW kind \in Kinds, NEW to \in Statuses, NEW np \in Pcs,
           pc[c] \notin AwaitPcs, Issue(c, kind, to), Goto(c, np),
           Awaits([by |-> c, kind |-> kind, to |-> to], np), kind # "Clear",
           np = "marking" => \A i \in 1 .. Len(queue) : queue[i].kind # "Clear",
           np # "set"
    PROVE  /\ queue' \in Seq(Stmts) /\ pc' \in [Callers -> Pcs] /\ QueueOK(queue, pc)'
           /\ ClearStaysOutsideSpans'
           /\ NoClear(queue) => NoClear(queue')
           /\ \A s \in Senders : s # c => pc'[s] = pc[s]
           /\ pc'[c] = np /\ pc' = [pc EXCEPT ![c] = np]
<1> DEFINE e == [by |-> c, kind |-> kind, to |-> to]
<1>1. /\ queue \in Seq(Stmts) /\ pc \in [Callers -> Pcs] /\ QueueOK(queue, pc)
      /\ e \in Stmts /\ e.by = c /\ e.kind = kind
      /\ queue' = Append(queue, e) /\ pc' = [pc EXCEPT ![c] = np]
  BY DEF MarkerInv, TypeOK, Pcs, Stmts, Issue, Goto
<1>2. QueueOK(queue, pc)'
  BY <1>1, IssueKeepsQueue
<1>3. /\ queue' \in Seq(Stmts) /\ Len(queue') = Len(queue) + 1 /\ Len(queue) \in Nat
      /\ \A i \in 1 .. Len(queue) : queue'[i] = queue[i]
      /\ queue'[Len(queue) + 1] = e
  BY <1>1, AppendFacts
<1> HIDE DEF e
<1>4. \A i \in 1 .. Len(queue') : queue'[i].kind = "Clear" =>
          i \in 1 .. Len(queue) /\ queue[i].kind = "Clear"
  BY <1>1, <1>3
<1>5. \A i \in 1 .. Len(queue) : queue[i].by # c
  <2>1. \A i \in 1 .. Len(queue) : pc[queue[i].by] \in AwaitPcs
    BY <1>1 DEF QueueOK, Awaits, AwaitPcs
  <2> QED BY <2>1
<1>6. \A s \in Senders : s # c => pc'[s] = pc[s]
  BY <1>1 DEF Callers
<1>7. pc'[c] = np
  BY <1>1
<1>8. ClearStaysOutsideSpans'
  <2> SUFFICES ASSUME NEW s \in Senders, NEW i \in 1 .. Len(queue'), queue'[i].kind = "Clear"
               PROVE  /\ pc'[s] \notin {"set", "marking"}
                      /\ pc'[s] = "setting" => \A j \in 1 .. i : queue'[j].by # s
    BY DEF ClearStaysOutsideSpans
  <2>1. i \in 1 .. Len(queue) /\ queue[i].kind = "Clear" /\ 1 .. i \subseteq 1 .. Len(queue)
    BY <1>4, <1>3
  <2>2. CASE s = c
    BY <2>1, <2>2, <1>3, <1>5, <1>7
  <2>3. CASE s # c
    BY <2>1, <2>3, <1>3, <1>6 DEF MarkerInv, ClearStaysOutsideSpans
  <2> QED BY <2>2, <2>3
<1>9. NoClear(queue) => NoClear(queue')
  BY <1>4 DEF NoClear
<1> QED BY <1>1, <1>2, <1>3, <1>6, <1>7, <1>8, <1>9

\* Moving on without a statement.
LEMMA MoveStep ==
    ASSUME MarkerInv, NEW c \in Callers, NEW np \in Pcs,
           pc[c] \notin AwaitPcs, UNCHANGED queue, Goto(c, np),
           np \notin {"set", "setting", "marking"}
    PROVE  /\ queue' \in Seq(Stmts) /\ pc' \in [Callers -> Pcs] /\ QueueOK(queue, pc)'
           /\ ClearStaysOutsideSpans'
           /\ NoClear(queue) => NoClear(queue')
           /\ \A s \in Senders : s # c => pc'[s] = pc[s]
           /\ pc'[c] = np /\ pc' = [pc EXCEPT ![c] = np]
<1>1. /\ queue \in Seq(Stmts) /\ pc \in [Callers -> Pcs] /\ QueueOK(queue, pc)
      /\ queue' = queue /\ pc' = [pc EXCEPT ![c] = np]
  BY DEF MarkerInv, TypeOK, Pcs, Goto
<1>2. QueueOK(queue, pc)'
  BY <1>1, MoveKeepsQueue
<1>3. pc'[c] = np /\ \A s \in Senders : s # c => pc'[s] = pc[s]
  BY <1>1 DEF Callers
<1>4. ClearStaysOutsideSpans'
  BY <1>1, <1>3 DEF MarkerInv, ClearStaysOutsideSpans
<1> QED BY <1>1, <1>2, <1>3, <1>4

\* Every step of flush and flushUnit preserves the invariant.
LEMMA SenderKeepsInv ==
    ASSUME MarkerInv, NEW s \in Senders, Sender(s)
    PROVE  MarkerInv'
<1>1. /\ s \in Callers /\ pc \in [Callers -> Pcs] /\ dirty \in BOOLEAN
      /\ queue \in Seq(Stmts) /\ inFlight = Cardinality(Span(pc))
  BY DEF MarkerInv, TypeOK, Pcs, Callers
<1>2. phase = "up"
  <2>1. pc[s] # "idle" => phase = "up"
    BY <1>1 DEF MarkerInv, DownIsQuiet
  <2> QED BY <2>1 DEF Sender, MarkSending, MarkerWritten, Post, Answered, SettleRecoveryMarker, Finish
<1>3. dirty => NoClear(queue) /\ view.marker = "true"
  BY DEF MarkerInv, DirtyFlagIsBacked, NoClear
<1>4. CASE MarkSending(s)
  <2>1. /\ pc[s] \in {"idle", "settledBatch"} /\ inFlight' = inFlight + 1 /\ dirty' = dirty
        /\ UNCHANGED <<durable, view, inTxn, phase, crashes, undone>>
    BY <1>4 DEF MarkSending, Enter
  <2>2. pc[s] \notin AwaitPcs /\ pc[s] \notin SpanPcs
    BY <2>1 DEF AwaitPcs, SpanPcs
  <2>3. CASE dirty
    <3>1. Issue(s, "Mark", "sending") /\ Goto(s, "marking")
      BY <2>3, <1>4 DEF MarkSending
    <3>2. /\ "Mark" \in Kinds /\ "sending" \in Statuses /\ "marking" \in Pcs
          /\ Awaits([by |-> s, kind |-> "Mark", to |-> "sending"], "marking")
      BY DEF Kinds, Statuses, Pcs, SenderPcs, Awaits
    <3>3. /\ queue' \in Seq(Stmts) /\ pc' \in [Callers -> Pcs] /\ QueueOK(queue, pc)'
          /\ ClearStaysOutsideSpans' /\ (NoClear(queue) => NoClear(queue'))
          /\ \A t \in Senders : t # s => pc'[t] = pc[t]
          /\ pc'[s] = "marking" /\ pc' = [pc EXCEPT ![s] = "marking"]
      BY <1>1, <1>3, <2>2, <2>3, <3>1, <3>2, IssueStep DEF NoClear
    <3>4. inFlight' = Cardinality(Span(pc'))
      BY <1>1, <2>1, <2>2, <3>3, SpanEnter DEF SpanPcs
    <3>5. RelyingSeesMarker'
      BY <1>3, <2>1, <2>3, <3>3 DEF MarkerInv, RelyingSeesMarker
    <3>6. DirtyFlagIsBacked'
      BY <1>3, <2>1, <3>3 DEF DirtyFlagIsBacked, NoClear
    <3> QED BY <1>1, <1>2, <2>1, <3>3, <3>4, <3>5, <3>6, CallerStep
  <2>4. CASE ~dirty
    <3>1. Issue(s, "SetMarker", "sending") /\ Goto(s, "setting")
      BY <2>4, <1>4 DEF MarkSending
    <3>2. /\ "SetMarker" \in Kinds /\ "sending" \in Statuses /\ "setting" \in Pcs
          /\ Awaits([by |-> s, kind |-> "SetMarker", to |-> "sending"], "setting")
      BY DEF Kinds, Statuses, Pcs, SenderPcs, Awaits
    <3>3. /\ queue' \in Seq(Stmts) /\ pc' \in [Callers -> Pcs] /\ QueueOK(queue, pc)'
          /\ ClearStaysOutsideSpans'
          /\ \A t \in Senders : t # s => pc'[t] = pc[t]
          /\ pc'[s] = "setting" /\ pc' = [pc EXCEPT ![s] = "setting"]
      BY <1>1, <2>2, <3>1, <3>2, IssueStep
    <3>4. inFlight' = Cardinality(Span(pc'))
      BY <1>1, <2>1, <2>2, <3>3, SpanEnter DEF SpanPcs
    <3>5. RelyingSeesMarker' /\ DirtyFlagIsBacked'
      BY <2>1, <2>4, <3>3 DEF MarkerInv, RelyingSeesMarker, DirtyFlagIsBacked
    <3> QED BY <1>1, <1>2, <2>1, <3>3, <3>4, <3>5, CallerStep
  <2> QED BY <2>3, <2>4, <1>1
<1>5. CASE MarkerWritten(s)
  <2>1. /\ pc[s] = "set" /\ dirty' = TRUE /\ inFlight' = inFlight
        /\ Issue(s, "Mark", "sending") /\ Goto(s, "marking")
        /\ UNCHANGED <<durable, view, inTxn, phase, crashes, undone>>
    BY <1>5 DEF MarkerWritten
  <2>2. NoClear(queue) /\ view.marker = "true"
    BY <2>1 DEF MarkerInv, ClearStaysOutsideSpans, RelyingSeesMarker, NoClear
  <2>3. /\ "Mark" \in Kinds /\ "sending" \in Statuses /\ "marking" \in Pcs
        /\ Awaits([by |-> s, kind |-> "Mark", to |-> "sending"], "marking")
        /\ pc[s] \notin AwaitPcs
    BY <2>1 DEF Kinds, Statuses, Pcs, SenderPcs, Awaits, AwaitPcs
  <2>4. /\ queue' \in Seq(Stmts) /\ pc' \in [Callers -> Pcs] /\ QueueOK(queue, pc)'
        /\ ClearStaysOutsideSpans' /\ NoClear(queue')
        /\ \A t \in Senders : t # s => pc'[t] = pc[t]
        /\ pc' = [pc EXCEPT ![s] = "marking"]
    BY <1>1, <2>1, <2>2, <2>3, IssueStep DEF NoClear
  <2>5. inFlight' = Cardinality(Span(pc'))
    BY <1>1, <2>1, <2>4, SpanSame DEF SpanPcs
  <2>6. RelyingSeesMarker' /\ DirtyFlagIsBacked'
    BY <2>1, <2>2, <2>4 DEF RelyingSeesMarker, DirtyFlagIsBacked, NoClear
  <2> QED BY <1>2, <2>1, <2>4, <2>5, <2>6, CallerStep
<1>6. CASE Post(s)
  <2>1. /\ pc[s] = "marked" /\ dirty' = dirty /\ inFlight' = inFlight - 1 /\ UNCHANGED queue
        /\ Goto(s, "posting") /\ UNCHANGED <<durable, view, inTxn, phase, crashes, undone>>
    BY <1>6 DEF Post
  <2>2. "posting" \in Pcs /\ pc[s] \notin AwaitPcs /\ pc[s] \in SpanPcs /\ "posting" \notin SpanPcs
    BY <2>1 DEF Pcs, SenderPcs, AwaitPcs, SpanPcs
  <2>3. /\ queue' \in Seq(Stmts) /\ pc' \in [Callers -> Pcs] /\ QueueOK(queue, pc)'
        /\ ClearStaysOutsideSpans' /\ (NoClear(queue) => NoClear(queue'))
        /\ \A t \in Senders : t # s => pc'[t] = pc[t]
        /\ pc'[s] = "posting" /\ pc' = [pc EXCEPT ![s] = "posting"]
    BY <1>1, <2>1, <2>2, MoveStep
  <2>4. inFlight' = Cardinality(Span(pc'))
    BY <1>1, <2>1, <2>2, <2>3, SpanExit
  <2>5. RelyingSeesMarker' /\ DirtyFlagIsBacked'
    BY <1>3, <2>1, <2>3 DEF MarkerInv, RelyingSeesMarker, DirtyFlagIsBacked, NoClear
  <2> QED BY <1>1, <1>2, <2>1, <2>3, <2>4, <2>5, CallerStep
<1>7. CASE Answered(s)
  <2>1. PICK to \in {"settled", "failed"}, np \in {"settling", "failing"} :
            Issue(s, "Settle", to) /\ Goto(s, np)
    BY <1>7 DEF Answered
  <2>2. /\ pc[s] = "posting" /\ dirty' = dirty /\ inFlight' = inFlight
        /\ UNCHANGED <<durable, view, inTxn, phase, crashes, undone>>
    BY <1>7 DEF Answered
  <2>3. /\ "Settle" \in Kinds /\ to \in Statuses /\ np \in Pcs /\ np \notin {"set", "marking"}
        /\ Awaits([by |-> s, kind |-> "Settle", to |-> to], np)
        /\ pc[s] \notin AwaitPcs /\ pc[s] \notin SpanPcs /\ np \notin SpanPcs
    BY <2>2 DEF Kinds, Statuses, Pcs, SenderPcs, Awaits, AwaitPcs, SpanPcs
  <2>4. /\ queue' \in Seq(Stmts) /\ pc' \in [Callers -> Pcs] /\ QueueOK(queue, pc)'
        /\ ClearStaysOutsideSpans' /\ (NoClear(queue) => NoClear(queue'))
        /\ \A t \in Senders : t # s => pc'[t] = pc[t]
        /\ pc'[s] = np /\ pc' = [pc EXCEPT ![s] = np]
    BY <1>1, <2>1, <2>3, IssueStep
  <2>5. inFlight' = Cardinality(Span(pc'))
    BY <1>1, <2>2, <2>3, <2>4, SpanSame
  <2>6. RelyingSeesMarker' /\ DirtyFlagIsBacked'
    BY <1>3, <2>2, <2>3, <2>4 DEF MarkerInv, RelyingSeesMarker, DirtyFlagIsBacked, NoClear
  <2> QED BY <1>1, <1>2, <2>2, <2>4, <2>5, <2>6, CallerStep
<1>8. CASE SettleRecoveryMarker(s) /\ SpanOpen
  <2>1. /\ pc[s] = "settledBatch" /\ Goto(s, "idle") /\ UNCHANGED <<queue, dirty, inFlight>>
        /\ UNCHANGED <<durable, view, inTxn, phase, crashes, undone>>
    BY <1>8 DEF SettleRecoveryMarker
  <2>2. "idle" \in Pcs /\ pc[s] \notin AwaitPcs /\ pc[s] \notin SpanPcs /\ "idle" \notin SpanPcs
    BY <2>1 DEF Pcs, SenderPcs, AwaitPcs, SpanPcs
  <2>3. /\ queue' \in Seq(Stmts) /\ pc' \in [Callers -> Pcs] /\ QueueOK(queue, pc)'
        /\ ClearStaysOutsideSpans' /\ (NoClear(queue) => NoClear(queue'))
        /\ \A t \in Senders : t # s => pc'[t] = pc[t]
        /\ pc'[s] = "idle" /\ pc' = [pc EXCEPT ![s] = "idle"]
    BY <1>1, <2>1, <2>2, MoveStep
  <2>4. inFlight' = Cardinality(Span(pc'))
    BY <1>1, <2>1, <2>2, <2>3, SpanSame
  <2>5. RelyingSeesMarker' /\ DirtyFlagIsBacked'
    BY <1>3, <2>1, <2>3 DEF MarkerInv, RelyingSeesMarker, DirtyFlagIsBacked, NoClear
  <2> QED BY <1>1, <1>2, <2>1, <2>3, <2>4, <2>5, CallerStep
<1>9. CASE SettleRecoveryMarker(s) /\ ~SpanOpen
  <2> DEFINE e == [by |-> s, kind |-> "Clear", to |-> "sending"]
  <2>1. /\ pc[s] = "settledBatch" /\ dirty' = FALSE /\ inFlight' = inFlight
        /\ queue' = Append(queue, e) /\ pc' = [pc EXCEPT ![s] = "clearing"]
        /\ UNCHANGED <<durable, view, inTxn, phase, crashes, undone>>
    BY <1>9 DEF SettleRecoveryMarker, Issue, Goto, DirtyReset
  <2>2. Span(pc) = {}
    BY <1>1, <1>9, SpanCount DEF SpanOpen
  <2>3. /\ e \in Stmts /\ Awaits(e, "clearing") /\ "clearing" \in Pcs /\ pc[s] \notin AwaitPcs
        /\ pc[s] \notin SpanPcs /\ "clearing" \notin SpanPcs
    BY <1>1, <2>1 DEF Stmts, Kinds, Statuses, Awaits, AwaitPcs, SpanPcs, Pcs, SenderPcs
  <2>4. QueueOK(queue, pc)'
    BY <1>1, <2>1, <2>3, IssueKeepsQueue DEF MarkerInv
  <2>5. queue' \in Seq(Stmts) /\ pc' \in [Callers -> Pcs]
    BY <1>1, <2>1, <2>3, AppendFacts
  <2>6. Span(pc') = Span(pc)
    BY <1>1, <2>1, <2>3, SpanSame
  <2>7. \A t \in Senders : pc'[t] \notin SpanPcs
    BY <2>2, <2>6 DEF Span
  <2>8. ClearStaysOutsideSpans' /\ RelyingSeesMarker' /\ DirtyFlagIsBacked'
    BY <2>1, <2>7 DEF ClearStaysOutsideSpans, RelyingSeesMarker, DirtyFlagIsBacked, SpanPcs
  <2> QED BY <1>1, <1>2, <2>1, <2>4, <2>5, <2>6, <2>8, CallerStep
<1>10. CASE Finish(s)
  <2>1. /\ pc[s] = "cleared" /\ Goto(s, "idle") /\ UNCHANGED <<queue, dirty, inFlight>>
        /\ UNCHANGED <<durable, view, inTxn, phase, crashes, undone>>
    BY <1>10 DEF Finish
  <2>2. "idle" \in Pcs /\ pc[s] \notin AwaitPcs /\ pc[s] \notin SpanPcs /\ "idle" \notin SpanPcs
    BY <2>1 DEF Pcs, SenderPcs, AwaitPcs, SpanPcs
  <2>3. /\ queue' \in Seq(Stmts) /\ pc' \in [Callers -> Pcs] /\ QueueOK(queue, pc)'
        /\ ClearStaysOutsideSpans' /\ (NoClear(queue) => NoClear(queue'))
        /\ \A t \in Senders : t # s => pc'[t] = pc[t]
        /\ pc'[s] = "idle" /\ pc' = [pc EXCEPT ![s] = "idle"]
    BY <1>1, <2>1, <2>2, MoveStep
  <2>4. inFlight' = Cardinality(Span(pc'))
    BY <1>1, <2>1, <2>2, <2>3, SpanSame
  <2>5. RelyingSeesMarker' /\ DirtyFlagIsBacked'
    BY <1>3, <2>1, <2>3 DEF MarkerInv, RelyingSeesMarker, DirtyFlagIsBacked, NoClear
  <2> QED BY <1>1, <1>2, <2>1, <2>3, <2>4, <2>5, CallerStep
<1> QED BY <1>4, <1>5, <1>6, <1>7, <1>8, <1>9, <1>10 DEF Sender

\* Every step of a local write preserves it, a throw included.
LEMMA WriterKeepsInv ==
    ASSUME MarkerInv, NEW w \in Writers, Writer(w)
    PROVE  MarkerInv'
<1>1. /\ w \in Callers /\ w \notin Senders /\ pc \in [Callers -> Pcs] /\ dirty \in BOOLEAN
      /\ queue \in Seq(Stmts) /\ inFlight = Cardinality(Span(pc))
  BY CallersAssumption DEF MarkerInv, TypeOK, Pcs, Callers
<1>2. phase = "up"
  <2>1. pc[w] # "idle" => phase = "up"
    BY <1>1 DEF MarkerInv, DownIsQuiet
  <2> QED BY <2>1 DEF Writer, WriterBegin, WriterInsert, WriterThrow, WriterCommit, WriterDone
<1>3. dirty => NoClear(queue) /\ view.marker = "true"
  BY DEF MarkerInv, DirtyFlagIsBacked, NoClear
<1>4. /\ dirty' = dirty /\ inFlight' = inFlight
      /\ UNCHANGED <<durable, view, inTxn, phase, crashes, undone>>
  BY DEF Writer, WriterBegin, WriterInsert, WriterThrow, WriterCommit, WriterDone
<1>5. SUFFICES
        /\ queue' \in Seq(Stmts) /\ pc' \in [Callers -> Pcs] /\ QueueOK(queue, pc)'
        /\ ClearStaysOutsideSpans' /\ (NoClear(queue) => NoClear(queue'))
        /\ \A t \in Senders : t # w => pc'[t] = pc[t]
  <2>1. \A t \in Senders : pc'[t] = pc[t]
    BY <1>1, <1>5
  <2>2. Span(pc') = Span(pc)
    BY <2>1 DEF Span
  <2>3. RelyingSeesMarker' /\ DirtyFlagIsBacked'
    BY <1>3, <1>4, <1>5, <2>1 DEF MarkerInv, RelyingSeesMarker, DirtyFlagIsBacked, NoClear
  <2> QED BY <1>1, <1>2, <1>4, <1>5, <2>2, <2>3, CallerStep
<1>6. CASE WriterDone(w)
  <2>1. pc[w] = "ended" /\ Goto(w, "idle") /\ UNCHANGED queue
    BY <1>6 DEF WriterDone
  <2>2. "idle" \in Pcs /\ pc[w] \notin AwaitPcs
    BY <2>1 DEF Pcs, SenderPcs, AwaitPcs
  <2> QED BY <1>1, <2>1, <2>2, MoveStep
<1>7. CASE WriterBegin(w) \/ WriterInsert(w) \/ WriterCommit(w) \/ WriterThrow(w)
  <2>1. PICK kind, np : /\ <<kind, np>> \in {<<"Begin", "beginning">>, <<"Insert", "inserting">>,
                                              <<"Commit", "ending">>, <<"Rollback", "ending">>}
                        /\ Issue(w, kind, "pending") /\ Goto(w, np)
                        /\ kind = "Rollback" => w \in Failing
    BY <1>7 DEF WriterBegin, WriterInsert, WriterCommit, WriterThrow
  <2>2. pc[w] \notin AwaitPcs
    BY <1>7 DEF WriterBegin, WriterInsert, WriterCommit, WriterThrow, AwaitPcs
  <2>3. /\ kind \in Kinds /\ "pending" \in Statuses /\ np \in Pcs /\ kind # "Clear"
        /\ np \notin {"set", "marking"}
        /\ Awaits([by |-> w, kind |-> kind, to |-> "pending"], np)
    BY <2>1 DEF Kinds, Statuses, Pcs, WriterPcs, Awaits
  <2> QED BY <1>1, <2>1, <2>2, <2>3, IssueStep
<1> QED BY <1>6, <1>7 DEF Writer

\* A crash at any instant leaves a store the next boot can recover.
LEMMA CrashKeepsInv ==
    ASSUME MarkerInv, Crash
    PROVE  MarkerInv'
<1>1. /\ queue' = <<>> /\ inTxn' = FALSE /\ dirty' = FALSE /\ inFlight' = 0
      /\ pc' = [c \in Callers |-> "idle"] /\ view' = durable /\ durable' = durable
      /\ undone' = undone /\ phase' = "down" /\ crashes' = crashes + 1 /\ crashes < MaxCrashes
  BY DEF Crash
<1>2. TypeOK'
  <2>1. crashes' \in 0 .. MaxCrashes
    BY <1>1, MaxCrashesAssumption DEF MarkerInv, TypeOK
  <2>2. pc' \in [Callers -> SenderPcs \cup WriterPcs]
    BY <1>1 DEF SenderPcs
  <2>3. /\ queue' \in Seq(Stmts)
        /\ inFlight' \in Nat
    BY <1>1
  <2>5. inTxn' \in BOOLEAN /\ dirty' \in BOOLEAN
    BY <1>1
  <2>4. phase' \in {"down", "initialise", "park", "settle", "up"}
    BY <1>1
  <2> QED BY <1>1, <2>1, <2>2, <2>3, <2>4, <2>5 DEF TypeOK, MarkerInv
<1>3. Span(pc') = {}
  BY <1>1 DEF Span, SpanPcs, Callers
<1>4. inFlight' = Cardinality(Span(pc'))
  BY <1>1, <1>3, FS_EmptySet
<1>5. QueueOK(queue, pc)' /\ ClearStaysOutsideSpans' /\ DirtyFlagIsBacked'
  BY <1>1 DEF QueueOK, ClearStaysOutsideSpans, DirtyFlagIsBacked
<1>6. RelyingSeesMarker' /\ DownIsQuiet'
  BY <1>1 DEF RelyingSeesMarker, DownIsQuiet, Callers
<1> QED BY <1>1, <1>2, <1>4, <1>5, <1>6 DEF MarkerInv, Covered, NoSending

\* Lifting or parking the rows of a dead process leaves none sending.
LEMMA LiftFacts ==
    ASSUME NEW store \in Store
    PROVE  /\ Lift(store) \in Store /\ NoSending(Lift(store))
           /\ Quarantine(store) \in Store /\ NoSending(Quarantine(store))
           /\ Lift(store).marker = store.marker
  BY DEF Lift, Quarantine, Store, Statuses, NoSending

\* Every boot step: where it leads, and what it leaves in the store.
LEMMA BootFacts ==
    ASSUME MarkerInv, Boot
    PROVE  \E p \in Phases, store \in Store :
              /\ phase # "up" /\ BootTo(p, store) /\ Covered(store)
              /\ p \in {"initialise", "settle", "up"} => NoSending(store)
<1>1. view \in Store /\ Covered(view)
  BY DEF MarkerInv, TypeOK
<1>2. /\ Lift(view) \in Store /\ NoSending(Lift(view))
      /\ Quarantine(view) \in Store /\ NoSending(Quarantine(view))
  BY <1>1, LiftFacts
<1>3. CASE BootSkip
  BY <1>1, <1>3 DEF BootSkip, Covered, Phases
<1>4. CASE BootRecover
  <2> DEFINE t == [Lift(view) EXCEPT !.marker = IF NoSending(Lift(view)) THEN "false" ELSE @]
  <2>1. t \in Store /\ NoSending(t)
    BY <1>2 DEF Store, Markers, NoSending
  <2>2. phase # "up" /\ BootTo("up", t)
    BY <1>4 DEF BootRecover
  <2> QED BY <2>1, <2>2 DEF Phases, Covered
<1>5. CASE BootLiftUnmarked
  BY <1>2, <1>5 DEF BootLiftUnmarked, Phases, Covered
<1>6. CASE BootInitialise
  <2> DEFINE t == [view EXCEPT !.marker = "false"]
  <2>1. phase = "initialise" /\ BootTo("up", t)
    BY <1>6 DEF BootInitialise
  <2>2. t \in Store /\ NoSending(t)
    BY <1>1, <2>1 DEF Store, Markers, NoSending, MarkerInv
  <2> QED BY <2>1, <2>2 DEF Phases, Covered
<1>7. CASE BootRestoreLift
  BY <1>2, <1>7 DEF BootRestoreLift, Phases, Covered
<1>8. CASE BootRestorePark
  BY <1>2, <1>8 DEF BootRestorePark, Phases, Covered
<1>9. CASE BootRestoreSettle
  <2> DEFINE t == IF view.marker # "absent" /\ NoSending(view)
                  THEN [view EXCEPT !.marker = "false"] ELSE view
  <2>1. phase = "settle" /\ BootTo("up", t)
    BY <1>9 DEF BootRestoreSettle
  <2>2. t \in Store /\ NoSending(t)
    BY <1>1, <2>1 DEF Store, Markers, NoSending, MarkerInv
  <2> QED BY <2>1, <2>2 DEF Phases, Covered
<1> QED BY <1>3, <1>4, <1>5, <1>6, <1>7, <1>8, <1>9 DEF Boot

\* Every stage of runBootRecovery preserves the invariant.
LEMMA BootKeepsInv ==
    ASSUME MarkerInv, Boot
    PROVE  MarkerInv'
<1>1. PICK p \in Phases, store \in Store :
          /\ phase # "up" /\ BootTo(p, store) /\ Covered(store)
          /\ p \in {"initialise", "settle", "up"} => NoSending(store)
  BY BootFacts
<1>2. /\ phase' = p /\ view' = store /\ durable' = store
      /\ UNCHANGED <<inTxn, queue, dirty, inFlight, pc, crashes, undone>>
  BY <1>1 DEF BootTo
<1>3. queue = <<>> /\ ~inTxn /\ ~dirty /\ pc = [c \in Callers |-> "idle"]
  BY <1>1 DEF MarkerInv, DownIsQuiet
<1>4. TypeOK'
  BY <1>2 DEF MarkerInv, TypeOK, Phases
<1>5. QueueOK(queue, pc)' /\ inFlight' = Cardinality(Span(pc'))
  BY <1>2 DEF MarkerInv
<1>6. ClearStaysOutsideSpans' /\ DirtyFlagIsBacked'
  BY <1>2, <1>3 DEF ClearStaysOutsideSpans, DirtyFlagIsBacked
<1>7. RelyingSeesMarker' /\ DownIsQuiet'
  BY <1>2, <1>3 DEF RelyingSeesMarker, DownIsQuiet, Callers
<1> QED BY <1>1, <1>2, <1>4, <1>5, <1>6, <1>7 DEF MarkerInv, Covered, NoSending

-----------------------------------------------------------------------------
\* Only a ROLLBACK sets the history, and nothing resets it.
LEMMA UndoneFacts ==
    ASSUME [Next]_vars
    PROVE  undone' = undone \/ (ExecuteRollback /\ (undone => undone'))
<1>1. CASE UNCHANGED vars
  BY <1>1 DEF vars
<1>2. CASE Execute
  BY <1>2 DEF Execute, ExecuteData, ExecuteBegin, ExecuteCommit, ExecuteRollback
<1>3. CASE \E s \in Senders : Sender(s)
  BY <1>3 DEF Sender, MarkSending, MarkerWritten, Post, Answered, SettleRecoveryMarker, Finish
<1>4. CASE \E w \in Writers : Writer(w)
  BY <1>4 DEF Writer, WriterBegin, WriterInsert, WriterThrow, WriterCommit, WriterDone
<1>5. CASE Crash
  BY <1>5 DEF Crash
<1>6. CASE Boot
  BY <1>6 DEF Boot, BootSkip, BootRecover, BootLiftUnmarked, BootInitialise, BootRestoreLift,
              BootRestorePark, BootRestoreSettle, BootTo
<1> QED BY <1>1, <1>2, <1>3, <1>4, <1>5, <1>6 DEF Next

\* Every step that undoes nothing preserves the invariant.
LEMMA StepKeepsInv ==
    ASSUME MarkerInv, [Next]_vars, ~undone'
    PROVE  MarkerInv'
<1>1. CASE UNCHANGED vars
  BY <1>1 DEF vars, MarkerInv, TypeOK, QueueOK, Span, ClearStaysOutsideSpans, RelyingSeesMarker,
              DirtyFlagIsBacked, Covered, DownIsQuiet, NoSending
<1>2. CASE Next
  BY <1>2, ExecuteKeepsInv, SenderKeepsInv, WriterKeepsInv, CrashKeepsInv, BootKeepsInv DEF Next
<1> QED BY <1>1, <1>2

\* The invariant holds until a rollback undoes something.
LEMMA UntilUndone ==
    ASSUME undone \/ MarkerInv, [Next]_vars
    PROVE  undone' \/ MarkerInv'
<1>1. CASE undone
  BY <1>1, UndoneFacts
<1>2. CASE ~undone
  BY <1>2, StepKeepsInv
<1> QED BY <1>1, <1>2

\* When no writer throws, nothing is ever undone.
LEMMA NeverUndone ==
    ASSUME Failing = {}, MarkerInv, [Next]_vars
    PROVE  MarkerInv'
<1>1. ~ExecuteRollback
  <2> SUFFICES ASSUME ExecuteRollback PROVE FALSE
    OBVIOUS
  <2>1. queue # <<>> /\ queue \in Seq(Stmts) /\ Head(queue).kind = "Rollback"
    BY DEF ExecuteRollback, MarkerInv, TypeOK
  <2>2. Head(queue) = queue[1] /\ 1 \in 1 .. Len(queue)
    BY <2>1, TailFacts
  <2> QED BY <2>1, <2>2 DEF MarkerInv, QueueOK, Awaits
<1>2. undone' = undone
  BY <1>1, UndoneFacts
<1> QED BY <1>2, StepKeepsInv DEF MarkerInv

(***************************************************************************)
(* The marker protocol of ensureRecoveryMarker, markSendingScope and       *)
(* settleRecoveryMarker is correct for any number of concurrent flushes    *)
(* and local writes, throwing ones included: no crash leaves a store whose *)
(* marker is "false" and whose journal holds a `sending` row, unless a     *)
(* ROLLBACK has undone what another caller wrote.                          *)
(***************************************************************************)
THEOREM MarkerTheorem ==
    Spec => [](MarkerCoversSending /\ DirtyFlagIsBacked /\ (undone \/ ClearStaysOutsideSpans))
<1> DEFINE Inv == undone \/ MarkerInv
<1>1. Inv => MarkerCoversSending /\ DirtyFlagIsBacked /\ (undone \/ ClearStaysOutsideSpans)
  BY DEF MarkerInv, Covered, MarkerCoversSending, DirtyFlagIsBacked
<1>2. Inv /\ [Next]_vars => Inv'
  BY UntilUndone
<1>3. Init => Inv
  BY InitEstablishesInv
<1> HIDE DEF Inv
<1> QED BY <1>1, <1>2, <1>3, PTL DEF Spec

(***************************************************************************)
(* TypeOK of RecoveryMarker when no writer throws; in particular the       *)
(* counter markSendingInFlight never goes below zero.                      *)
(***************************************************************************)
THEOREM TypeTheorem ==
    ASSUME Failing = {}
    PROVE  Spec => []TypeOK
<1>1. MarkerInv => TypeOK
  BY DEF MarkerInv
<1>2. MarkerInv /\ [Next]_vars => MarkerInv'
  BY NeverUndone
<1> QED BY <1>1, <1>2, InitEstablishesInv, PTL DEF Spec

(***************************************************************************)
(* runBootRecovery is complete: whichever way the marker read, a boot that *)
(* finishes leaves no `sending` row in the store, unless a rollback had    *)
(* undone another caller's write before.                                   *)
(***************************************************************************)
THEOREM BootTheorem == Spec => BootLeavesNoSending
<1> DEFINE Inv == undone \/ MarkerInv
<1>1. Inv /\ [Next]_vars => [phase # "up" /\ phase' = "up" => undone \/ NoSending(durable')]_vars
  <2> SUFFICES ASSUME MarkerInv, Next, phase # "up", phase' = "up"
               PROVE  NoSending(durable')
    OBVIOUS
  <2>1. CASE Boot
    <3>1. PICK p \in Phases, store \in Store :
              BootTo(p, store) /\ (p \in {"initialise", "settle", "up"} => NoSending(store))
      BY <2>1, BootFacts
    <3> QED BY <3>1 DEF BootTo
  <2>2. CASE ~Boot
    BY <2>2 DEF Next, Execute, ExecuteData, ExecuteBegin, ExecuteCommit, ExecuteRollback, Resolve,
          Sender, MarkSending, MarkerWritten, Post, Answered, SettleRecoveryMarker, Finish,
          Writer, WriterBegin, WriterInsert, WriterThrow, WriterCommit, WriterDone, Crash
  <2> QED BY <2>1, <2>2
<1>2. Inv /\ [Next]_vars => Inv'
  BY UntilUndone
<1>3. Init => Inv
  BY InitEstablishesInv
<1> HIDE DEF Inv
<1> QED BY <1>1, <1>2, <1>3, PTL DEF Spec, BootLeavesNoSending
=============================================================================
