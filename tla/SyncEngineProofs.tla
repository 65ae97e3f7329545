-------------------------- MODULE SyncEngineProofs --------------------------
(***************************************************************************)
(* Proofs about SyncEngine, for every set of shapes, keys and tables and   *)
(* every bound.  First, with the windows open, what the engine records,    *)
(* holds and reports about positions in the streams.  Then the fold of the *)
(* changes, for any rows and changes.  Then, with no row moving, what the  *)
(* rows are and which bulk loads can collide; with no crash inside         *)
(* desync() either, the engine implements GroupReplica.                    *)
(***************************************************************************)
EXTENDS SyncEngine, FiniteSetTheorems, SequenceTheorems, WellFoundedInduction, TLAPS

-----------------------------------------------------------------------------
(***************************************************************************)
(* The streams: each keeps its entries, and a shape keeps its streams.     *)
(***************************************************************************)
Changes == [op : {"upsert", "delete"}, key : Keys, val : Nat]
IsServerRow(r) == r.key \in Keys /\ r.scope \in Shapes /\ r.val \in Nat
IsStreams(str) == str \in [Shapes -> Seq(Seq(Changes))] /\ \A s \in Shapes : Len(str[s]) > 0

ServerOK ==
    /\ IsStreams(streams)
    /\ IsFiniteSet(truth) /\ \A r \in truth \cup flips : IsServerRow(r)
    /\ used.writes \in Nat /\ used = [writes |-> used.writes, troubles |-> used.troubles]

\* Streams are added and appended to, and never rewritten.
Continues(new, old) == Len(new) >= Len(old) /\ \A i \in 1 .. Len(old) : new[i] = old[i]
GrownTo(old, new) == \A s \in Shapes :
    /\ Len(new[s]) >= Len(old[s])
    /\ \A h \in 1 .. Len(old[s]) : Continues(new[s][h], old[s][h])

LEMMA StreamTypes ==
    ASSUME NEW str, IsStreams(str), NEW s \in Shapes
    PROVE  /\ str[s] \in Seq(Seq(Changes)) /\ Len(str[s]) \in Nat /\ Len(str[s]) > 0
           /\ Len(str[s]) \in 1 .. Len(str[s])
           /\ \A h \in 1 .. Len(str[s]) : str[s][h] \in Seq(Changes) /\ Len(str[s][h]) \in Nat
<1>1. str[s] \in Seq(Seq(Changes)) /\ Len(str[s]) > 0
  BY DEF IsStreams
<1>2. Len(str[s]) \in Nat /\ \A h \in 1 .. Len(str[s]) : str[s][h] \in Seq(Changes)
  BY <1>1
<1>3. \A h \in 1 .. Len(str[s]) : Len(str[s][h]) \in Nat
  BY <1>2
<1> QED BY <1>1, <1>2, <1>3

LEMMA GrowthChains ==
    ASSUME NEW a, NEW b, NEW c, IsStreams(a), IsStreams(b), IsStreams(c), GrownTo(a, b), GrownTo(b, c)
    PROVE  GrownTo(a, c)
<1> SUFFICES ASSUME NEW s \in Shapes
             PROVE  /\ Len(c[s]) >= Len(a[s])
                    /\ \A h \in 1 .. Len(a[s]) : Continues(c[s][h], a[s][h])
  BY DEF GrownTo
<1>1. Len(a[s]) \in Nat /\ Len(b[s]) \in Nat /\ Len(c[s]) \in Nat
  BY StreamTypes
<1>2. Len(b[s]) >= Len(a[s]) /\ Len(c[s]) >= Len(b[s])
  BY DEF GrownTo
<1>3. ASSUME NEW h \in 1 .. Len(a[s]) PROVE Continues(c[s][h], a[s][h])
  <2>1. h \in 1 .. Len(b[s]) /\ h \in 1 .. Len(c[s])
    BY <1>1, <1>2
  <2>2. Len(a[s][h]) \in Nat /\ Len(b[s][h]) \in Nat /\ Len(c[s][h]) \in Nat
    BY <2>1, StreamTypes
  <2>3. Continues(b[s][h], a[s][h]) /\ Continues(c[s][h], b[s][h])
    BY <2>1 DEF GrownTo
  <2> QED BY <2>2, <2>3 DEF Continues
<1> QED BY <1>1, <1>2, <1>3

LEMMA AppendGrows ==
    ASSUME NEW str, IsStreams(str), NEW s \in Shapes, NEW c \in Changes
    PROVE  IsStreams(AppendLog(str, s, c)) /\ GrownTo(str, AppendLog(str, s, c))
<1> DEFINE n == Len(str[s])
           log == str[s][n]
           logs == [str[s] EXCEPT ![n] = Append(log, c)]
           new == AppendLog(str, s, c)
<1>1. str[s] \in Seq(Seq(Changes)) /\ n \in 1 .. n /\ n \in Nat
  BY StreamTypes
<1>2. log \in Seq(Changes)
  BY <1>1
<1>3. Append(log, c) \in Seq(Changes) /\ Len(Append(log, c)) = Len(log) + 1 /\ Len(log) \in Nat
  BY <1>2
<1>4. /\ logs \in Seq(Seq(Changes)) /\ Len(logs) = n
      /\ \A j \in 1 .. n : logs[j] = IF j = n THEN Append(log, c) ELSE str[s][j]
  BY <1>1, <1>3, ExceptSeq
<1>5. new = [str EXCEPT ![s] = logs]
  BY DEF AppendLog
<1> HIDE DEF logs, new
<1>6. /\ new \in [Shapes -> Seq(Seq(Changes))] /\ new[s] = logs
      /\ \A t \in Shapes : t # s => new[t] = str[t]
  BY <1>4, <1>5 DEF IsStreams
<1>7. \A t \in Shapes : Len(new[t]) >= Len(str[t]) /\ Len(new[t]) > 0
  <2> TAKE t \in Shapes
  <2>1. Len(str[t]) \in Nat /\ Len(str[t]) > 0
    BY StreamTypes
  <2> QED BY <1>4, <1>6, <2>1
<1>8. \A t \in Shapes : \A h \in 1 .. Len(str[t]) : Continues(new[t][h], str[t][h])
  <2> TAKE t \in Shapes
  <2> TAKE h \in 1 .. Len(str[t])
  <2>1. Len(str[t][h]) \in Nat
    BY StreamTypes
  <2>2. new[t][h] = str[t][h] \/ (t = s /\ h = n /\ new[t][h] = Append(log, c))
    BY <1>4, <1>6
  <2>3. CASE new[t][h] = str[t][h]
    BY <2>1, <2>3 DEF Continues
  <2>4. CASE t = s /\ h = n /\ new[t][h] = Append(log, c)
    <3>1. \A i \in 1 .. Len(log) : Append(log, c)[i] = log[i]
      BY <1>2
    <3> QED BY <1>3, <2>4, <3>1 DEF Continues
  <2> QED BY <2>2, <2>3, <2>4
<1>9. IsStreams(new) /\ GrownTo(str, new)
  BY <1>6, <1>7, <1>8 DEF IsStreams, GrownTo
<1> QED BY <1>9 DEF new

LEMMA SnapshotAdds ==
    ASSUME NEW str, IsStreams(str), NEW s \in Shapes, NEW log \in Seq(Changes)
    PROVE  LET new == [str EXCEPT ![s] = Append(@, log)]
           IN  IsStreams(new) /\ GrownTo(str, new)
<1> DEFINE new == [str EXCEPT ![s] = Append(@, log)]
<1>1. \A t \in Shapes : /\ str[t] \in Seq(Seq(Changes)) /\ Len(str[t]) \in Nat
                        /\ \A h \in 1 .. Len(str[t]) : str[t][h] \in Seq(Changes)
  BY DEF IsStreams
<1>2. /\ Append(str[s], log) \in Seq(Seq(Changes)) /\ Len(Append(str[s], log)) = Len(str[s]) + 1
      /\ \A h \in 1 .. Len(str[s]) : Append(str[s], log)[h] = str[s][h]
  BY <1>1
<1>3. /\ new \in [Shapes -> Seq(Seq(Changes))] /\ new[s] = Append(str[s], log)
      /\ \A t \in Shapes : t # s => new[t] = str[t]
  BY <1>2 DEF IsStreams
<1> HIDE DEF new
<1>4. ASSUME NEW t \in Shapes
      PROVE  /\ Len(new[t]) \in Nat /\ Len(new[t]) >= Len(str[t]) /\ Len(new[t]) > 0
             /\ \A h \in 1 .. Len(str[t]) : Len(new[t][h]) \in Nat /\ new[t][h] = str[t][h]
  <2>1. /\ Len(str[t]) \in Nat /\ Len(str[t]) > 0
        /\ \A h \in 1 .. Len(str[t]) : Len(str[t][h]) \in Nat
    BY StreamTypes
  <2>2. CASE t = s
    BY <1>2, <1>3, <2>1, <2>2
  <2>3. CASE t # s
    BY <1>3, <2>1, <2>3
  <2> QED BY <2>2, <2>3
<1>5. \A t \in Shapes : \A h \in 1 .. Len(str[t]) : Continues(new[t][h], str[t][h])
  <2> TAKE t \in Shapes
  <2> TAKE h \in 1 .. Len(str[t])
  <2>1. new[t][h] = str[t][h] /\ Len(str[t][h]) \in Nat
    BY <1>4, StreamTypes
  <2> QED BY <2>1 DEF Continues
<1>6. IsStreams(new) /\ GrownTo(str, new)
  BY <1>3, <1>4, <1>5 DEF IsStreams, GrownTo
<1> QED BY <1>6 DEF new

\* The rows a new stream starts with.
LEMMA SnapshotType ==
    ASSUME NEW mine, IsFiniteSet(mine), \A r \in mine : IsServerRow(r)
    PROVE  [i \in 1..Len(SetToSeq(mine)) |->
               Change("upsert", SetToSeq(mine)[i].key, SetToSeq(mine)[i].val)] \in Seq(Changes)
<1> DEFINE n == Cardinality(mine)
           f == SetToSeq(mine)
<1>1. n \in Nat /\ ExistsBijection(1 .. n, mine)
  BY FS_CardinalityType
<1>2. \E g \in [1 .. n -> mine] : IsInjective(g)
  BY <1>1 DEF ExistsBijection, Bijection, Injection
<1>3. f \in [1 .. n -> mine]
  BY <1>2 DEF SetToSeq
<1> HIDE DEF f
<1>4. Len(f) = n /\ \A i \in 1 .. n : f[i] \in mine
  BY <1>1, <1>3
<1>5. \A i \in 1 .. n : Change("upsert", f[i].key, f[i].val) \in Changes
  BY <1>4 DEF Change, Changes, IsServerRow
<1> QED BY <1>1, <1>4, <1>5 DEF f

\* Every step of the server.
LEMMA ServerStep ==
    ASSUME ServerOK, Serve
    PROVE  ServerOK' /\ GrownTo(streams, streams')
<1> DEFINE Goal == ServerOK' /\ GrownTo(streams, streams')
<1> SUFFICES Goal
  OBVIOUS
<1>0. /\ IsStreams(streams) /\ IsFiniteSet(truth) /\ GrownTo(streams, streams)
      /\ \A r \in truth \cup flips : r.key \in Keys /\ r.scope \in Shapes /\ r.val \in Nat
      /\ used.writes \in Nat /\ used = [writes |-> used.writes, troubles |-> used.troubles]
  <2>1. GrownTo(streams, streams)
    <3> SUFFICES ASSUME NEW s \in Shapes
                 PROVE  /\ Len(streams[s]) >= Len(streams[s])
                        /\ \A h \in 1 .. Len(streams[s]) : Continues(streams[s][h], streams[s][h])
      BY DEF GrownTo
    <3> QED BY StreamTypes DEF ServerOK, Continues
  <2> QED BY <2>1 DEF ServerOK, IsServerRow
<1>1. ASSUME NEW what \in {"writes", "troubles"}, NEW bound, Spend(what, bound)
      PROVE  /\ used'.writes \in Nat /\ used' = [writes |-> used'.writes, troubles |-> used'.troubles]
  <2>1. used' = [used EXCEPT ![what] = used[what] + 1]
    BY <1>1 DEF Spend
  <2>2. CASE what = "writes"
    <3>1. used.writes \in Nat /\ used = [writes |-> used.writes, troubles |-> used.troubles]
      BY <1>0
    <3>2. used' = [writes |-> used.writes + 1, troubles |-> used.troubles]
      BY <2>1, <2>2, <3>1
    <3> QED BY <3>1, <3>2
  <2>3. CASE what = "troubles"
    BY <1>0, <2>1, <2>3
  <2> QED BY <2>2, <2>3
<1>2. ASSUME NEW s \in Shapes, NEW k \in Keys, ServerUpsert(s, k) PROVE Goal
  <2> DEFINE old  == Holder(TableOf[s], k)
             v    == used.writes + 1
             left == {r \in old : r.scope # s}
             scope == (CHOOSE r \in left : TRUE).scope
             str  == IF left = {} THEN streams
                     ELSE AppendLog(streams, scope, Change("delete", k, 0))
             row  == [table |-> TableOf[s], key |-> k, scope |-> s, val |-> v]
  <2>1. /\ truth' = (truth \ old) \cup {row} /\ streams' = AppendLog(str, s, Change("upsert", k, v))
        /\ flips' = flips /\ Spend("writes", MaxWrites)
    BY <1>2 DEF ServerUpsert
  <2>2. v \in Nat /\ IsServerRow(row)
    BY <1>0 DEF IsServerRow
  <2>3. IsFiniteSet(truth')
    <3>1. IsFiniteSet(truth \ old)
      BY <1>0, FS_Difference
    <3> HIDE DEF old, row
    <3> QED BY <2>1, <3>1, FS_AddElement
  <2>4. IsStreams(str) /\ GrownTo(streams, str)
    <3>1. CASE left = {}
      BY <1>0, <3>1
    <3>2. CASE left # {}
      <4>1. scope \in Shapes
        <5>1. (CHOOSE r \in left : TRUE) \in left
          BY <3>2
        <5>2. left \subseteq truth
          BY DEF Holder
        <5> HIDE DEF left
        <5> QED BY <1>0, <5>1, <5>2
      <4>2. Change("delete", k, 0) \in Changes
        BY DEF Change, Changes
      <4> HIDE DEF scope, left
      <4> QED BY <1>0, <3>2, <4>1, <4>2, AppendGrows
    <3> QED BY <3>1, <3>2
  <2>5. Change("upsert", k, v) \in Changes
    BY <2>2 DEF Change, Changes
  <2> HIDE DEF str, v, row, old
  <2>6. IsStreams(streams') /\ GrownTo(str, streams')
    BY <2>1, <2>4, <2>5, AppendGrows
  <2>7. GrownTo(streams, streams')
    BY <1>0, <2>4, <2>6, GrowthChains
  <2>8. \A r \in truth' \cup flips' : IsServerRow(r)
    BY <1>0, <2>1, <2>2 DEF IsServerRow
  <2>9. used'.writes \in Nat /\ used' = [writes |-> used'.writes, troubles |-> used'.troubles]
    BY <1>1, <2>1
  <2> QED BY <2>3, <2>6, <2>7, <2>8, <2>9 DEF ServerOK
<1>3. ASSUME NEW r \in truth, ServerDelete(r) PROVE Goal
  <2>1. /\ truth' = truth \ {r} /\ flips' = flips /\ Spend("writes", MaxWrites)
        /\ streams' = AppendLog(streams, r.scope, Change("delete", r.key, 0))
    BY <1>3 DEF ServerDelete
  <2>2. Change("delete", r.key, 0) \in Changes /\ r.scope \in Shapes
    BY <1>0 DEF Change, Changes
  <2>3. IsStreams(streams') /\ GrownTo(streams, streams')
    BY <1>0, <2>1, <2>2, AppendGrows
  <2>4. IsFiniteSet(truth')
    BY <1>0, <2>1, FS_Difference
  <2>5. used'.writes \in Nat /\ used' = [writes |-> used'.writes, troubles |-> used'.troubles]
    BY <1>1, <2>1
  <2> QED BY <1>0, <2>1, <2>3, <2>4, <2>5 DEF ServerOK, IsServerRow
<1>4. ASSUME NEW r \in truth, ServerFlip(r) PROVE Goal
  <2>1. /\ truth' = truth \ {r} /\ flips' = flips \cup {r} /\ Spend("troubles", MaxTroubles)
        /\ streams' = streams
    BY <1>4 DEF ServerFlip
  <2>4. IsFiniteSet(truth')
    BY <1>0, <2>1, FS_Difference
  <2>5. used'.writes \in Nat /\ used' = [writes |-> used'.writes, troubles |-> used'.troubles]
    BY <1>1, <2>1
  <2> QED BY <1>0, <2>1, <2>4, <2>5 DEF ServerOK, IsServerRow
<1>5. ASSUME NEW r \in flips, DeliverFlip(r) PROVE Goal
  <2>1. /\ truth' = truth /\ flips' = flips \ {r} /\ used' = used
        /\ streams' = AppendLog(streams, r.scope, Change("delete", r.key, 0))
    BY <1>5 DEF DeliverFlip
  <2>2. Change("delete", r.key, 0) \in Changes /\ r.scope \in Shapes
    BY <1>0 DEF Change, Changes
  <2>3. IsStreams(streams') /\ GrownTo(streams, streams')
    BY <1>0, <2>1, <2>2, AppendGrows
  <2> QED BY <1>0, <2>1, <2>3 DEF ServerOK, IsServerRow
<1>6. CASE AbandonFlip
  BY <1>0, <1>6 DEF AbandonFlip, ServerOK, IsServerRow
<1>7. ASSUME NEW s \in Shapes, Recreate(s) PROVE Goal
  <2> DEFINE mine == {r \in truth : r.scope = s}
             snapshot == [i \in 1..Len(SetToSeq(mine)) |->
                             Change("upsert", SetToSeq(mine)[i].key, SetToSeq(mine)[i].val)]
  <2>1. /\ streams' = [streams EXCEPT ![s] = Append(@, snapshot)]
        /\ truth' = truth /\ flips' = flips /\ Spend("troubles", MaxTroubles)
    BY <1>7 DEF Recreate
  <2>2. IsFiniteSet(mine) /\ \A r \in mine : IsServerRow(r)
    BY <1>0, FS_Subset DEF IsServerRow
  <2> HIDE DEF mine
  <2>3. snapshot \in Seq(Changes)
    BY <2>2, SnapshotType
  <2> HIDE DEF snapshot
  <2>4. IsStreams(streams') /\ GrownTo(streams, streams')
    BY <1>0, <2>1, <2>3, SnapshotAdds
  <2>5. used'.writes \in Nat /\ used' = [writes |-> used'.writes, troubles |-> used'.troubles]
    BY <1>1, <2>1
  <2> QED BY <1>0, <2>1, <2>4, <2>5 DEF ServerOK, IsServerRow
<1> HIDE DEF Goal
<1> QED BY <1>2, <1>3, <1>4, <1>5, <1>6, <1>7 DEF Serve

-----------------------------------------------------------------------------
(***************************************************************************)
(* The line a shape's positions form: what the cursor acknowledges, then   *)
(* what the inbox holds up to `end`, then the batch in the delivery queue, *)
(* then the response read ahead, each starting where the one before ends.  *)
(* `delivered` says that the head of the queue is in the inbox already.    *)
(***************************************************************************)
Batch == [shape : Shapes, lo : Nat, hi : Nat, upToDate : BOOLEAN]
IsReader(r) == DOMAIN r = {"asked", "from", "got", "busy", "ended"}

ReadAhead(got, s, from, len, tail) ==
    got = <<>> \/ \E b \in Batch : /\ got = <<b>> /\ b.shape = s /\ b.lo = from /\ b.hi \in from .. len
                                   /\ b.upToDate => b.hi >= tail

\* The reader of shape s, when the inbox holds up to `end`.
ReaderOK(r, s, end, len, tail) ==
    /\ IsReader(r) /\ r.from \in 0 .. len
    /\ ~r.busy => r.from = end /\ r.got = <<>>
    /\ ReadAhead(r.got, s, r.from, len, tail)

BatchOK(b, rd, end, tail, delivered) ==
    /\ b.hi = rd[b.shape].from /\ b.lo <= b.hi /\ (b.upToDate => b.hi >= tail[b.shape])
    /\ end[b.shape] = IF delivered THEN b.hi ELSE b.lo

LineOK(q, rd, end, delivered, len, tail) ==
    /\ q \in Seq(Batch) /\ (delivered => Len(q) > 0)
    /\ \A i \in 1 .. Len(q) : BatchOK(q[i], rd, end, tail, i = 1 /\ delivered)
    /\ \A i \in 1 .. Len(q) : \A j \in 1 .. Len(q) : q[i].shape = q[j].shape => i = j
    /\ rd = [s \in Shapes |-> rd[s]]
    /\ \A s \in Shapes : /\ rd[s].busy <=> \E i \in 1 .. Len(q) : q[i].shape = s
                         /\ ReaderOK(rd[s], s, end[s], len[s], tail[s])

\* A response is read: it is handed over, or held behind the one being delivered.
LEMMA AnswerLine ==
    ASSUME NEW q, NEW rd, NEW end, NEW d \in BOOLEAN, NEW len, NEW tail, LineOK(q, rd, end, d, len, tail),
           NEW s \in Shapes, NEW b \in Batch,
           b.shape = s, b.lo = rd[s].from, b.hi \in rd[s].from .. len[s], b.upToDate => b.hi >= tail[s]
    PROVE  IF rd[s].busy
           THEN LineOK(q, [rd EXCEPT ![s] = [@ EXCEPT !.asked = FALSE, !.got = <<b>>]], end, d, len, tail)
           ELSE LineOK(Append(q, b), [rd EXCEPT ![s] = HandOver(@, b)], end, d, len, tail)
<1>0. /\ q \in Seq(Batch) /\ Len(q) \in Nat /\ \A i \in 1 .. Len(q) : q[i] \in Batch /\ q[i].shape \in Shapes
      /\ rd = [t \in Shapes |-> rd[t]]
      /\ \A t \in Shapes : ReaderOK(rd[t], t, end[t], len[t], tail[t])
      /\ \A t \in Shapes : rd[t].busy <=> \E i \in 1 .. Len(q) : q[i].shape = t
      /\ b.hi \in Nat
  <2>1. q \in Seq(Batch) /\ Len(q) \in Nat /\ \A i \in 1 .. Len(q) : q[i] \in Batch
    BY DEF LineOK
  <2> QED BY <2>1 DEF LineOK, Batch
<1>1. CASE rd[s].busy
  <2> DEFINE r == [rd[s] EXCEPT !.asked = FALSE, !.got = <<b>>]
             new == [rd EXCEPT ![s] = r]
  <2>1. IsReader(r) /\ r.from = rd[s].from /\ r.busy = rd[s].busy /\ r.got = <<b>>
    BY <1>0 DEF ReaderOK, IsReader
  <2>2. ReadAhead(r.got, s, r.from, len[s], tail[s])
    BY <2>1 DEF ReadAhead
  <2>3. ReaderOK(r, s, end[s], len[s], tail[s])
    BY <1>0, <1>1, <2>1, <2>2 DEF ReaderOK
  <2>4. /\ new = [t \in Shapes |-> new[t]] /\ new[s] = r /\ \A t \in Shapes : t # s => new[t] = rd[t]
    BY <1>0
  <2> HIDE DEF r, new
  <2>5. /\ \A t \in Shapes : new[t].busy = rd[t].busy /\ new[t].from = rd[t].from
        /\ \A t \in Shapes : ReaderOK(new[t], t, end[t], len[t], tail[t])
    BY <1>0, <2>1, <2>3, <2>4
  <2>6. \A i \in 1 .. Len(q) : BatchOK(q[i], new, end, tail, i = 1 /\ d)
    BY <1>0, <2>5 DEF LineOK, BatchOK
  <2>7. LineOK(q, new, end, d, len, tail)
    BY <1>0, <2>4, <2>5, <2>6 DEF LineOK
  <2> QED BY <1>1, <2>7 DEF new, r
<1>2. CASE ~rd[s].busy
  <2> DEFINE r == HandOver(rd[s], b)
             new == [rd EXCEPT ![s] = r]
             p == Append(q, b)
  <2>1. IsReader(r) /\ r.from = b.hi /\ r.busy = TRUE /\ r.got = <<>>
    BY <1>0 DEF ReaderOK, IsReader, HandOver
  <2>2. ReaderOK(r, s, end[s], len[s], tail[s])
    BY <1>0, <2>1 DEF ReaderOK, ReadAhead
  <2>3. /\ new = [t \in Shapes |-> new[t]] /\ new[s] = r /\ \A t \in Shapes : t # s => new[t] = rd[t]
    BY <1>0
  <2>4. /\ p \in Seq(Batch) /\ Len(p) = Len(q) + 1 /\ p[Len(p)] = b
        /\ \A i \in 1 .. Len(p) : i = Len(p) \/ (i \in 1 .. Len(q) /\ p[i] = q[i])
        /\ \A i \in 1 .. Len(q) : i \in 1 .. Len(p) /\ p[i] = q[i]
    BY <1>0
  <2> HIDE DEF r, new, p
  <2>5. \A i \in 1 .. Len(q) : q[i].shape # s
    BY <1>0, <1>2
  <2>6. \A i \in 1 .. Len(p) : BatchOK(p[i], new, end, tail, i = 1 /\ d)
    <3> TAKE i \in 1 .. Len(p)
    <3>1. CASE i = Len(p)
      <4>1. ~(i = 1 /\ d)
        BY <1>0, <2>4, <3>1 DEF LineOK
      <4>2. end[s] = b.lo /\ b.lo <= b.hi
        BY <1>0, <1>2 DEF ReaderOK
      <4> QED BY <2>1, <2>3, <2>4, <3>1, <4>1, <4>2 DEF BatchOK
    <3>2. CASE i \in 1 .. Len(q) /\ p[i] = q[i]
      BY <1>0, <2>3, <2>5, <3>2 DEF LineOK, BatchOK
    <3> QED BY <2>4, <3>1, <3>2
  <2>7. \A i \in 1 .. Len(p) : \A j \in 1 .. Len(p) : p[i].shape = p[j].shape => i = j
    BY <2>4, <2>5 DEF LineOK
  <2>8. \A t \in Shapes : /\ new[t].busy <=> \E i \in 1 .. Len(p) : p[i].shape = t
                          /\ ReaderOK(new[t], t, end[t], len[t], tail[t])
    <3> TAKE t \in Shapes
    <3>1. CASE t = s
      <4>1. Len(p) \in 1 .. Len(p)
        BY <1>0, <2>4
      <4> QED BY <2>1, <2>2, <2>3, <2>4, <3>1, <4>1
    <3>2. CASE t # s
      BY <1>0, <2>3, <2>4, <3>2
    <3> QED BY <3>1, <3>2
  <2>9. LineOK(p, new, end, d, len, tail)
    BY <1>0, <2>3, <2>4, <2>6, <2>7, <2>8 DEF LineOK
  <2> QED BY <1>2, <2>9 DEF new, p, r
<1> QED BY <1>1, <1>2

\* The head of the queue joins the inbox.
LEMMA IngestLine ==
    ASSUME NEW q, NEW rd, NEW end, NEW len, NEW tail, LineOK(q, rd, end, FALSE, len, tail),
           Len(q) > 0, end = [t \in Shapes |-> end[t]]
    PROVE  LineOK(q, rd, [end EXCEPT ![q[1].shape] = q[1].hi], TRUE, len, tail)
<1> DEFINE s == q[1].shape
           new == [end EXCEPT ![s] = q[1].hi]
<1>0. /\ q \in Seq(Batch) /\ Len(q) \in Nat /\ 1 \in 1 .. Len(q)
      /\ \A i \in 1 .. Len(q) : q[i] \in Batch /\ q[i].shape \in Shapes
      /\ \A i \in 1 .. Len(q) : BatchOK(q[i], rd, end, tail, FALSE)
      /\ rd = [t \in Shapes |-> rd[t]]
      /\ \A t \in Shapes : /\ ReaderOK(rd[t], t, end[t], len[t], tail[t])
                           /\ rd[t].busy <=> \E i \in 1 .. Len(q) : q[i].shape = t
  <2>1. q \in Seq(Batch) /\ Len(q) \in Nat /\ \A i \in 1 .. Len(q) : q[i] \in Batch
    BY DEF LineOK
  <2>2. \A i \in 1 .. Len(q) : BatchOK(q[i], rd, end, tail, i = 1 /\ FALSE)
    BY DEF LineOK
  <2>3. \A i \in 1 .. Len(q) : BatchOK(q[i], rd, end, tail, FALSE)
    BY <2>2 DEF BatchOK
  <2>4. \A i \in 1 .. Len(q) : q[i].shape \in Shapes
    BY <2>1 DEF Batch
  <2>5. /\ rd = [t \in Shapes |-> rd[t]]
        /\ \A t \in Shapes : /\ ReaderOK(rd[t], t, end[t], len[t], tail[t])
                             /\ rd[t].busy <=> \E i \in 1 .. Len(q) : q[i].shape = t
    BY DEF LineOK
  <2>6. 1 \in 1 .. Len(q)
    BY <2>1
  <2> QED BY <2>1, <2>3, <2>4, <2>5, <2>6
<1>1. /\ s \in Shapes /\ new[s] = q[1].hi /\ \A t \in Shapes : t # s => new[t] = end[t]
  BY <1>0
<1>2. \A i \in 1 .. Len(q) : i # 1 => q[i].shape # s
  BY <1>0 DEF LineOK
<1>3. rd[s].busy
  BY <1>0, <1>1
<1> HIDE DEF new
<1>4. \A i \in 1 .. Len(q) : BatchOK(q[i], rd, new, tail, i = 1 /\ TRUE)
  <2> TAKE i \in 1 .. Len(q)
  <2>1. CASE i = 1
    BY <1>0, <1>1, <2>1 DEF BatchOK
  <2>2. CASE i # 1
    BY <1>0, <1>1, <1>2, <2>2 DEF BatchOK
  <2> QED BY <2>1, <2>2
<1>5. \A t \in Shapes : ReaderOK(rd[t], t, new[t], len[t], tail[t])
  BY <1>0, <1>1, <1>3 DEF ReaderOK
<1>6. LineOK(q, rd, new, TRUE, len, tail)
  BY <1>0, <1>4, <1>5 DEF LineOK
<1> QED BY <1>6 DEF new

\* The head of the queue settles with nothing read ahead of it.
LEMMA TailLine ==
    ASSUME NEW q, NEW rd, NEW end, NEW len, NEW tail, LineOK(q, rd, end, TRUE, len, tail)
    PROVE  LineOK(Tail(q), [rd EXCEPT ![q[1].shape] = [@ EXCEPT !.busy = FALSE, !.got = <<>>]],
                  end, FALSE, len, tail)
<1> DEFINE s == q[1].shape
           r == [rd[s] EXCEPT !.busy = FALSE, !.got = <<>>]
           new == [rd EXCEPT ![s] = r]
           p == Tail(q)
<1>0. /\ q \in Seq(Batch) /\ Len(q) \in Nat /\ 1 \in 1 .. Len(q)
      /\ \A i \in 1 .. Len(q) : q[i] \in Batch /\ q[i].shape \in Shapes
      /\ \A i \in 1 .. Len(q) : BatchOK(q[i], rd, end, tail, i = 1)
      /\ rd = [t \in Shapes |-> rd[t]]
      /\ \A t \in Shapes : /\ ReaderOK(rd[t], t, end[t], len[t], tail[t])
                           /\ rd[t].busy <=> \E i \in 1 .. Len(q) : q[i].shape = t
  <2>1. q \in Seq(Batch) /\ Len(q) \in Nat /\ Len(q) > 0 /\ \A i \in 1 .. Len(q) : q[i] \in Batch
    BY DEF LineOK
  <2> QED BY <2>1 DEF LineOK, Batch
<1>1. s \in Shapes /\ \A i \in 1 .. Len(q) : i # 1 => q[i].shape # s
  BY <1>0 DEF LineOK
<1>2. IsReader(r) /\ r.from = rd[s].from /\ r.busy = FALSE /\ r.got = <<>>
  BY <1>0, <1>1 DEF ReaderOK, IsReader
<1>3. rd[s].from = end[s]
  BY <1>0 DEF BatchOK
<1>4. ReaderOK(r, s, end[s], len[s], tail[s])
  BY <1>0, <1>1, <1>2, <1>3 DEF ReaderOK, ReadAhead
<1>5. /\ new = [t \in Shapes |-> new[t]] /\ new[s] = r /\ \A t \in Shapes : t # s => new[t] = rd[t]
  BY <1>0, <1>1
<1>6. /\ p \in Seq(Batch) /\ Len(p) = Len(q) - 1 /\ \A i \in 1 .. Len(p) : p[i] = q[i + 1]
      /\ \A i \in 1 .. Len(p) : i + 1 \in 1 .. Len(q) /\ i + 1 # 1
      /\ \A i \in 1 .. Len(q) : i # 1 => i - 1 \in 1 .. Len(p) /\ p[i - 1] = q[i]
  <2>1. q # <<>>
    BY <1>0
  <2>2. p \in Seq(Batch) /\ Len(p) = Len(q) - 1 /\ \A i \in 1 .. Len(p) : p[i] = q[i + 1]
    BY <1>0, <2>1, HeadTailProperties
  <2> HIDE DEF p
  <2>3. \A i \in 1 .. Len(q) : i # 1 => i - 1 \in 1 .. Len(p) /\ (i - 1) + 1 = i
    BY <1>0, <2>2
  <2> QED BY <1>0, <2>2, <2>3
<1> HIDE DEF r, new, p
<1>7. \A i \in 1 .. Len(p) : BatchOK(p[i], new, end, tail, i = 1 /\ FALSE)
  <2> TAKE i \in 1 .. Len(p)
  <2>1. BatchOK(q[i + 1], rd, end, tail, FALSE) /\ q[i + 1].shape # s /\ q[i + 1].shape \in Shapes
    BY <1>0, <1>1, <1>6
  <2> QED BY <1>5, <1>6, <2>1 DEF BatchOK
<1>8. \A i \in 1 .. Len(p) : \A j \in 1 .. Len(p) : p[i].shape = p[j].shape => i = j
  <2> TAKE i \in 1 .. Len(p)
  <2> TAKE j \in 1 .. Len(p)
  <2>1. q[i + 1].shape = q[j + 1].shape => i + 1 = j + 1
    BY <1>6 DEF LineOK
  <2>2. i \in Nat /\ j \in Nat
    BY <1>0, <1>6
  <2> QED BY <1>6, <2>1, <2>2
<1>9. \A t \in Shapes : /\ new[t].busy <=> \E i \in 1 .. Len(p) : p[i].shape = t
                        /\ ReaderOK(new[t], t, end[t], len[t], tail[t])
  <2> TAKE t \in Shapes
  <2>1. CASE t = s
    BY <1>1, <1>2, <1>4, <1>5, <1>6, <2>1
  <2>2. CASE t # s
    <3>1. (\E i \in 1 .. Len(p) : p[i].shape = t) <=> (\E i \in 1 .. Len(q) : q[i].shape = t)
      <4>1. ASSUME NEW i \in 1 .. Len(q), q[i].shape = t PROVE \E j \in 1 .. Len(p) : p[j].shape = t
        BY <1>6, <2>2, <4>1
      <4> QED BY <1>6, <4>1
    <3> QED BY <1>0, <1>5, <2>2, <3>1
  <2> QED BY <2>1, <2>2
<1>10. LineOK(p, new, end, FALSE, len, tail)
  BY <1>5, <1>6, <1>7, <1>8, <1>9 DEF LineOK
<1> QED BY <1>10 DEF p, new, r

\* The delivery settles, and the response read ahead takes its place.
LEMMA SettleLine ==
    ASSUME NEW end, NEW len, NEW tail, LineOK(queue, reader, end, TRUE, len, tail),
           NEW next, Settle(next)
    PROVE  LineOK(queue', reader', end, FALSE, len, tail) /\ commit' = next
<1> DEFINE s == Head(queue).shape
           rd == reader[s]
           r1 == [reader EXCEPT ![s] = [@ EXCEPT !.busy = FALSE, !.got = <<>>]]
<1>0. /\ queue \in Seq(Batch) /\ queue # <<>> /\ Head(queue) = queue[1] /\ s \in Shapes
      /\ reader = [t \in Shapes |-> reader[t]] /\ ReaderOK(rd, s, end[s], len[s], tail[s])
  <2>1. queue \in Seq(Batch) /\ Len(queue) > 0
    BY DEF LineOK
  <2>2. queue # <<>> /\ Head(queue) = queue[1] /\ Head(queue) \in Batch
    BY <2>1
  <2>3. s \in Shapes
    BY <2>2 DEF Batch
  <2> QED BY <2>1, <2>2, <2>3 DEF LineOK
<1>1. LineOK(Tail(queue), r1, end, FALSE, len, tail)
  BY <1>0, TailLine
<1>2. CASE rd.got = <<>>
  <2>1. reader' = [reader EXCEPT ![s].busy = FALSE] /\ queue' = Tail(queue) /\ commit' = next
    BY <1>2 DEF Settle
  <2>2. [rd EXCEPT !.busy = FALSE] = [rd EXCEPT !.busy = FALSE, !.got = <<>>]
    BY <1>0, <1>2 DEF ReaderOK, IsReader
  <2>3. reader' = r1
    BY <1>0, <2>1, <2>2
  <2> QED BY <1>1, <2>1, <2>3
<1>3. CASE rd.got # <<>>
  <2>1. PICK b \in Batch : /\ rd.got = <<b>> /\ b.shape = s /\ b.lo = rd.from /\ b.hi \in rd.from .. len[s]
                           /\ b.upToDate => b.hi >= tail[s]
    BY <1>0, <1>3 DEF ReaderOK, ReadAhead
  <2>2. /\ reader' = [reader EXCEPT ![s] = HandOver(rd, b)] /\ queue' = Append(Tail(queue), b)
        /\ commit' = next
    BY <1>3, <2>1 DEF Settle
  <2>3. /\ r1[s].from = rd.from /\ ~r1[s].busy
        /\ r1[s] = [rd EXCEPT !.busy = FALSE, !.got = <<>>]
    BY <1>0 DEF ReaderOK, IsReader
  <2>4. HandOver(r1[s], b) = HandOver(rd, b)
    BY <1>0, <2>3 DEF ReaderOK, IsReader, HandOver
  <2>5. LineOK(Append(Tail(queue), b), [r1 EXCEPT ![s] = HandOver(@, b)], end, FALSE, len, tail)
    <3> HIDE DEF r1, s
    <3> QED BY <1>0, <1>1, <2>1, <2>3, AnswerLine
  <2>6. [r1 EXCEPT ![s] = HandOver(@, b)] = [reader EXCEPT ![s] = HandOver(rd, b)]
    BY <1>0, <2>4
  <2> QED BY <2>2, <2>5, <2>6
<1> QED BY <1>2, <1>3

\* The streams grow.
LEMMA GrowLine ==
    ASSUME NEW q, NEW rd, NEW end, NEW d, NEW len, NEW new, NEW tail, LineOK(q, rd, end, d, len, tail),
           \A s \in Shapes : len[s] \in Nat /\ new[s] \in Nat /\ new[s] >= len[s]
    PROVE  LineOK(q, rd, end, d, new, tail)
<1>1. ASSUME NEW s \in Shapes PROVE ReaderOK(rd[s], s, end[s], new[s], tail[s])
  <2>1. ReaderOK(rd[s], s, end[s], len[s], tail[s])
    BY DEF LineOK
  <2>2. len[s] \in Nat /\ new[s] \in Nat /\ new[s] >= len[s]
    OBVIOUS
  <2> QED BY <2>1, <2>2 DEF ReaderOK, ReadAhead
<1> QED BY <1>1 DEF LineOK

\* A reader that ends keeps its place.
LEMMA EndedLine ==
    ASSUME NEW q, NEW rd, NEW end, NEW d, NEW len, NEW tail, LineOK(q, rd, end, d, len, tail),
           NEW s \in Shapes
    PROVE  LineOK(q, [rd EXCEPT ![s].asked = FALSE, ![s].ended = TRUE], end, d, len, tail)
<1> DEFINE r == [rd[s] EXCEPT !.asked = FALSE, !.ended = TRUE]
           new == [rd EXCEPT ![s] = r]
<1>0. /\ q \in Seq(Batch) /\ \A i \in 1 .. Len(q) : q[i].shape \in Shapes
      /\ rd = [t \in Shapes |-> rd[t]] /\ ReaderOK(rd[s], s, end[s], len[s], tail[s])
  <2>1. q \in Seq(Batch) /\ \A i \in 1 .. Len(q) : q[i] \in Batch
    BY DEF LineOK
  <2> QED BY <2>1 DEF LineOK, Batch
<1>1. IsReader(r) /\ r.from = rd[s].from /\ r.busy = rd[s].busy /\ r.got = rd[s].got
  BY <1>0 DEF ReaderOK, IsReader
<1>2. /\ new = [t \in Shapes |-> new[t]] /\ new[s] = r /\ \A t \in Shapes : t # s => new[t] = rd[t]
      /\ new = [rd EXCEPT ![s].asked = FALSE, ![s].ended = TRUE]
  BY <1>0
<1> HIDE DEF r, new
<1>3. \A t \in Shapes : new[t].from = rd[t].from /\ new[t].busy = rd[t].busy
                        /\ ReaderOK(new[t], t, end[t], len[t], tail[t])
  BY <1>0, <1>1, <1>2 DEF ReaderOK, LineOK
<1>4. \A i \in 1 .. Len(q) : BatchOK(q[i], new, end, tail, i = 1 /\ d)
  BY <1>0, <1>3 DEF LineOK, BatchOK
<1>5. LineOK(q, new, end, d, len, tail)
  BY <1>2, <1>3, <1>4 DEF LineOK
<1> QED BY <1>2, <1>5

-----------------------------------------------------------------------------
(***************************************************************************)
(* What the inbox holds for a shape: one range of its stream, which starts *)
(* where the cursor acknowledges up to.                                    *)
(***************************************************************************)
IsBox(b) == DOMAIN b = {"batches", "applied", "upToDate", "reported"}
HeldFrom(bs, base, len) == bs = <<>> \/ \E hi \in base .. len : bs = <<[lo |-> base, hi |-> hi]>>
Holds(b) == b.batches # <<>> \/ b.applied.known
EndOf(b, base) == IF b.batches = <<>> THEN base ELSE b.batches[1].hi

BoxOK(b, base, len, tail, acked) ==
    /\ IsBox(b) /\ len \in Nat /\ base \in 0 .. len /\ HeldFrom(b.batches, base, len)
    /\ b.applied.known => acked /\ b.applied.offset = base
    /\ b.upToDate => Holds(b) /\ EndOf(b, base) >= tail

\* A batch is taken in: dropped, or joined to the range.
Taken(box, b) ==
    [box EXCEPT !.upToDate = b.upToDate, !.reported = @ \/ b.upToDate,
                !.batches = IF box.applied.known /\ b.hi <= box.applied.offset THEN @ ELSE Push(@, b)]

LEMMA PushJoins ==
    ASSUME NEW bs, NEW base \in Nat, NEW len \in Nat, HeldFrom(bs, base, len), NEW b \in Batch,
           b.lo = IF bs = <<>> THEN base ELSE bs[1].hi
    PROVE  Push(bs, b) = <<[lo |-> base, hi |-> b.hi]>>
<1>1. CASE bs = <<>>
  BY <1>1 DEF Push
<1>2. CASE bs # <<>>
  <2>1. PICK hi \in base .. len : bs = <<[lo |-> base, hi |-> hi]>>
    BY <1>2 DEF HeldFrom
  <2>2. Len(bs) = 1 /\ bs[1] = [lo |-> base, hi |-> hi] /\ Last(bs) = bs[1] /\ bs[1].hi = hi /\ b.lo = hi
    BY <1>2, <2>1 DEF Last
  <2>3. Push(bs, b) = [bs EXCEPT ![1].hi = b.hi]
    BY <1>2, <2>2 DEF Push
  <2>4. [bs EXCEPT ![1].hi = b.hi] = <<[lo |-> base, hi |-> b.hi]>>
    BY <2>1
  <2> QED BY <2>3, <2>4
<1> QED BY <1>1, <1>2

LEMMA TakenBox ==
    ASSUME NEW box, NEW base, NEW len, NEW tail, NEW acked, BoxOK(box, base, len, tail, acked),
           NEW b \in Batch, b.lo = EndOf(box, base), b.lo <= b.hi, b.hi <= len, b.upToDate => b.hi >= tail
    PROVE  BoxOK(Taken(box, b), base, len, tail, acked) /\ EndOf(Taken(box, b), base) = b.hi
<1> DEFINE new == Taken(box, b)
<1>0. /\ IsBox(box) /\ len \in Nat /\ base \in Nat /\ base \in 0 .. len /\ HeldFrom(box.batches, base, len)
      /\ box.applied.known => acked /\ box.applied.offset = base
      /\ b.hi \in Nat /\ b.lo \in Nat
  BY DEF BoxOK, Batch
<1>1. /\ IsBox(new) /\ new.upToDate = b.upToDate /\ new.applied = box.applied
      /\ new.batches = IF box.applied.known /\ b.hi <= box.applied.offset THEN box.batches
                       ELSE Push(box.batches, b)
  BY <1>0 DEF Taken, IsBox
<1> HIDE DEF new
<1>2. HeldFrom(new.batches, base, len) /\ EndOf(new, base) = b.hi /\ Holds(new)
  <2>1. CASE box.applied.known /\ b.hi <= box.applied.offset
    <3>1. b.hi <= base /\ new.batches = box.batches /\ Holds(new)
      BY <1>0, <1>1, <2>1 DEF Holds
    <3>2. CASE box.batches = <<>>
      BY <1>0, <3>1, <3>2 DEF EndOf
    <3>3. CASE box.batches # <<>>
      <4>1. PICK hi \in base .. len : box.batches = <<[lo |-> base, hi |-> hi]>>
        BY <1>0, <3>3 DEF HeldFrom
      <4>2. box.batches[1].hi = hi
        BY <4>1
      <4>3. b.lo = hi /\ EndOf(new, base) = hi
        BY <3>1, <3>3, <4>2 DEF EndOf
      <4>4. b.hi = hi
        BY <1>0, <3>1, <4>3
      <4> QED BY <1>0, <3>1, <4>3, <4>4
    <3> QED BY <3>2, <3>3
  <2>2. CASE ~(box.applied.known /\ b.hi <= box.applied.offset)
    <3>1. new.batches = <<[lo |-> base, hi |-> b.hi]>>
      BY <1>0, <1>1, <2>2, PushJoins DEF EndOf
    <3>2. base <= b.hi
      <4>1. CASE box.batches = <<>>
        BY <1>0, <4>1 DEF EndOf
      <4>2. CASE box.batches # <<>>
        <5>1. PICK hi \in base .. len : box.batches = <<[lo |-> base, hi |-> hi]>>
          BY <1>0, <4>2 DEF HeldFrom
        <5>2. b.lo = hi
          BY <4>2, <5>1 DEF EndOf
        <5> QED BY <1>0, <5>2
      <4> QED BY <4>1, <4>2
    <3>3. b.hi \in base .. len /\ new.batches # <<>> /\ new.batches[1].hi = b.hi
      BY <1>0, <3>1, <3>2
    <3> QED BY <3>1, <3>3 DEF HeldFrom, EndOf, Holds
  <2> QED BY <2>1, <2>2
<1>3. BoxOK(new, base, len, tail, acked)
  BY <1>0, <1>1, <1>2 DEF BoxOK
<1> QED BY <1>2, <1>3 DEF new

\* What is held is committed, and acknowledged.
Acknowledged(box) ==
    [box EXCEPT !.batches = <<>>,
                !.applied = IF box.batches = <<>> THEN @ ELSE At(Last(box.batches).hi)]

LEMMA AcknowledgedBox ==
    ASSUME NEW box, NEW base, NEW len, NEW tail, NEW acked, BoxOK(box, base, len, tail, acked),
           Holds(box)
    PROVE  LET end == EndOf(box, base)
           IN  /\ base <= end /\ end \in 0 .. len
               /\ end = IF box.batches # <<>> THEN Last(box.batches).hi ELSE box.applied.offset
               /\ BoxOK(Acknowledged(box), end, len, tail, TRUE)
               /\ EndOf(Acknowledged(box), end) = end
<1> DEFINE end == EndOf(box, base)
           new == Acknowledged(box)
<1>0. /\ IsBox(box) /\ len \in Nat /\ base \in Nat /\ base \in 0 .. len /\ HeldFrom(box.batches, base, len)
      /\ box.applied.known => acked /\ box.applied.offset = base
      /\ box.upToDate => end >= tail
  BY DEF BoxOK
<1>1. /\ IsBox(new) /\ new.upToDate = box.upToDate /\ new.batches = <<>>
      /\ new.applied = IF box.batches = <<>> THEN box.applied ELSE At(Last(box.batches).hi)
  BY <1>0 DEF Acknowledged, IsBox
<1> HIDE DEF new
<1>2. /\ base <= end /\ end \in 0 .. len /\ new.applied.known /\ new.applied.offset = end
      /\ end = IF box.batches # <<>> THEN Last(box.batches).hi ELSE box.applied.offset
  <2>1. CASE box.batches = <<>>
    BY <1>0, <1>1, <2>1 DEF EndOf, Holds
  <2>2. CASE box.batches # <<>>
    <3>1. PICK hi \in base .. len : box.batches = <<[lo |-> base, hi |-> hi]>>
      BY <1>0, <2>2 DEF HeldFrom
    <3>2. end = hi /\ Last(box.batches).hi = hi
      BY <2>2, <3>1 DEF EndOf, Last
    <3>3. new.applied.known /\ new.applied.offset = hi
      BY <1>1, <2>2, <3>2 DEF At
    <3> QED BY <1>0, <2>2, <3>2, <3>3
  <2> QED BY <2>1, <2>2
<1> HIDE DEF end
<1>3. EndOf(new, end) = end
  BY <1>1 DEF EndOf
<1>4. BoxOK(new, end, len, tail, TRUE)
  BY <1>0, <1>1, <1>2, <1>3 DEF BoxOK, HeldFrom, Holds
<1> QED BY <1>2, <1>3, <1>4 DEF new, end

-----------------------------------------------------------------------------
(***************************************************************************)
(* The inductive invariant.  ReadyIsCaughtUp is about the cursor of the    *)
(* last commit; what makes it true is where everything between the cursor  *)
(* and the reader is, at every instant before.                             *)
(***************************************************************************)
Length(s) == Len(streams[s][url[s]])
Acked(s) == cursor # <<>> /\ cursor[s].handle = url[s]
Base(s) == IF cursor # <<>> /\ cursor[s].handle = url[s] THEN cursor[s].offset ELSE 0
End(s) == EndOf(inbox[s], Base(s))
Lengths == [s \in Shapes |-> Length(s)]
Ends == [s \in Shapes |-> End(s)]

CursorOK == cursor # <<>> =>
    \A s \in Shapes : /\ cursor[s].handle \in 1 .. url[s]
                      /\ cursor[s].offset \in 0 .. Len(streams[s][cursor[s].handle])
UrlOK == \A s \in Shapes : url[s] \in 1 .. Len(streams[s]) /\ history.tail[s] \in 0 .. Length(s)
BoxesOK ==
    /\ inbox = [s \in Shapes |-> inbox[s]]
    /\ \A s \in Shapes : BoxOK(inbox[s], Base(s), Length(s), history.tail[s], Acked(s))
RecordsOK ==
    /\ DOMAIN history = {"tail", "revoked", "atBarrier", "handed", "stranded"}
    /\ DOMAIN commit = {"pc", "attempt"}
    /\ DOMAIN flags = {"truncate", "bulk", "aligned", "degraded", "initialSync"}
GateOK == commit.pc # "idle" => IsGroupUpToDate(inbox)
ReadyOK == flags.initialSync => \A s \in Shapes :
    cursor # <<>> /\ cursor[s].handle = url[s] /\ cursor[s].offset >= history.tail[s]
QueueOK == Reading => LineOK(queue, reader, Ends, commit.pc # "idle", Lengths, history.tail)

PosInv == ServerOK /\ RecordsOK /\ CursorOK /\ UrlOK /\ BoxesOK /\ QueueOK /\ GateOK /\ ReadyOK

LEMMA PosTypes ==
    ASSUME ServerOK, UrlOK, CursorOK, NEW s \in Shapes
    PROVE  /\ Len(streams[s]) \in Nat /\ url[s] \in Nat /\ url[s] \in 1 .. Len(streams[s])
           /\ Length(s) \in Nat /\ history.tail[s] \in Nat /\ history.tail[s] <= Length(s)
           /\ Base(s) \in 0 .. Length(s)
<1>1. Len(streams[s]) \in Nat /\ url[s] \in Nat /\ url[s] \in 1 .. Len(streams[s])
  BY StreamTypes DEF ServerOK, UrlOK
<1>2. Length(s) \in Nat
  BY <1>1, StreamTypes DEF ServerOK, Length
<1>3. history.tail[s] \in Nat /\ history.tail[s] <= Length(s)
  BY <1>2 DEF UrlOK
<1>4. Base(s) \in 0 .. Length(s)
  BY <1>2 DEF CursorOK, Base, Length
<1> QED BY <1>1, <1>2, <1>3, <1>4

\* A step that leaves the engine's positions alone while the streams grow.
LEMMA GrowPos ==
    ASSUME PosInv, ServerOK', GrownTo(streams, streams'),
           UNCHANGED <<cursor, phase, url, reader, queue, inbox, commit, flags>>,
           DOMAIN history' = DOMAIN history, history'.tail = history.tail
    PROVE  PosInv'
<1>0. ServerOK /\ UrlOK /\ CursorOK /\ BoxesOK /\ QueueOK
  BY DEF PosInv
<1>1. ASSUME NEW s \in Shapes, NEW h \in 1 .. Len(streams[s])
      PROVE  /\ h \in 1 .. Len(streams'[s])
             /\ Len(streams[s][h]) \in Nat /\ Len(streams'[s][h]) \in Nat
             /\ Len(streams'[s][h]) >= Len(streams[s][h])
  <2>1. Len(streams[s]) \in Nat /\ Len(streams'[s]) \in Nat /\ Len(streams'[s]) >= Len(streams[s])
    BY <1>0, StreamTypes DEF ServerOK, GrownTo
  <2>2. h \in 1 .. Len(streams'[s])
    BY <2>1
  <2>3. Len(streams[s][h]) \in Nat /\ Len(streams'[s][h]) \in Nat
    BY <1>0, <2>2, StreamTypes DEF ServerOK
  <2> QED BY <2>2, <2>3 DEF GrownTo, Continues
<1>2. ASSUME NEW s \in Shapes
      PROVE  /\ url[s] \in 1 .. Len(streams'[s])
             /\ Length(s) \in Nat /\ Length(s)' \in Nat /\ Length(s)' >= Length(s)
             /\ history.tail[s] \in 0 .. Length(s)'
             /\ Base(s)' = Base(s) /\ Acked(s)' = Acked(s) /\ End(s)' = End(s) /\ Base(s) \in 0 .. Length(s)
  <2>1. url[s] \in 1 .. Len(streams[s]) /\ history.tail[s] \in 0 .. Length(s) /\ Base(s) \in 0 .. Length(s)
    BY <1>0, PosTypes DEF UrlOK
  <2>2. /\ url[s] \in 1 .. Len(streams'[s])
        /\ Length(s) \in Nat /\ Length(s)' \in Nat /\ Length(s)' >= Length(s)
    BY <1>1, <2>1 DEF Length
  <2> QED BY <2>1, <2>2 DEF Base, Acked, End
<1>3. UrlOK'
  BY <1>2 DEF UrlOK
<1>4. CursorOK'
  <2> SUFFICES ASSUME cursor # <<>>, NEW s \in Shapes
               PROVE  /\ cursor[s].handle \in 1 .. url[s]
                      /\ cursor[s].offset \in 0 .. Len(streams'[s][cursor[s].handle])
    BY DEF CursorOK
  <2>1. /\ cursor[s].handle \in 1 .. url[s] /\ url[s] \in 1 .. Len(streams[s])
        /\ cursor[s].offset \in 0 .. Len(streams[s][cursor[s].handle])
    BY <1>0 DEF CursorOK, UrlOK
  <2>2. PICK h \in 1 .. Len(streams[s]) : h = cursor[s].handle
    BY <1>0, <2>1, PosTypes
  <2>3. /\ Len(streams[s][h]) \in Nat /\ Len(streams'[s][h]) \in Nat
        /\ Len(streams'[s][h]) >= Len(streams[s][h])
    BY <1>1
  <2>4. cursor[s].offset \in 0 .. Len(streams[s][h])
    BY <2>1, <2>2
  <2>5. cursor[s].offset \in 0 .. Len(streams'[s][h])
    BY <2>3, <2>4
  <2> QED BY <2>1, <2>2, <2>5
<1>5. BoxesOK'
  <2> SUFFICES ASSUME NEW s \in Shapes
               PROVE  BoxOK(inbox[s], Base(s), Length(s)', history.tail[s], Acked(s))
    BY <1>0, <1>2 DEF BoxesOK
  <2>1. BoxOK(inbox[s], Base(s), Length(s), history.tail[s], Acked(s))
    BY <1>0 DEF BoxesOK
  <2> QED BY <1>2, <2>1 DEF BoxOK, HeldFrom
<1>6. QueueOK'
  <2>1. /\ Ends' = Ends
        /\ \A s \in Shapes : Lengths[s] \in Nat /\ Lengths'[s] \in Nat /\ Lengths'[s] >= Lengths[s]
    BY <1>2 DEF Ends, Lengths
  <2>2. Reading' = Reading
    BY DEF Reading
  <2>3. Reading => LineOK(queue, reader, Ends, commit.pc # "idle", Lengths', history.tail)
    BY <1>0, <2>1, GrowLine DEF QueueOK
  <2> QED BY <2>1, <2>2, <2>3 DEF QueueOK
<1>7. RecordsOK' /\ GateOK' /\ ReadyOK'
  BY DEF PosInv, RecordsOK, GateOK, ReadyOK, IsGroupUpToDate
<1> QED BY <1>3, <1>4, <1>5, <1>6, <1>7 DEF PosInv

LEMMA ServePos ==
    ASSUME PosInv, Serve
    PROVE  PosInv'
<1>1. ServerOK' /\ GrownTo(streams, streams')
  BY ServerStep DEF PosInv
<1>2. /\ UNCHANGED <<cursor, phase, url, reader, queue, inbox, commit, flags>>
      /\ history' = history \/ history' = [history EXCEPT !.revoked = history'.revoked]
  BY DEF Serve, ServerUpsert, ServerDelete, ServerFlip, DeliverFlip, AbandonFlip, Recreate, engine
<1>3. DOMAIN history' = DOMAIN history /\ history'.tail = history.tail
  BY <1>2 DEF PosInv, RecordsOK
<1> QED BY <1>1, <1>2, <1>3, GrowPos

\* The parts of the server's state that a step of the client leaves alone.
LEMMA SameServer ==
    ASSUME PosInv, UNCHANGED server, used'.writes = used.writes,
           used' = used \/ \E n : used' = [used EXCEPT !.troubles = n]
    PROVE  ServerOK' /\ GrownTo(streams, streams')
<1>1. IsStreams(streams) /\ streams' = streams
  BY DEF PosInv, ServerOK, server
<1>2. GrownTo(streams, streams)
  <2> SUFFICES ASSUME NEW s \in Shapes
               PROVE  /\ Len(streams[s]) >= Len(streams[s])
                      /\ \A h \in 1 .. Len(streams[s]) : Continues(streams[s][h], streams[s][h])
    BY DEF GrownTo
  <2> QED BY <1>1, StreamTypes DEF Continues
<1>3. used'.writes \in Nat /\ used' = [writes |-> used'.writes, troubles |-> used'.troubles]
  BY DEF PosInv, ServerOK
<1> QED BY <1>1, <1>2, <1>3 DEF PosInv, ServerOK, server, IsServerRow

LEMMA SpendTrouble ==
    ASSUME PosInv, NEW bound, Spend("troubles", bound)
    PROVE  used'.writes = used.writes /\ \E n : used' = [used EXCEPT !.troubles = n]
  BY DEF PosInv, ServerOK, Spend

\* A shape whose box is empty.
LEMMA EmptyBox ==
    ASSUME NEW base, NEW len, NEW tail, NEW acked, len \in Nat, base \in 0 .. len
    PROVE  LET b == [batches |-> <<>>, applied |-> None, upToDate |-> FALSE, reported |-> FALSE]
           IN  BoxOK(b, base, len, tail, acked) /\ EndOf(b, base) = base
  BY DEF BoxOK, IsBox, HeldFrom, Holds, EndOf, None

\* The engine is gone; the cursor stays, or is forgotten.
LEMMA ClosedPos ==
    ASSUME PosInv, Closed, ServerOK', cursor' = cursor \/ cursor' = <<>>,
           DOMAIN history' = DOMAIN history, history'.tail = history.tail
    PROVE  PosInv'
<1>0. ServerOK /\ UrlOK /\ CursorOK /\ RecordsOK
  BY DEF PosInv
<1>1. /\ phase' = "closed" /\ inbox' = EmptyInbox /\ commit' = Idle /\ ~flags'.initialSync
      /\ DOMAIN flags' = DOMAIN flags /\ url' = url /\ streams' = streams
  BY <1>0 DEF Closed, server, RecordsOK
<1>2. UrlOK' /\ CursorOK'
  BY <1>0, <1>1 DEF UrlOK, CursorOK, Length
<1>3. BoxesOK'
  <2> SUFFICES ASSUME NEW s \in Shapes
               PROVE  BoxOK(EmptyInbox[s], Base(s)', Length(s)', history'.tail[s], Acked(s)')
    BY <1>1 DEF BoxesOK, EmptyInbox
  <2>1. Length(s)' \in Nat /\ Base(s)' \in 0 .. Length(s)'
    BY <1>2, PosTypes, StreamTypes DEF ServerOK, UrlOK, CursorOK, Length, Base
  <2> QED BY <2>1, EmptyBox DEF EmptyInbox
<1>4. QueueOK' /\ GateOK' /\ ReadyOK' /\ RecordsOK'
  BY <1>0, <1>1 DEF QueueOK, Reading, GateOK, ReadyOK, RecordsOK, Idle
<1> QED BY <1>2, <1>3, <1>4 DEF PosInv

\* Restart, Crash, and both steps of desync().
LEMMA StopPos ==
    ASSUME PosInv, Restart \/ Crash \/ DesyncForgets \/ DesyncTruncates
    PROVE  PosInv'
<1>1. CASE Restart
  <2>1. UNCHANGED <<server, cursor, history, used>> /\ Closed
    BY <1>1 DEF Restart, Closed
  <2> QED BY <2>1, SameServer, ClosedPos
<1>2. CASE Crash
  <2>1. /\ UNCHANGED <<server, cursor>> /\ Closed /\ Spend("troubles", MaxTroubles)
        /\ DOMAIN history' = DOMAIN history /\ history'.tail = history.tail
    BY <1>2 DEF Crash, Closed, PosInv, RecordsOK
  <2> QED BY <2>1, SpendTrouble, SameServer, ClosedPos
<1>3. CASE DesyncForgets
  <2>1. /\ UNCHANGED <<server, history>> /\ Closed /\ Spend("troubles", MaxTroubles) /\ cursor' = <<>>
    BY <1>3 DEF DesyncForgets, Closed
  <2> QED BY <2>1, SpendTrouble, SameServer, ClosedPos
<1>4. CASE DesyncTruncates
  <2>1. /\ UNCHANGED <<server, cursor, engine, used>>
        /\ DOMAIN history' = DOMAIN history /\ history'.tail = history.tail
    BY <1>4 DEF DesyncTruncates, PosInv, RecordsOK
  <2>2. ServerOK' /\ GrownTo(streams, streams')
    BY <2>1, SameServer
  <2> QED BY <2>1, <2>2, GrowPos DEF engine
<1> QED BY <1>1, <1>2, <1>3, <1>4

\* Opening: each reader starts where the cursor, if it is of this stream,
\* acknowledges up to.
LEMMA OpenPos ==
    ASSUME PosInv, SyncCircuitsShapes
    PROVE  PosInv'
<1>0. ServerOK /\ UrlOK /\ CursorOK /\ RecordsOK
  BY DEF PosInv
<1>1. /\ url' = [s \in Shapes |-> Len(streams[s])]
      /\ reader' = [s \in Shapes |->
                      [ClosedReader EXCEPT !.asked = TRUE,
                                           !.from = IF Resumable(s) THEN cursor[s].offset ELSE 0]]
      /\ queue' = <<>> /\ inbox' = EmptyInbox /\ commit' = Idle
      /\ ~flags'.initialSync /\ DOMAIN flags' = DOMAIN flags
      /\ history' = [history EXCEPT !.tail = [s \in Shapes |-> Len(Log(s))], !.atBarrier = {},
                                    !.handed = {}]
      /\ UNCHANGED <<server, cursor, used>> /\ streams' = streams
  BY <1>0 DEF SyncCircuitsShapes, server, RecordsOK
<1>2. ServerOK'
  BY <1>1, SameServer
<1>3. RecordsOK' /\ \A s \in Shapes : history'.tail[s] = Len(Log(s))
  BY <1>0, <1>1 DEF RecordsOK, Idle
<1>4. ASSUME NEW s \in Shapes
      PROVE  /\ url'[s] = Len(streams[s]) /\ url'[s] \in 1 .. Len(streams[s])
             /\ Length(s)' \in Nat /\ history'.tail[s] = Length(s)'
             /\ Base(s)' = IF Resumable(s) THEN cursor[s].offset ELSE 0
             /\ Base(s)' \in 0 .. Length(s)'
             /\ cursor # <<>> => cursor[s].handle \in 1 .. url'[s]
  <2>1. /\ Len(streams[s]) \in Nat /\ Len(streams[s]) \in 1 .. Len(streams[s])
        /\ url[s] \in 1 .. Len(streams[s]) /\ Len(streams[s][Len(streams[s])]) \in Nat
    BY <1>0, StreamTypes DEF ServerOK, UrlOK
  <2>2. /\ url'[s] = Len(streams[s]) /\ Length(s)' = Len(streams[s][Len(streams[s])])
        /\ history'.tail[s] = Length(s)'
    BY <1>1, <1>3 DEF Length, Log
  <2>3. Base(s)' = IF Resumable(s) THEN cursor[s].offset ELSE 0
    BY <1>1, <2>2 DEF Base, Resumable
  <2>4. Resumable(s) => cursor[s].offset \in 0 .. Len(streams[s][Len(streams[s])])
    BY <1>0 DEF Resumable, CursorOK
  <2>5. cursor # <<>> => cursor[s].handle \in 1 .. Len(streams[s])
    BY <1>0, <2>1 DEF CursorOK
  <2> QED BY <2>1, <2>2, <2>3, <2>4, <2>5
<1>5. UrlOK' /\ CursorOK'
  <2>1. UrlOK'
    <3> SUFFICES ASSUME NEW s \in Shapes
                 PROVE  url'[s] \in 1 .. Len(streams[s]) /\ history'.tail[s] \in 0 .. Length(s)'
      BY <1>1 DEF UrlOK
    <3> QED BY <1>4
  <2>2. CursorOK'
    <3> SUFFICES ASSUME cursor # <<>>, NEW s \in Shapes
                 PROVE  /\ cursor[s].handle \in 1 .. url'[s]
                        /\ cursor[s].offset \in 0 .. Len(streams[s][cursor[s].handle])
      BY <1>1 DEF CursorOK
    <3>1. cursor[s].offset \in 0 .. Len(streams[s][cursor[s].handle])
      BY <1>0 DEF CursorOK
    <3> QED BY <1>4, <3>1
  <2> QED BY <2>1, <2>2
<1>6. ASSUME NEW s \in Shapes
      PROVE  BoxOK(EmptyInbox[s], Base(s)', Length(s)', history'.tail[s], Acked(s)') /\ End(s)' = Base(s)'
  <2>1. EmptyInbox[s] = [batches |-> <<>>, applied |-> None, upToDate |-> FALSE, reported |-> FALSE]
    BY DEF EmptyInbox
  <2>2. Length(s)' \in Nat /\ Base(s)' \in 0 .. Length(s)'
    BY <1>4
  <2>3. BoxOK(EmptyInbox[s], Base(s)', Length(s)', history'.tail[s], Acked(s)')
    BY <2>1, <2>2 DEF BoxOK, IsBox, HeldFrom, Holds, EndOf, None
  <2>4. inbox'[s].batches = <<>>
    <3>1. inbox' = EmptyInbox
      BY <1>1
    <3>2. EmptyInbox[s].batches = <<>>
      BY <2>1
    <3> QED BY <3>1, <3>2
  <2> QED BY <2>3, <2>4 DEF End, EndOf
<1>7. BoxesOK'
  BY <1>1, <1>6 DEF BoxesOK, EmptyInbox
<1>8. LineOK(<<>>, reader', Ends', FALSE, Lengths', history'.tail)
  <2>1. ASSUME NEW s \in Shapes
        PROVE  ReaderOK(reader'[s], s, Ends'[s], Lengths'[s], history'.tail[s]) /\ ~reader'[s].busy
    <3>1. Ends'[s] = Base(s)' /\ Lengths'[s] = Length(s)'
      BY <1>6 DEF Ends, Lengths
    <3>2. /\ IsReader(reader'[s]) /\ ~reader'[s].busy /\ reader'[s].got = <<>>
          /\ reader'[s].from = Base(s)'
      BY <1>1, <1>4 DEF IsReader, ClosedReader
    <3> QED BY <1>4, <3>1, <3>2 DEF ReaderOK, ReadAhead
  <2>2. reader' = [s \in Shapes |-> reader'[s]]
    BY <1>1
  <2>3. <<>> \in Seq(Batch) /\ Len(<<>>) = 0
    OBVIOUS
  <2> QED BY <2>1, <2>2, <2>3 DEF LineOK
<1>9. QueueOK' /\ GateOK' /\ ReadyOK'
  BY <1>1, <1>8 DEF QueueOK, GateOK, ReadyOK, Idle
<1> QED BY <1>2, <1>3, <1>5, <1>7, <1>9 DEF PosInv

\* A step of the readers and the queue alone.
LEMMA LinePos ==
    ASSUME PosInv, UNCHANGED <<server, used, cursor, phase, url, inbox, history>>,
           DOMAIN flags' = DOMAIN flags, flags'.initialSync = flags.initialSync,
           DOMAIN commit' = DOMAIN commit, commit'.pc # "idle" => commit.pc # "idle",
           LineOK(queue', reader', Ends, commit'.pc # "idle", Lengths, history.tail)
    PROVE  PosInv'
<1>1. ServerOK'
  BY SameServer
<1>2. streams' = streams
  BY DEF server
<1>3. UrlOK' /\ CursorOK' /\ BoxesOK' /\ RecordsOK'
  BY <1>2 DEF PosInv, UrlOK, CursorOK, BoxesOK, RecordsOK, Length, Base, Acked
<1>4. Ends' = Ends /\ Lengths' = Lengths
  BY <1>2 DEF Ends, Lengths, End, Length, Base
<1>5. QueueOK' /\ GateOK' /\ ReadyOK'
  BY <1>4 DEF PosInv, QueueOK, GateOK, ReadyOK
<1> QED BY <1>1, <1>3, <1>5 DEF PosInv

LEMMA AnswerPos ==
    ASSUME PosInv, NEW s \in Shapes, Answer(s)
    PROVE  PosInv'
<1>0. ServerOK /\ UrlOK /\ CursorOK /\ RecordsOK
  BY DEF PosInv
<1>1. PICK hi \in reader[s].from .. Len(Log(s)) :
        /\ Reading /\ url[s] = Len(streams[s])
        /\ reader' = [reader EXCEPT ![s] =
                        IF @.busy THEN [@ EXCEPT !.asked = FALSE, !.got = <<Response(s, hi)>>]
                        ELSE HandOver(@, Response(s, hi))]
        /\ queue' = IF reader[s].busy THEN queue ELSE Append(queue, Response(s, hi))
        /\ UNCHANGED <<server, cursor, phase, url, inbox, commit, flags, history, used>>
  BY DEF Answer
<1> DEFINE b == Response(s, hi)
<1>2. LineOK(queue, reader, Ends, commit.pc # "idle", Lengths, history.tail)
  BY <1>1 DEF PosInv, QueueOK
<1>3. /\ Len(Log(s)) = Length(s) /\ Lengths[s] = Length(s) /\ Length(s) \in Nat
      /\ history.tail[s] <= Length(s) /\ reader[s].from \in Nat /\ hi \in Nat
      /\ reader = [t \in Shapes |-> reader[t]]
  <2>1. Len(Log(s)) = Length(s) /\ Lengths[s] = Length(s)
    BY <1>1 DEF Log, Length, Lengths
  <2>2. Length(s) \in Nat /\ history.tail[s] <= Length(s)
    BY <1>0, PosTypes
  <2>3. reader[s].from \in 0 .. Length(s) /\ reader = [t \in Shapes |-> reader[t]]
    BY <1>2, <2>1 DEF LineOK, ReaderOK
  <2> QED BY <2>1, <2>2, <2>3
<1>4. /\ b \in Batch /\ b.shape = s /\ b.lo = reader[s].from /\ b.hi \in reader[s].from .. Lengths[s]
      /\ b.upToDate => b.hi >= history.tail[s]
  BY <1>1, <1>3 DEF Response, Batch
<1> HIDE DEF b
<1>5. IF reader[s].busy
      THEN LineOK(queue, [reader EXCEPT ![s] = [@ EXCEPT !.asked = FALSE, !.got = <<b>>]],
                  Ends, commit.pc # "idle", Lengths, history.tail)
      ELSE LineOK(Append(queue, b), [reader EXCEPT ![s] = HandOver(@, b)],
                  Ends, commit.pc # "idle", Lengths, history.tail)
  BY <1>2, <1>4, AnswerLine
<1>6. LineOK(queue', reader', Ends, commit.pc # "idle", Lengths, history.tail)
  BY <1>1, <1>5 DEF b
<1> QED BY <1>1, <1>6, LinePos

LEMMA StreamEndsPos ==
    ASSUME PosInv, NEW s \in Shapes, StreamEnds(s)
    PROVE  PosInv'
<1>1. /\ Reading /\ reader' = [reader EXCEPT ![s].asked = FALSE, ![s].ended = TRUE]
      /\ UNCHANGED <<server, used, cursor, phase, url, queue, inbox, commit, flags, history>>
  BY DEF StreamEnds
<1>2. LineOK(queue, reader, Ends, commit.pc # "idle", Lengths, history.tail)
  BY <1>1 DEF PosInv, QueueOK
<1>3. LineOK(queue', reader', Ends, commit.pc # "idle", Lengths, history.tail)
  BY <1>1, <1>2, EndedLine
<1> QED BY <1>1, <1>3, LinePos

\* A delivery is taken in; then it settles, or the gate is asked.
LEMMA DeliverPos ==
    ASSUME PosInv, Deliver
    PROVE  PosInv'
<1> DEFINE b == Head(queue)
           s == b.shape
           box == IngestBatch(inbox, b)
<1>0. ServerOK /\ UrlOK /\ CursorOK /\ RecordsOK /\ BoxesOK
  BY DEF PosInv
<1>1. /\ Reading /\ queue # <<>> /\ commit.pc = "idle" /\ inbox' = box
      /\ IF flags.degraded \/ ~IsGroupUpToDate(box)
            \/ (~flags.aligned /\ ~EveryShapeReported(box))
         THEN Settle(Idle)
         ELSE /\ commit' = [Idle EXCEPT !.pc = IF flags.aligned THEN "tx" ELSE "barrier"]
              /\ UNCHANGED <<reader, queue>>
      /\ UNCHANGED <<server, cursor, phase, url, flags, history, used>> /\ streams' = streams
  BY DEF Deliver, server
<1>2. LineOK(queue, reader, Ends, FALSE, Lengths, history.tail)
  <2>1. LineOK(queue, reader, Ends, commit.pc # "idle", Lengths, history.tail)
    BY <1>1 DEF PosInv, QueueOK
  <2> QED BY <1>1, <2>1 DEF LineOK, BatchOK
<1>3. /\ Len(queue) > 0 /\ 1 \in 1 .. Len(queue) /\ queue[1] = b /\ b \in Batch /\ s \in Shapes
      /\ queue \in Seq(Batch)
  <2>1. queue \in Seq(Batch)
    BY <1>2 DEF LineOK
  <2>2. Len(queue) > 0 /\ 1 \in 1 .. Len(queue) /\ queue[1] = b /\ b \in Batch
    BY <1>1, <2>1
  <2> QED BY <2>1, <2>2 DEF Batch
<1>4. /\ b.hi = reader[s].from /\ b.lo <= b.hi /\ (b.upToDate => b.hi >= history.tail[s])
      /\ End(s) = b.lo /\ b.hi <= Length(s)
  <2>1. BatchOK(queue[1], reader, Ends, history.tail, 1 = 1 /\ FALSE)
    BY <1>2, <1>3 DEF LineOK
  <2>2. reader[s].from \in 0 .. Length(s)
    BY <1>2, <1>3 DEF LineOK, ReaderOK, Lengths
  <2>3. Length(s) \in Nat
    BY <1>0, <1>3, PosTypes
  <2> QED BY <1>3, <2>1, <2>2, <2>3 DEF BatchOK, Ends
<1>5. /\ BoxOK(Taken(inbox[s], b), Base(s), Length(s), history.tail[s], Acked(s))
      /\ EndOf(Taken(inbox[s], b), Base(s)) = b.hi
  <2>1. BoxOK(inbox[s], Base(s), Length(s), history.tail[s], Acked(s))
    BY <1>0, <1>3 DEF BoxesOK
  <2> HIDE DEF b, s
  <2> QED BY <1>3, <1>4, <2>1, TakenBox DEF End
<1>6. /\ box = [t \in Shapes |-> box[t]] /\ box[s] = Taken(inbox[s], b)
      /\ \A t \in Shapes : t # s => box[t] = inbox[t]
  <2>1. inbox = [t \in Shapes |-> inbox[t]] /\ IsBox(inbox[s])
    BY <1>0, <1>3 DEF BoxesOK, BoxOK
  <2> HIDE DEF b
  <2> QED BY <1>3, <2>1 DEF IngestBatch, Taken, IsBox
<1> HIDE DEF box
<1>7. /\ UrlOK' /\ CursorOK' /\ ServerOK'
      /\ \A t \in Shapes : Base(t)' = Base(t) /\ Length(t)' = Length(t) /\ Acked(t)' = Acked(t)
      /\ Lengths' = Lengths
  <2>1. ServerOK'
    BY <1>1, SameServer
  <2>2. /\ \A t \in Shapes : Base(t)' = Base(t) /\ Length(t)' = Length(t) /\ Acked(t)' = Acked(t)
        /\ Lengths' = Lengths
    BY <1>1 DEF Base, Length, Acked, Lengths
  <2> QED BY <1>0, <1>1, <2>1, <2>2 DEF UrlOK, CursorOK
<1>8. BoxesOK'
  <2> SUFFICES ASSUME NEW t \in Shapes
               PROVE  BoxOK(box[t], Base(t), Length(t), history.tail[t], Acked(t))
    BY <1>1, <1>6, <1>7 DEF BoxesOK
  <2> QED BY <1>0, <1>5, <1>6 DEF BoxesOK
<1>9. Ends' = [Ends EXCEPT ![s] = b.hi]
  <2>1. \A t \in Shapes : End(t)' = IF t = s THEN b.hi ELSE End(t)
    <3> TAKE t \in Shapes
    <3>1. End(t)' = EndOf(box[t], Base(t))
      BY <1>1, <1>7 DEF End
    <3>2. CASE t = s
      BY <1>5, <1>6, <3>1, <3>2
    <3>3. CASE t # s
      BY <1>6, <3>1, <3>3 DEF End
    <3> QED BY <3>2, <3>3
  <2> QED BY <2>1 DEF Ends
<1>10. LineOK(queue, reader, Ends', TRUE, Lengths, history.tail)
  <2>1. Ends = [t \in Shapes |-> Ends[t]]
    BY DEF Ends
  <2> QED BY <1>2, <1>3, <1>9, <2>1, IngestLine
<1>11. CASE Settle(Idle)
  <2>1. LineOK(queue', reader', Ends', FALSE, Lengths, history.tail) /\ commit' = Idle
    BY <1>10, <1>11, SettleLine
  <2>2. commit'.pc = "idle" /\ DOMAIN commit' = {"pc", "attempt"}
    BY <2>1 DEF Idle
  <2>3. LineOK(queue', reader', Ends', commit'.pc # "idle", Lengths', history'.tail)
    <3>1. LineOK(queue', reader', Ends', FALSE, Lengths', history'.tail)
      BY <1>1, <1>7, <2>1
    <3>2. (commit'.pc # "idle") = FALSE
      BY <2>2
    <3> QED BY <3>1, <3>2
  <2>4. QueueOK' /\ GateOK' /\ ReadyOK' /\ RecordsOK'
    BY <1>0, <1>1, <1>7, <2>2, <2>3 DEF PosInv, QueueOK, GateOK, ReadyOK, RecordsOK
  <2> QED BY <1>7, <1>8, <2>4 DEF PosInv
<1>12. CASE /\ ~(flags.degraded \/ ~IsGroupUpToDate(box) \/ (~flags.aligned /\ ~EveryShapeReported(box)))
            /\ commit' = [Idle EXCEPT !.pc = IF flags.aligned THEN "tx" ELSE "barrier"]
            /\ UNCHANGED <<reader, queue>>
  <2>1. commit'.pc # "idle" /\ DOMAIN commit' = {"pc", "attempt"}
    BY <1>12 DEF Idle
  <2>2. LineOK(queue', reader', Ends', commit'.pc # "idle", Lengths', history'.tail)
    <3>1. LineOK(queue', reader', Ends', TRUE, Lengths', history'.tail)
      BY <1>1, <1>7, <1>10, <1>12
    <3>2. (commit'.pc # "idle") = TRUE
      BY <2>1
    <3> QED BY <3>1, <3>2
  <2>3. IsGroupUpToDate(inbox')
    BY <1>1, <1>12
  <2>4. QueueOK' /\ GateOK' /\ ReadyOK' /\ RecordsOK'
    <3>1. GateOK'
      BY <2>3 DEF GateOK, IsGroupUpToDate
    <3> QED BY <1>0, <1>1, <1>7, <2>1, <2>2, <3>1 DEF PosInv, QueueOK, ReadyOK, RecordsOK
  <2> QED BY <1>7, <1>8, <2>4 DEF PosInv
<1> QED BY <1>1, <1>11, <1>12

\* The gate: clear, closed until the next delivery, or closed for good; and a
\* transaction that failed.
LEMMA GatePos ==
    ASSUME PosInv, BarrierClear \/ BarrierWaits \/ BarrierDegraded \/ CommitFails \/ CommitGivesUp
    PROVE  PosInv'
<1>0. RecordsOK
  BY DEF PosInv
<1>1. ASSUME NEW u, u = used \/ (Spend("troubles", MaxTroubles) /\ u = used'), used' = u, UNCHANGED server
      PROVE  ServerOK' /\ GrownTo(streams, streams')
  BY <1>1, SameServer, SpendTrouble
<1>2. CASE BarrierClear
  <2>1. /\ UNCHANGED <<server, used, cursor, phase, url, reader, queue, inbox>>
        /\ commit' = [commit EXCEPT !.pc = "tx"] /\ commit.pc # "idle"
        /\ flags' = [flags EXCEPT !.aligned = TRUE]
        /\ history' = [history EXCEPT !.atBarrier = history.revoked]
    BY <1>2 DEF BarrierClear
  <2>2. /\ commit'.pc # "idle" /\ DOMAIN commit' = DOMAIN commit
        /\ DOMAIN flags' = DOMAIN flags /\ flags'.initialSync = flags.initialSync
        /\ DOMAIN history' = DOMAIN history /\ history'.tail = history.tail
    BY <1>0, <2>1 DEF RecordsOK
  <2>3. ServerOK' /\ streams' = streams
    BY <2>1, SameServer DEF server
  <2>4. UrlOK' /\ CursorOK' /\ BoxesOK' /\ RecordsOK' /\ ReadyOK' /\ GateOK'
    BY <2>1, <2>2, <2>3 DEF PosInv, UrlOK, CursorOK, BoxesOK, RecordsOK, ReadyOK, GateOK,
                            IsGroupUpToDate, Length, Base, Acked
  <2>5. QueueOK'
    <3>1. Ends' = Ends /\ Lengths' = Lengths /\ Reading' = Reading
          /\ (commit'.pc # "idle") = (commit.pc # "idle")
      BY <2>1, <2>2, <2>3 DEF Ends, Lengths, End, Length, Base, Reading
    <3> QED BY <2>1, <2>2, <3>1 DEF PosInv, QueueOK
  <2> QED BY <2>3, <2>4, <2>5 DEF PosInv
<1>3. ASSUME Reading, commit.pc # "idle", Settle(Idle),
             UNCHANGED <<cursor, phase, url, inbox, history>>, streams' = streams, ServerOK',
             DOMAIN flags' = DOMAIN flags, flags'.initialSync = flags.initialSync
      PROVE  PosInv'
  <2>1. LineOK(queue, reader, Ends, TRUE, Lengths, history.tail)
    <3>1. LineOK(queue, reader, Ends, commit.pc # "idle", Lengths, history.tail)
      BY <1>3 DEF PosInv, QueueOK
    <3>2. (commit.pc # "idle") = TRUE
      BY <1>3
    <3> QED BY <3>1, <3>2
  <2>2. LineOK(queue', reader', Ends, FALSE, Lengths, history.tail) /\ commit' = Idle
    BY <1>3, <2>1, SettleLine
  <2>3. commit'.pc = "idle" /\ DOMAIN commit' = {"pc", "attempt"} /\ (commit'.pc # "idle") = FALSE
    BY <2>2 DEF Idle
  <2>4. UrlOK' /\ CursorOK' /\ BoxesOK' /\ RecordsOK' /\ ReadyOK' /\ GateOK'
    BY <1>3, <2>3 DEF PosInv, UrlOK, CursorOK, BoxesOK, RecordsOK, ReadyOK, GateOK, Length, Base, Acked
  <2>5. QueueOK'
    <3>1. Ends' = Ends /\ Lengths' = Lengths
      BY <1>3 DEF Ends, Lengths, End, Length, Base
    <3>2. LineOK(queue', reader', Ends', FALSE, Lengths', history'.tail)
      BY <1>3, <2>2, <3>1
    <3> QED BY <2>3, <3>2 DEF QueueOK
  <2> QED BY <1>3, <2>4, <2>5 DEF PosInv
<1>4. CASE BarrierWaits
  <2>1. /\ Reading /\ commit.pc # "idle" /\ Settle(Idle) /\ (used' = used \/ Spend("troubles", MaxTroubles))
        /\ UNCHANGED <<server, cursor, phase, url, inbox, history, flags>> /\ streams' = streams
    BY <1>4 DEF BarrierWaits, server
  <2>2. ServerOK'
    BY <2>1, SameServer, SpendTrouble
  <2> QED BY <1>3, <2>1, <2>2
<1>5. CASE BarrierDegraded
  <2>1. /\ Reading /\ commit.pc # "idle" /\ Settle(Idle) /\ flags' = [flags EXCEPT !.degraded = TRUE]
        /\ UNCHANGED <<server, used, cursor, phase, url, inbox, history>> /\ streams' = streams
    BY <1>5 DEF BarrierDegraded, server
  <2>2. ServerOK'
    BY <2>1, SameServer
  <2> QED BY <1>0, <1>3, <2>1, <2>2 DEF RecordsOK
<1>6. CASE CommitGivesUp
  <2>1. /\ Reading /\ commit.pc # "idle" /\ Settle(Idle) /\ flags' = [flags EXCEPT !.degraded = TRUE]
        /\ (used' = used \/ Spend("troubles", MaxTroubles))
        /\ UNCHANGED <<server, cursor, phase, url, inbox, history>> /\ streams' = streams
    BY <1>6 DEF CommitGivesUp, TransactionFails, server
  <2>2. ServerOK'
    BY <2>1, SameServer, SpendTrouble
  <2> QED BY <1>0, <1>3, <2>1, <2>2 DEF RecordsOK
<1>7. CASE CommitFails
  <2>1. /\ (used' = used \/ Spend("troubles", MaxTroubles)) /\ commit.pc # "idle"
        /\ \E bulk : flags' = [flags EXCEPT !.bulk = bulk]
        /\ commit' = [commit EXCEPT !.attempt = @ + 1]
        /\ UNCHANGED <<server, cursor, phase, url, reader, queue, inbox, history>> /\ streams' = streams
    BY <1>7 DEF CommitFails, TransactionFails, server
  <2>2. ServerOK' /\ GrownTo(streams, streams')
    BY <2>1, SameServer, SpendTrouble
  <2>3. /\ commit'.pc = commit.pc /\ DOMAIN commit' = DOMAIN commit
        /\ DOMAIN flags' = DOMAIN flags /\ flags'.initialSync = flags.initialSync
    BY <1>0, <2>1 DEF RecordsOK
  <2>4. UrlOK' /\ CursorOK' /\ BoxesOK' /\ RecordsOK' /\ ReadyOK' /\ GateOK'
    BY <2>1, <2>3 DEF PosInv, UrlOK, CursorOK, BoxesOK, RecordsOK, ReadyOK, GateOK,
                      IsGroupUpToDate, Length, Base, Acked
  <2>5. QueueOK'
    <3>1. Ends' = Ends /\ Lengths' = Lengths /\ Reading' = Reading
      BY <2>1 DEF Ends, Lengths, End, Length, Base, Reading
    <3> QED BY <2>1, <2>3, <3>1 DEF PosInv, QueueOK
  <2> QED BY <2>2, <2>4, <2>5 DEF PosInv
<1> QED BY <1>2, <1>4, <1>5, <1>6, <1>7

\* A commit: what every shape holds is applied, and the cursor moves to its end.
LEMMA CommitPos ==
    ASSUME PosInv, CommitHeld
    PROVE  /\ PosInv'
           /\ \A s \in Shapes : /\ cursor'[s] = [handle |-> url[s], offset |-> End(s)] /\ cursor' # <<>>
                                /\ Base(s) <= End(s) /\ End(s) \in Nat /\ Base(s) \in Nat
<1>0. ServerOK /\ UrlOK /\ CursorOK /\ RecordsOK /\ BoxesOK /\ GateOK
  BY DEF PosInv
<1>1. /\ Reading /\ commit.pc # "idle" /\ cursor' = NewCursor /\ inbox' = AckAll
      /\ flags' = [flags EXCEPT !.truncate = {}, !.bulk = StillBulk,
                                !.initialSync = @ \/ IsGroupUpToDate(inbox)]
      /\ Settle(Idle)
      /\ UNCHANGED <<server, phase, url, used>> /\ streams' = streams
      /\ DOMAIN history' = DOMAIN history /\ history'.tail = history.tail
  BY DEF CommitHeld, server, PosInv, RecordsOK
<1>2. ServerOK'
  BY <1>1, SameServer
<1>3. ASSUME NEW s \in Shapes
      PROVE  /\ Base(s) <= End(s) /\ End(s) \in 0 .. Length(s) /\ End(s) >= history.tail[s]
             /\ Base(s) \in Nat /\ End(s) \in Nat
             /\ PendingOffset(s) = End(s)
             /\ AckAll[s] = Acknowledged(inbox[s])
             /\ BoxOK(AckAll[s], End(s), Length(s), history.tail[s], TRUE)
             /\ EndOf(AckAll[s], End(s)) = End(s)
  <2>1. BoxOK(inbox[s], Base(s), Length(s), history.tail[s], Acked(s))
    BY <1>0 DEF BoxesOK
  <2>2. inbox[s].upToDate
    BY <1>0, <1>1 DEF GateOK, IsGroupUpToDate
  <2>3. Holds(inbox[s]) /\ End(s) >= history.tail[s]
    BY <2>1, <2>2 DEF BoxOK, End
  <2>4. AckAll[s] = Acknowledged(inbox[s])
    BY DEF AckAll, Acknowledged
  <2>5. /\ Base(s) <= End(s) /\ End(s) \in 0 .. Length(s)
        /\ End(s) = IF inbox[s].batches # <<>> THEN Last(inbox[s].batches).hi ELSE inbox[s].applied.offset
        /\ BoxOK(Acknowledged(inbox[s]), End(s), Length(s), history.tail[s], TRUE)
        /\ EndOf(Acknowledged(inbox[s]), End(s)) = End(s)
    BY <2>1, <2>3, AcknowledgedBox DEF End
  <2>6. Base(s) \in Nat /\ End(s) \in Nat
    BY <1>0, <2>5, PosTypes
  <2> QED BY <2>3, <2>4, <2>5, <2>6 DEF PendingOffset
<1>4. \A s \in Shapes : /\ cursor'[s] = [handle |-> url[s], offset |-> End(s)]
                         /\ cursor'[s].handle = url[s] /\ cursor'[s].offset = End(s)
  BY <1>1, <1>3 DEF NewCursor
<1>5. ASSUME NEW s \in Shapes PROVE cursor' # <<>>
  <2>1. DOMAIN cursor' # {}
    BY <1>1 DEF NewCursor
  <2> QED BY <2>1
<1>6. ASSUME NEW s \in Shapes
      PROVE  Base(s)' = End(s) /\ Acked(s)' /\ Length(s)' = Length(s) /\ End(s)' = End(s)
  <2>1. url' = url /\ cursor' # <<>> /\ cursor'[s].handle = url[s] /\ cursor'[s].offset = End(s)
    BY <1>1, <1>4, <1>5
  <2>2. Base(s)' = End(s)
    BY <2>1 DEF Base
  <2>3. Acked(s)'
    BY <2>1 DEF Acked
  <2>4. Length(s)' = Length(s)
    BY <1>1 DEF Length
  <2>5. End(s)' = EndOf(AckAll[s], End(s))
    <3>1. End(s)' = EndOf(inbox'[s], Base(s)')
      BY DEF End
    <3> QED BY <1>1, <2>2, <3>1
  <2> QED BY <1>3, <2>2, <2>3, <2>4, <2>5
<1>7. UrlOK' /\ CursorOK' /\ BoxesOK'
  <2>1. UrlOK'
    BY <1>0, <1>1, <1>6 DEF UrlOK
  <2>2. CursorOK'
    <3>1. ASSUME NEW s \in Shapes
          PROVE  url[s] \in 1 .. url[s] /\ End(s) \in 0 .. Len(streams[s][url[s]])
      <4>1. url[s] \in Nat /\ url[s] \in 1 .. Len(streams[s])
        BY <1>0, PosTypes
      <4>2. url[s] >= 1
        BY <4>1
      <4>3. url[s] \in 1 .. url[s]
        BY <4>1, <4>2
      <4>4. End(s) \in 0 .. Length(s)
        BY <1>3
      <4> QED BY <4>3, <4>4 DEF Length
    <3>2. ASSUME NEW s \in Shapes
          PROVE  /\ cursor'[s].handle \in 1 .. url'[s]
                 /\ cursor'[s].offset \in 0 .. Len(streams'[s][cursor'[s].handle])
      BY <1>1, <1>4, <3>1
    <3> QED BY <3>2 DEF CursorOK
  <2>3. BoxesOK'
    <3>1. inbox' = [s \in Shapes |-> inbox'[s]]
      BY <1>1 DEF AckAll
    <3>2. ASSUME NEW s \in Shapes
          PROVE  BoxOK(inbox'[s], Base(s)', Length(s)', history'.tail[s], Acked(s)')
      <4>1. Acked(s)'
        BY <1>6
      <4> QED BY <1>1, <1>3, <1>6, <4>1 DEF BoxOK
    <3> QED BY <3>1, <3>2 DEF BoxesOK
  <2> QED BY <2>1, <2>2, <2>3
<1>8. Ends' = Ends /\ Lengths' = Lengths
  BY <1>6 DEF Ends, Lengths
<1>9. LineOK(queue', reader', Ends, FALSE, Lengths, history.tail) /\ commit' = Idle
  <2>1. LineOK(queue, reader, Ends, commit.pc # "idle", Lengths, history.tail)
    BY <1>1 DEF PosInv, QueueOK
  <2>2. (commit.pc # "idle") = TRUE
    BY <1>1
  <2>3. LineOK(queue, reader, Ends, TRUE, Lengths, history.tail)
    BY <2>1, <2>2
  <2> QED BY <1>1, <2>3, SettleLine
<1>10. commit'.pc = "idle" /\ (commit'.pc # "idle") = FALSE /\ RecordsOK' /\ GateOK'
  BY <1>0, <1>1, <1>9 DEF Idle, RecordsOK, GateOK
<1>11. QueueOK'
  <2>1. LineOK(queue', reader', Ends', FALSE, Lengths', history'.tail)
    BY <1>1, <1>8, <1>9
  <2> QED BY <1>10, <2>1 DEF QueueOK
<1>12. ReadyOK'
  <2> SUFFICES ASSUME NEW s \in Shapes
               PROVE  cursor' # <<>> /\ cursor'[s].handle = url'[s] /\ cursor'[s].offset >= history'.tail[s]
    BY DEF ReadyOK
  <2>1. url' = url /\ history'.tail = history.tail
    BY <1>1
  <2> QED BY <1>3, <1>4, <1>5, <2>1
<1> QED BY <1>2, <1>3, <1>4, <1>5, <1>7, <1>10, <1>11, <1>12 DEF PosInv

-----------------------------------------------------------------------------
(***************************************************************************)
(* The initial state, and every step.                                      *)
(***************************************************************************)
LEMMA PosInit == Init => PosInv
<1> SUFFICES ASSUME Init PROVE PosInv
  OBVIOUS
<1>1. /\ streams = [s \in Shapes |-> << << >> >>] /\ url = [s \in Shapes |-> 1] /\ cursor = <<>>
      /\ phase = "closed" /\ inbox = EmptyInbox /\ commit = Idle /\ ~flags.initialSync
      /\ history.tail = [s \in Shapes |-> 0]
  BY DEF Init
<1>2. ASSUME NEW s \in Shapes
      PROVE  /\ streams[s] \in Seq(Seq(Changes)) /\ Len(streams[s]) = 1
             /\ url[s] = 1 /\ Length(s) = 0 /\ Base(s) = 0 /\ history.tail[s] = 0
  <2>1. streams[s] = << << >> >> /\ url[s] = 1 /\ history.tail[s] = 0
    BY <1>1
  <2>2. << >> \in Seq(Changes) /\ Len(<< >>) = 0
    OBVIOUS
  <2>3. << << >> >> \in Seq(Seq(Changes)) /\ Len(<< << >> >>) = 1 /\ << << >> >>[1] = << >>
    BY <2>2
  <2> QED BY <1>1, <2>1, <2>2, <2>3 DEF Length, Base
<1>3. ServerOK
  <2>1. IsStreams(streams)
    BY <1>1, <1>2 DEF IsStreams
  <2>2. IsFiniteSet(truth) /\ truth \cup flips = {}
    BY FS_EmptySet DEF Init
  <2>3. used.writes \in Nat /\ used = [writes |-> used.writes, troubles |-> used.troubles]
    BY DEF Init
  <2> QED BY <2>1, <2>2, <2>3 DEF ServerOK
<1>4. UrlOK /\ CursorOK
  BY <1>1, <1>2 DEF UrlOK, CursorOK
<1>5. BoxesOK
  <2>1. inbox = [s \in Shapes |-> inbox[s]]
    BY <1>1 DEF EmptyInbox
  <2>2. ASSUME NEW s \in Shapes
        PROVE  BoxOK(inbox[s], Base(s), Length(s), history.tail[s], Acked(s))
    <3>1. inbox[s] = [batches |-> <<>>, applied |-> None, upToDate |-> FALSE, reported |-> FALSE]
      BY <1>1 DEF EmptyInbox
    <3>2. Length(s) \in Nat /\ Base(s) \in 0 .. Length(s)
      BY <1>2
    <3>3. ASSUME NEW base, NEW len, NEW tail, NEW acked, len \in Nat, base \in 0 .. len
          PROVE  BoxOK(inbox[s], base, len, tail, acked)
      BY <3>1, <3>3 DEF BoxOK, IsBox, HeldFrom, Holds, EndOf, None
    <3> QED BY <3>2, <3>3
  <2> QED BY <2>1, <2>2 DEF BoxesOK
<1>6. RecordsOK /\ QueueOK /\ GateOK /\ ReadyOK
  BY <1>1 DEF Init, RecordsOK, QueueOK, Reading, GateOK, ReadyOK, Idle
<1> QED BY <1>3, <1>4, <1>5, <1>6 DEF PosInv

LEMMA PosStep == PosInv /\ [Next]_vars => PosInv'
<1> SUFFICES ASSUME PosInv, [Next]_vars PROVE PosInv'
  OBVIOUS
<1>1. CASE Serve
  BY <1>1, ServePos
<1>2. CASE SyncCircuitsShapes
  BY <1>2, OpenPos
<1>3. CASE Restart \/ Crash \/ DesyncForgets \/ DesyncTruncates
  BY <1>3, StopPos
<1>4. CASE \E s \in Shapes : Answer(s)
  BY <1>4, AnswerPos
<1>5. CASE \E s \in Shapes : StreamEnds(s)
  BY <1>5, StreamEndsPos
<1>6. CASE Deliver
  BY <1>6, DeliverPos
<1>7. CASE BarrierClear \/ BarrierWaits \/ BarrierDegraded \/ CommitFails \/ CommitGivesUp
  BY <1>7, GatePos
<1>8. CASE CommitHeld
  BY <1>8, CommitPos
<1>9. CASE UNCHANGED vars
  <2>1. UNCHANGED <<server, cursor, engine, history, used>>
    BY <1>9 DEF vars
  <2>2. ServerOK' /\ GrownTo(streams, streams')
    BY <2>1, SameServer
  <2> QED BY <2>1, <2>2, GrowPos DEF engine
<1> QED BY <1>1, <1>2, <1>3, <1>4, <1>5, <1>6, <1>7, <1>8, <1>9 DEF Next

LEMMA Positions == Spec => []PosInv
<1> QED BY PosInit, PosStep, PTL DEF Spec

-----------------------------------------------------------------------------
(***************************************************************************)
(* The theorems.                                                           *)
(***************************************************************************)

\* onInitialSync is called only when the subscription recorded everything each
\* stream held when it was subscribed, whatever failed, restarted or was reset
\* before (commitHeld, and the barrier's gate before it).
THEOREM ReadyTheorem == Spec => []ReadyIsCaughtUp
<1>1. PosInv => ReadyIsCaughtUp
  BY DEF PosInv, ReadyOK, ReadyIsCaughtUp
<1> QED BY <1>1, Positions, PTL

(***************************************************************************)
(* The refinement of GroupReplica, but for the rows: every step that       *)
(* changes the streams or the recorded position is a step of Replica!Serve,*)
(* Replica!Commit or Replica!Forget as far as those two are concerned.  So *)
(* updateSubscriptionState moves every shape forward on the stream the     *)
(* engine was granted, or to one that replaced it, and never back: no      *)
(* crash, retry, replaced stream or restart makes the engine lose its      *)
(* place or apply again what it recorded.                                  *)
(***************************************************************************)
ReplicaCursor == IF cursor = <<>> THEN [s \in Shapes |-> [handle |-> 1, offset |-> 0]] ELSE cursor
ServerExtends ==
    /\ \A s \in Shapes : /\ Len(streams'[s]) >= Len(streams[s])
                         /\ \A h \in DOMAIN streams[s] : IsPrefix(streams[s][h], streams'[s][h])
    /\ UNCHANGED ReplicaCursor
GroupMoves ==
    /\ \A s \in Shapes : Replica!Later(ReplicaCursor[s], ReplicaCursor'[s])
    /\ UNCHANGED streams
GroupForgets == ReplicaCursor' = Replica!NoCursor /\ UNCHANGED streams

\* Only a commit and desync() write the subscription row.
LEMMA CursorSteps ==
    ASSUME [Next]_vars
    PROVE  cursor' = cursor \/ CommitHeld \/ DesyncForgets
<1>1. CASE Serve
  BY <1>1 DEF Serve, ServerUpsert, ServerDelete, ServerFlip, DeliverFlip, AbandonFlip, Recreate
<1>2. CASE SyncCircuitsShapes \/ Restart \/ Crash \/ DesyncTruncates
  BY <1>2 DEF SyncCircuitsShapes, Restart, Crash, DesyncTruncates
<1>3. CASE (\E s \in Shapes : Answer(s)) \/ (\E s \in Shapes : StreamEnds(s)) \/ Deliver
  BY <1>3 DEF Answer, StreamEnds, Deliver
<1>4. CASE BarrierClear \/ BarrierWaits \/ BarrierDegraded \/ CommitFails \/ CommitGivesUp
  BY <1>4 DEF BarrierClear, BarrierWaits, BarrierDegraded, CommitFails, CommitGivesUp
<1>5. CASE UNCHANGED vars
  BY <1>5 DEF vars
<1> QED BY <1>1, <1>2, <1>3, <1>4, <1>5 DEF Next

LEMMA StreamSteps ==
    ASSUME [Next]_vars
    PROVE  Serve \/ UNCHANGED <<streams, truth, flips>>
<1>1. CASE SyncCircuitsShapes \/ Restart \/ Crash \/ DesyncForgets \/ DesyncTruncates
  BY <1>1 DEF SyncCircuitsShapes, Restart, Crash, DesyncForgets, DesyncTruncates, Closed, server
<1>2. CASE (\E s \in Shapes : Answer(s)) \/ (\E s \in Shapes : StreamEnds(s)) \/ Deliver
  BY <1>2 DEF Answer, StreamEnds, Deliver, server
<1>3. CASE BarrierClear \/ BarrierWaits \/ BarrierDegraded \/ CommitHeld \/ CommitFails \/ CommitGivesUp
  BY <1>3 DEF BarrierClear, BarrierWaits, BarrierDegraded, CommitHeld, CommitFails, CommitGivesUp, server
<1>4. CASE UNCHANGED vars
  BY <1>4 DEF vars, server
<1> QED BY <1>1, <1>2, <1>3, <1>4 DEF Next

\* A commit moves every shape to a later position.
LEMMA CommitMoves ==
    ASSUME PosInv, CommitHeld, NEW s \in Shapes
    PROVE  Replica!Later(ReplicaCursor[s], ReplicaCursor'[s])
<1>1. /\ cursor'[s] = [handle |-> url[s], offset |-> End(s)] /\ cursor' # <<>>
      /\ Base(s) <= End(s) /\ End(s) \in Nat /\ Base(s) \in Nat
  BY CommitPos
<1>2. ReplicaCursor'[s].handle = url[s] /\ ReplicaCursor'[s].offset = End(s)
  BY <1>1 DEF ReplicaCursor
<1>3. ServerOK /\ UrlOK /\ CursorOK
  BY DEF PosInv
<1>4. url[s] \in Nat /\ url[s] >= 1
  BY <1>3, PosTypes
<1>5. CASE cursor = <<>>
  <2>1. ReplicaCursor[s].handle = 1 /\ ReplicaCursor[s].offset = 0
    BY <1>5 DEF ReplicaCursor
  <2> QED BY <1>1, <1>2, <1>4, <2>1 DEF Replica!Later
<1>6. CASE cursor # <<>>
  <2>1. ReplicaCursor[s] = cursor[s]
    BY <1>6 DEF ReplicaCursor
  <2>2. cursor[s].handle \in 1 .. url[s]
    BY <1>3, <1>6 DEF CursorOK
  <2>3. cursor[s].handle = url[s] => Base(s) = cursor[s].offset
    BY <1>6 DEF Base
  <2>4. cursor[s].handle = url[s] \/ url[s] > cursor[s].handle
    BY <1>4, <2>2
  <2> QED BY <1>1, <1>2, <2>1, <2>3, <2>4 DEF Replica!Later
<1> QED BY <1>5, <1>6

\* The server only adds to what its streams hold.
LEMMA ServeExtends ==
    ASSUME PosInv, Serve
    PROVE  ServerExtends
<1>1. IsStreams(streams) /\ IsStreams(streams') /\ GrownTo(streams, streams') /\ cursor' = cursor
  <2>1. cursor' = cursor
    BY DEF Serve, ServerUpsert, ServerDelete, ServerFlip, DeliverFlip, AbandonFlip, Recreate
  <2> QED BY <2>1, ServerStep DEF PosInv, ServerOK
<1>2. ASSUME NEW s \in Shapes, NEW h \in DOMAIN streams[s]
      PROVE  IsPrefix(streams[s][h], streams'[s][h])
  <2>1. Len(streams[s]) \in Nat /\ Len(streams'[s]) \in Nat /\ Len(streams'[s]) >= Len(streams[s])
    BY <1>1, StreamTypes DEF GrownTo
  <2>2. h \in 1 .. Len(streams[s]) /\ h \in 1 .. Len(streams'[s])
    <3>1. streams[s] \in Seq(Seq(Changes))
      BY <1>1 DEF IsStreams
    <3>2. h \in 1 .. Len(streams[s])
      BY <3>1
    <3> QED BY <2>1, <3>2
  <2>3. PICK a \in Seq(Changes), b \in Seq(Changes) : a = streams[s][h] /\ b = streams'[s][h]
    BY <1>1, <2>2, StreamTypes
  <2>4. Continues(b, a)
    BY <1>1, <2>2, <2>3 DEF GrownTo
  <2>5. SubSeq(a, 1, Len(a)) = SubSeq(b, 1, Len(a))
    BY <2>4 DEF Continues
  <2> QED BY <2>3, <2>4, <2>5 DEF Continues, IsPrefix
<1>3. \A s \in Shapes : Len(streams'[s]) >= Len(streams[s])
  BY <1>1 DEF GrownTo
<1> QED BY <1>1, <1>2, <1>3 DEF ServerExtends, ReplicaCursor

\* The streams and the recorded position move as GroupReplica's do: the three
\* disjuncts are Serve, Commit and Forget without the rows.
THEOREM ReplicaTheorem == Spec => [][ServerExtends \/ GroupMoves \/ GroupForgets]_<<streams, ReplicaCursor>>
<1> DEFINE A == ServerExtends \/ GroupMoves \/ GroupForgets
<1>1. PosInv /\ [Next]_vars => [A]_<<streams, ReplicaCursor>>
  <2> SUFFICES ASSUME PosInv, [Next]_vars PROVE A \/ UNCHANGED <<streams, ReplicaCursor>>
    OBVIOUS
  <2>1. CASE Serve
    BY <2>1, ServeExtends
  <2>2. CASE CommitHeld /\ streams' = streams
    BY <2>2, CommitMoves DEF GroupMoves
  <2>3. CASE DesyncForgets /\ streams' = streams
    <3>1. cursor' = <<>>
      BY <2>3 DEF DesyncForgets
    <3> QED BY <2>3, <3>1 DEF GroupForgets, ReplicaCursor, Replica!NoCursor, Replica!Start
  <2>4. CASE cursor' = cursor /\ streams' = streams
    BY <2>4 DEF ReplicaCursor
  <2> QED BY <2>1, <2>2, <2>3, <2>4, CursorSteps, StreamSteps
<1> QED BY <1>1, PosInit, PosStep, PTL DEF Spec

\* What the inbox holds for a shape is one unbroken range of its stream, which
\* starts at the recorded position: a transaction applies every change between
\* that position and the one it records, each once, whatever was read ahead,
\* delivered twice, retried or reset (StreamInbox, and shape-group's chain).
HeldIsNext == \A s \in Shapes :
    LET base == IF cursor # <<>> /\ cursor[s].handle = url[s] THEN cursor[s].offset ELSE 0
    IN  \/ inbox[s].batches = <<>>
        \/ \E hi \in base .. Len(streams[s][url[s]]) : inbox[s].batches = <<[lo |-> base, hi |-> hi]>>
\* commitHeld applies what follows the recorded position, and only that.
THEOREM HeldTheorem == Spec => []HeldIsNext
<1>1. PosInv => HeldIsNext
  BY DEF PosInv, BoxesOK, BoxOK, HeldFrom, Base, Length, HeldIsNext
<1> QED BY <1>1, Positions, PTL

-----------------------------------------------------------------------------
(***************************************************************************)
(* Induction on numbers, for sets, and folds over the positions of a       *)
(* sequence: MapThenFoldSet of the community modules.                      *)
(***************************************************************************)
LEMMA SmallestOf ==
    ASSUME NEW S \in SUBSET Nat, S # {}
    PROVE  \E n \in S : \A m \in S : n <= m
<1> DEFINE R == {p \in Nat \X Nat : p[1] < p[2]}
<1>1. IsWellFoundedOn(R, Nat)
  BY NatLessThanWellFounded DEF OpToRel
<1> HIDE DEF R
<1>2. PICK n \in S : \A m \in S : ~(<<m, n>> \in R)
  BY <1>1, WFMin
<1>3. ASSUME NEW m \in S PROVE n <= m
  <2>1. n \in Nat /\ m \in Nat
    OBVIOUS
  <2>2. ~(<<m, n>> \in R)
    BY <1>2
  <2>3. ~(m < n)
    BY <2>1, <2>2 DEF R
  <2> QED BY <2>1, <2>3
<1> QED BY <1>3

LEMMA SetInduction ==
    ASSUME NEW S, 0 \in S, \A n \in Nat : n \in S => n + 1 \in S
    PROVE  Nat \subseteq S
<1> DEFINE T == Nat \ S
<1>1. ASSUME T # {} PROVE FALSE
  <2>1. PICK n \in T : \A m \in T : n <= m
    BY <1>1, SmallestOf
  <2>2. n # 0 /\ n - 1 \in Nat /\ n - 1 \notin T
    BY <2>1
  <2>3. (n - 1) + 1 \in S
    BY <2>2
  <2> QED BY <2>1, <2>3
<1> QED BY <1>1

\* A set of numbers up to n has a greatest one.
LEMMA MaxUpTo ==
    ASSUME NEW n \in Nat, NEW S, S \subseteq 1 .. n, S # {}
    PROVE  Max(S) \in S /\ \A y \in S : y <= Max(S)
<1> DEFINE U == {u \in Nat : \A y \in S : y <= u}
<1>1. U # {} /\ U \in SUBSET Nat
  <2>1. n \in U
    OBVIOUS
  <2> QED BY <2>1
<1>2. PICK u \in U : \A v \in U : u <= v
  BY <1>1, SmallestOf
<1>3. u \in S
  <2> SUFFICES ASSUME u \notin S PROVE FALSE
    OBVIOUS
  <2>1. u # 0
    <3>1. PICK y \in S : TRUE
      OBVIOUS
    <3>2. y \in 1 .. n /\ y <= u
      BY <1>2
    <3> QED BY <3>2
  <2>2. \A y \in S : y <= u - 1
    BY <1>1
  <2>3. u - 1 \in U
    BY <2>1, <2>2
  <2> QED BY <1>2, <2>3
<1>4. \E x \in S : \A y \in S : x >= y
  BY <1>3
<1> DEFINE m == Max(S)
<1>5. m \in S /\ \A y \in S : m >= y
  BY <1>4 DEF Max
<1> HIDE DEF m
<1>6. \A y \in S : y \in Nat
  OBVIOUS
<1>7. m \in S /\ \A y \in S : y <= m
  BY <1>5, <1>6
<1> QED BY <1>7 DEF m

\* Folding over the positions 1 .. n by the greatest one first is defined: Folds.tla,
\* for a step that is a function.
Iterates(iter, n, b, F) ==
    iter = [S \in SUBSET (1 .. n) |-> IF S = {} THEN b ELSE F[<<Max(S), iter[S \ {Max(S)}]>>]]

LEMMA FoldStep ==
    ASSUME NEW n \in Nat, NEW V, NEW b \in V, NEW F,
           \A m \in 1 .. n + 1, v \in V : F[<<m, v>>] \in V,
           NEW iter \in [SUBSET (1 .. n) -> V], Iterates(iter, n, b, F)
    PROVE  \E next \in [SUBSET (1 .. n + 1) -> V] : Iterates(next, n + 1, b, F)
<1> DEFINE next == [S \in SUBSET (1 .. n + 1) |-> IF n + 1 \in S THEN F[<<n + 1, iter[S \ {n + 1}]>>] ELSE iter[S]]
<1>1. ASSUME NEW S \in SUBSET (1 .. n + 1)
      PROVE  S \ {n + 1} \in SUBSET (1 .. n) /\ (n + 1 \notin S => S \in SUBSET (1 .. n))
  OBVIOUS
<1>2. next \in [SUBSET (1 .. n + 1) -> V]
  <2> SUFFICES ASSUME NEW S \in SUBSET (1 .. n + 1)
               PROVE  (IF n + 1 \in S THEN F[<<n + 1, iter[S \ {n + 1}]>>] ELSE iter[S]) \in V
    BY Zenon
  <2>1. iter[S \ {n + 1}] \in V /\ (n + 1 \notin S => iter[S] \in V)
    BY <1>1
  <2>2. n + 1 \in 1 .. n + 1
    OBVIOUS
  <2> QED BY <2>1, <2>2
<1>3. ASSUME NEW S \in SUBSET (1 .. n + 1)
      PROVE  next[S] = IF S = {} THEN b ELSE F[<<Max(S), next[S \ {Max(S)}]>>]
  <2>1. CASE S = {}
    <3>1. next[S] = iter[S]
      BY <2>1
    <3>2. iter[S] = b
      BY <2>1 DEF Iterates
    <3> QED BY <2>1, <3>1, <3>2
  <2>2. CASE n + 1 \in S
    <3>1. Max(S) = n + 1
      <4>1. n + 1 \in Nat /\ S \subseteq 1 .. n + 1 /\ S # {}
        BY <2>2
      <4>2. Max(S) \in S /\ \A y \in S : y <= Max(S)
        BY <4>1, MaxUpTo
      <4>3. Max(S) \in 1 .. n + 1 /\ n + 1 <= Max(S)
        BY <2>2, <4>2
      <4> QED BY <4>3
    <3> DEFINE R == S \ {n + 1}
    <3>2. R \in SUBSET (1 .. n + 1) /\ n + 1 \notin R
      OBVIOUS
    <3>3. next[R] = iter[R]
      BY <3>2
    <3>4. next[S] = F[<<n + 1, iter[R]>>]
      BY <2>2
    <3> HIDE DEF next, R
    <3> QED BY <2>2, <3>1, <3>3, <3>4 DEF R
  <2>3. CASE S # {} /\ n + 1 \notin S
    <3>1. S \in SUBSET (1 .. n)
      BY <1>1, <2>3
    <3>2. Max(S) \in S
      BY <2>3, <3>1, MaxUpTo
    <3> DEFINE R == S \ {Max(S)}
    <3>3. R \in SUBSET (1 .. n) /\ R \in SUBSET (1 .. n + 1) /\ n + 1 \notin R
      BY <2>3, <3>1
    <3>4. next[R] = iter[R] /\ next[S] = iter[S]
      BY <2>3, <3>3
    <3>5. iter[S] = F[<<Max(S), iter[R]>>]
      BY <2>3, <3>1 DEF Iterates
    <3> HIDE DEF next
    <3> QED BY <2>3, <3>4, <3>5
  <2> QED BY <2>1, <2>2, <2>3
<1>4. next = [S \in SUBSET (1 .. n + 1) |-> IF S = {} THEN b ELSE F[<<Max(S), next[S \ {Max(S)}]>>]]
  <2>1. next = [S \in SUBSET (1 .. n + 1) |-> next[S]]
    BY <1>2
  <2> HIDE DEF next
  <2> QED BY <1>3, <2>1
<1> HIDE DEF next
<1>5. Iterates(next, n + 1, b, F)
  BY <1>4 DEF Iterates
<1> QED BY <1>2, <1>5

LEMMA FoldExists ==
    ASSUME NEW n \in Nat, NEW V, NEW b \in V, NEW F,
           \A m \in 1 .. n, v \in V : F[<<m, v>>] \in V
    PROVE  \E iter \in [SUBSET (1 .. n) -> V] : Iterates(iter, n, b, F)
<1> DEFINE Has(k) == \E iter \in [SUBSET (1 .. k) -> V] : Iterates(iter, k, b, F)
           D == {k \in Nat : k <= n => Has(k)}
<1>1. 0 \in D
  <2> DEFINE iter == [S \in SUBSET (1 .. 0) |-> b]
  <2>1. iter \in [SUBSET (1 .. 0) -> V]
    OBVIOUS
  <2>2. \A S \in SUBSET (1 .. 0) : S = {}
    OBVIOUS
  <2>3. Iterates(iter, 0, b, F)
    BY <2>2 DEF Iterates
  <2> HIDE DEF iter
  <2> QED BY <2>1, <2>3
<1>2. ASSUME NEW k \in Nat, k \in D PROVE k + 1 \in D
  <2>1. CASE ~(k + 1 <= n)
    BY <2>1
  <2>2. CASE k + 1 <= n
    <3>1. k <= n
      BY <2>2
    <3>2. Has(k)
      <4> HIDE DEF Has
      <4> QED BY <1>2, <3>1
    <3>3. PICK iter \in [SUBSET (1 .. k) -> V] : Iterates(iter, k, b, F)
      BY <3>2
    <3>4. \A m \in 1 .. k + 1 : m \in 1 .. n
      BY <2>2
    <3>5. \A m \in 1 .. k + 1, v \in V : F[<<m, v>>] \in V
      BY <3>4
    <3>6. Has(k + 1)
      BY <3>3, <3>5, FoldStep
    <3> HIDE DEF Has
    <3> QED BY <3>6
  <2> QED BY <2>1, <2>2
<1>3. \A k \in Nat : k \in D => k + 1 \in D
  BY <1>2
<1> HIDE DEF D
<1>4. Nat \subseteq D
  BY <1>1, <1>3, SetInduction
<1>5. n \in D
  BY <1>4
<1>6. n <= n
  OBVIOUS
<1> HIDE DEF Has
<1>7. Has(n)
  BY <1>5, <1>6 DEF D
<1> QED BY <1>7 DEF Has

-----------------------------------------------------------------------------
(***************************************************************************)
(* The fold of a batch: foldChangeBatch and the bulk appliers give what    *)
(* the ordered apply gives, for any rows and any sequence of changes.      *)
(***************************************************************************)
LocalRow == [table : STRING, key : Keys, val : Nat, scope : Shapes, own : BOOLEAN]

LEMMA Initials ==
    ASSUME NEW n \in Nat, NEW k \in 1 .. n
    PROVE  /\ 1 .. k \in SUBSET (1 .. n) /\ 1 .. k # {} /\ Max(1 .. k) = k
           /\ (1 .. k) \ {k} = 1 .. k - 1
<1>1. 1 .. k \in SUBSET (1 .. n) /\ k \in 1 .. k
  OBVIOUS
<1>2. Max(1 .. k) \in 1 .. k /\ k <= Max(1 .. k)
  BY <1>1, MaxUpTo
<1> QED BY <1>1, <1>2

LEMMA OrderedApplyType ==
    ASSUME NEW R \in SUBSET LocalRow, NEW t \in STRING, NEW s \in Shapes, NEW c \in Changes
    PROVE  Replica!OrderedApply(R, t, s, c) \in SUBSET LocalRow
<1> DEFINE o == \E r \in R : r.table = t /\ r.key = c.key /\ r.own
           new == [table |-> t, key |-> c.key, val |-> c.val, scope |-> s, own |-> o]
<1>1. o \in BOOLEAN
  OBVIOUS
<1> HIDE DEF o
<1>2. new \in LocalRow
  BY <1>1 DEF Changes, LocalRow
<1>3. Replica!OrderedApply(R, t, s, c) \subseteq R \cup {new}
  BY DEF Replica!OrderedApply, o
<1> QED BY <1>2, <1>3

\* The reference applies the changes one by one.
LEMMA OrderedRuns ==
    ASSUME NEW R \in SUBSET LocalRow, NEW t \in STRING, NEW s \in Shapes, NEW cs \in Seq(Changes)
    PROVE  \E at : /\ at[0] = R
                   /\ \A i \in 1 .. Len(cs) : at[i] = Replica!OrderedApply(at[i - 1], t, s, cs[i])
                   /\ Replica!OrderedApplyAll(R, t, s, cs) = at[Len(cs)]
<1> DEFINE n == Len(cs)
           V == SUBSET LocalRow
           Op(v, i) == Replica!OrderedApply(v, t, s, cs[i])
           E(iter) == iter = [S \in SUBSET DOMAIN cs |->
                                IF S = {} THEN R ELSE Op(iter[S \ {Max(S)}], Max(S))]
           F == [p \in (1 .. n) \X V |-> Op(p[2], p[1])]
<1>1. n \in Nat /\ DOMAIN cs = 1 .. n /\ \A i \in 1 .. n : cs[i] \in Changes
  OBVIOUS
<1>2. \A v \in V, i \in 1 .. n : Op(v, i) \in V
  BY <1>1, OrderedApplyType
<1>3. Replica!OrderedApplyAll(R, t, s, cs) = (CHOOSE iter : E(iter))[DOMAIN cs]
  BY DEF Replica!OrderedApplyAll, Replica!FoldLeft, Replica!MapThenFoldSet, Replica!Max, Max
<1>4. \A m \in 1 .. n, v \in V : F[<<m, v>>] = Op(v, m)
  OBVIOUS
<1> HIDE DEF Op, F
<1>5. \E iter : E(iter)
  <2>1. PICK iter \in [SUBSET (1 .. n) -> V] : Iterates(iter, n, R, F)
    <3>1. \A m \in 1 .. n, v \in V : F[<<m, v>>] \in V
      BY <1>2, <1>4
    <3>2. R \in V
      OBVIOUS
    <3> HIDE DEF n, V
    <3> QED BY <1>1, <3>1, <3>2, FoldExists
  <2>2. ASSUME NEW S \in SUBSET (1 .. n), S # {}
        PROVE  F[<<Max(S), iter[S \ {Max(S)}]>>] = Op(iter[S \ {Max(S)}], Max(S))
    <3>1. Max(S) \in 1 .. n
      BY <1>1, <2>2, MaxUpTo
    <3>2. iter[S \ {Max(S)}] \in V
      OBVIOUS
    <3> HIDE DEF n, V
    <3> QED BY <1>4, <3>1, <3>2
  <2>3. iter = [S \in SUBSET DOMAIN cs |-> IF S = {} THEN R ELSE Op(iter[S \ {Max(S)}], Max(S))]
    <3> HIDE DEF n, V
    <3> QED BY <1>1, <2>1, <2>2 DEF Iterates
  <2> QED BY <2>3
<1> DEFINE it == CHOOSE iter : E(iter)
<1>6. E(it)
  <2> HIDE DEF E
  <2> QED BY <1>5
<1> HIDE DEF it
<1>7. ASSUME NEW S \in SUBSET (1 .. n)
      PROVE  it[S] = IF S = {} THEN R ELSE Op(it[S \ {Max(S)}], Max(S))
  BY <1>1, <1>6, Zenon
<1> HIDE DEF E, n
<1> DEFINE at == [k \in 0 .. n |-> it[1 .. k]]
<1>8. at[0] = R
  <2>1. 0 \in 0 .. n /\ 1 .. 0 = {} /\ 1 .. 0 \in SUBSET (1 .. n)
    BY <1>1
  <2> QED BY <1>7, <2>1
<1>9. ASSUME NEW i \in 1 .. n PROVE at[i] = Op(at[i - 1], i)
  <2>1. 1 .. i \in SUBSET (1 .. n) /\ 1 .. i # {} /\ Max(1 .. i) = i /\ (1 .. i) \ {i} = 1 .. i - 1
    BY <1>1, Initials
  <2>2. it[1 .. i] = Op(it[1 .. i - 1], i)
    BY <1>7, <2>1
  <2>3. i \in 0 .. n /\ i - 1 \in 0 .. n
    BY <1>1
  <2> QED BY <2>2, <2>3
<1>10. at[n] = it[DOMAIN cs]
  BY <1>1
<1> HIDE DEF at
<1>11. Replica!OrderedApplyAll(R, t, s, cs) = at[n]
  BY <1>3, <1>10 DEF it
<1> QED BY <1>8, <1>9, <1>11 DEF n, Op

\* The last change of a key.
LEMMA LastOpIs ==
    ASSUME NEW cs \in Seq(Changes), NEW i \in DOMAIN cs,
           \A j \in DOMAIN cs : cs[j].key = cs[i].key => j <= i
    PROVE  LastOp(cs, cs[i].key) = cs[i]
<1> DEFINE S == OpsOf(cs, cs[i].key)
<1>1. i \in S /\ Len(cs) \in Nat /\ S \subseteq 1 .. Len(cs)
  BY DEF OpsOf
<1>2. PICK m : m = Max(S) /\ m \in S /\ \A y \in S : y <= m
  BY <1>1, MaxUpTo
<1>3. m \in DOMAIN cs /\ cs[m].key = cs[i].key /\ i <= m
  BY <1>1, <1>2 DEF OpsOf
<1>4. m <= i /\ m \in Nat /\ i \in Nat
  BY <1>3
<1>5. m = i
  BY <1>3, <1>4
<1> QED BY <1>2, <1>5 DEF LastOp

LEMMA LastOpExists ==
    ASSUME NEW cs \in Seq(Changes), NEW k \in KeysOf(cs)
    PROVE  \E i \in DOMAIN cs : /\ cs[i].key = k /\ LastOp(cs, k) = cs[i]
                                /\ \A j \in DOMAIN cs : cs[j].key = k => j <= i
<1> DEFINE S == OpsOf(cs, k)
<1>1. S # {} /\ Len(cs) \in Nat /\ S \subseteq 1 .. Len(cs)
  BY DEF OpsOf, KeysOf
<1>2. Max(S) \in S /\ \A y \in S : y <= Max(S)
  BY <1>1, MaxUpTo
<1>3. Max(S) \in DOMAIN cs /\ cs[Max(S)].key = k /\ \A j \in DOMAIN cs : cs[j].key = k => j <= Max(S)
  BY <1>2 DEF OpsOf
<1> QED BY <1>3 DEF LastOp

\* What the fold leaves: the rows of untouched keys, and one row for each key that
\* is not deleted last.
Owns(R, t, k) == \E r \in InTable(R, t, k) : r.own
NetRow(R, t, s, cs, k) ==
    [table |-> t, key |-> k, val |-> LastOp(cs, k).val, scope |-> s, own |-> ~Deleted(cs, k) /\ Owns(R, t, k)]
Kept(cs) == {k \in KeysOf(cs) : LastOp(cs, k).op # "delete"}

Untouched(R, t, cs) == {r \in R : ~(r.table = t /\ r.key \in KeysOf(cs))}
NetRows(R, t, s, cs) == {NetRow(R, t, s, cs, k) : k \in Kept(cs)}

LEMMA FoldMembers ==
    ASSUME NEW R \in SUBSET LocalRow, NEW t, NEW s, NEW cs \in Seq(Changes)
    PROVE  ApplyFolded(R, t, s, cs) = Untouched(R, t, cs) \cup NetRows(R, t, s, cs)
<1> DEFINE D == {k \in KeysOf(cs) : Deleted(cs, k)}
           U == NetUpserts(cs)
           Left == ApplyBulkDeletes(R, t, D)
           Row(c) == [table |-> t, key |-> c.key, val |-> c.val, scope |-> s, own |-> Owns(Left, t, c.key)]
<1>1. ApplyFolded(R, t, s, cs) = {r \in Left : ~(r.table = t /\ \E c \in U : c.key = r.key)} \cup {Row(c) : c \in U}
  BY DEF ApplyFolded, FoldChangeBatch, ApplyUpserts, Owns
<1>2. ASSUME NEW k \in KeysOf(cs) PROVE LastOp(cs, k).key = k /\ (LastOp(cs, k).op = "delete" => Deleted(cs, k))
  <2>1. PICK i \in DOMAIN cs : cs[i].key = k /\ LastOp(cs, k) = cs[i]
    BY LastOpExists
  <2> QED BY <2>1 DEF Deleted, OpsOf
<1>3. U = {LastOp(cs, k) : k \in Kept(cs)}
  BY DEF NetUpserts, Kept
<1>4. \A k : k \in KeysOf(cs) <=> k \in D \/ \E c \in U : c.key = k
  BY <1>2, <1>3 DEF Kept
<1>5. {r \in Left : ~(r.table = t /\ \E c \in U : c.key = r.key)} = {r \in R : ~(r.table = t /\ r.key \in KeysOf(cs))}
  BY <1>4 DEF ApplyBulkDeletes
<1>6. ASSUME NEW k \in Kept(cs) PROVE Row(LastOp(cs, k)) = NetRow(R, t, s, cs, k)
  <2> DEFINE o1 == Owns(Left, t, k)
             o2 == ~Deleted(cs, k) /\ Owns(R, t, k)
  <2>1. k \in KeysOf(cs) /\ LastOp(cs, k).key = k
    BY <1>2 DEF Kept
  <2>2. o1 <=> o2
    BY <2>1 DEF Owns, InTable, ApplyBulkDeletes
  <2>3. o1 \in BOOLEAN /\ o2 \in BOOLEAN
    BY DEF Owns
  <2>4. o1 = o2
    BY <2>2, <2>3
  <2>5. Row(LastOp(cs, k)) = [table |-> t, key |-> k, val |-> LastOp(cs, k).val, scope |-> s, own |-> o1]
    BY <2>1, Zenon
  <2>6. NetRow(R, t, s, cs, k) = [table |-> t, key |-> k, val |-> LastOp(cs, k).val, scope |-> s, own |-> o2]
    BY DEF NetRow
  <2> HIDE DEF o1, o2, Row
  <2> QED BY <2>4, <2>5, <2>6
<1>7. {Row(c) : c \in U} = {NetRow(R, t, s, cs, k) : k \in Kept(cs)}
  <2> HIDE DEF Row, U
  <2> QED BY <1>3, <1>6
<1> HIDE DEF Row, U, Left
<1> QED BY <1>1, <1>5, <1>7 DEF Untouched, NetRows

LEMMA FoldNothing ==
    ASSUME NEW R \in SUBSET LocalRow, NEW t, NEW s
    PROVE  ApplyFolded(R, t, s, <<>>) = R
<1>1. <<>> \in Seq(Changes) /\ KeysOf(<<>>) = {}
  BY DEF KeysOf
<1>2. Kept(<<>>) = {}
  BY <1>1 DEF Kept
<1>3. ApplyFolded(R, t, s, <<>>) = Untouched(R, t, <<>>) \cup NetRows(R, t, s, <<>>)
  BY <1>1, FoldMembers
<1> QED BY <1>1, <1>2, <1>3 DEF Untouched, NetRows

\* One more change.
LEMMA OneMore ==
    ASSUME NEW cs \in Seq(Changes), NEW c \in Changes
    PROVE  LET more == Append(cs, c)
           IN  /\ more \in Seq(Changes)
               /\ KeysOf(more) = KeysOf(cs) \cup {c.key}
               /\ LastOp(more, c.key) = c
               /\ Deleted(more, c.key) <=> (Deleted(cs, c.key) \/ c.op = "delete")
               /\ \A k \in KeysOf(cs) \ {c.key} : LastOp(more, k) = LastOp(cs, k)
               /\ \A k : k # c.key => (Deleted(more, k) <=> Deleted(cs, k))
<1> DEFINE more == Append(cs, c)
           n == Len(cs)
<1>1. /\ more \in Seq(Changes) /\ n \in Nat /\ DOMAIN more = 1 .. n + 1 /\ DOMAIN cs = 1 .. n
      /\ more[n + 1] = c /\ \A i \in 1 .. n : more[i] = cs[i]
  OBVIOUS
<1> HIDE DEF more, n
<1>2. \A i : i \in DOMAIN more <=> i \in DOMAIN cs \/ i = n + 1
  BY <1>1
<1>3. KeysOf(more) = KeysOf(cs) \cup {c.key}
  BY <1>1, <1>2 DEF KeysOf
<1>4. LastOp(more, c.key) = c
  <2>1. n + 1 \in DOMAIN more /\ \A j \in DOMAIN more : j <= n + 1
    BY <1>1
  <2> QED BY <1>1, <2>1, LastOpIs
<1>5. Deleted(more, c.key) <=> (Deleted(cs, c.key) \/ c.op = "delete")
  BY <1>1, <1>2 DEF Deleted, OpsOf
<1>6. ASSUME NEW k \in KeysOf(cs) \ {c.key} PROVE LastOp(more, k) = LastOp(cs, k)
  <2>1. PICK i \in DOMAIN cs : /\ cs[i].key = k /\ LastOp(cs, k) = cs[i]
                               /\ \A j \in DOMAIN cs : cs[j].key = k => j <= i
    BY LastOpExists
  <2>2. i \in DOMAIN more /\ more[i] = cs[i]
    BY <1>1, <1>2
  <2>3. \A j \in DOMAIN more : more[j].key = k => j <= i
    BY <1>1, <1>2, <2>1
  <2>4. LastOp(more, more[i].key) = more[i]
    BY <1>1, <2>1, <2>2, <2>3, LastOpIs
  <2> QED BY <2>1, <2>2, <2>4
<1>7. ASSUME NEW k, k # c.key PROVE Deleted(more, k) <=> Deleted(cs, k)
  BY <1>1, <1>2, <1>7 DEF Deleted, OpsOf
<1> QED BY <1>1, <1>3, <1>4, <1>5, <1>6, <1>7 DEF more

LEMMA FoldOneMore ==
    ASSUME NEW R \in SUBSET LocalRow, NEW t \in STRING, NEW s \in Shapes,
           NEW cs \in Seq(Changes), NEW c \in Changes
    PROVE  ApplyFolded(R, t, s, Append(cs, c)) = Replica!OrderedApply(ApplyFolded(R, t, s, cs), t, s, c)
<1> DEFINE more == Append(cs, c)
           k == c.key
           A == ApplyFolded(R, t, s, cs)
           Others == {r \in A : ~(r.table = t /\ r.key = k)}
           Rest(d) == Untouched(R, t, d)
           Net(d, j) == NetRow(R, t, s, d, j)
<1>1. /\ more \in Seq(Changes) /\ KeysOf(more) = KeysOf(cs) \cup {k} /\ LastOp(more, k) = c
      /\ Deleted(more, k) <=> (Deleted(cs, k) \/ c.op = "delete")
      /\ \A j \in KeysOf(cs) \ {k} : LastOp(more, j) = LastOp(cs, j)
      /\ \A j : j # k => (Deleted(more, j) <=> Deleted(cs, j))
  BY OneMore
<1> HIDE DEF more
<1>2. /\ A = Rest(cs) \cup {Net(cs, j) : j \in Kept(cs)}
      /\ ApplyFolded(R, t, s, more) = Rest(more) \cup {Net(more, j) : j \in Kept(more)}
  <2>1. A = Rest(cs) \cup NetRows(R, t, s, cs)
    BY FoldMembers
  <2>2. ApplyFolded(R, t, s, more) = Rest(more) \cup NetRows(R, t, s, more)
    BY <1>1, FoldMembers
  <2> QED BY <2>1, <2>2 DEF NetRows
<1> HIDE DEF A
<1>3. ASSUME NEW j \in Kept(cs) \ {k} PROVE Net(more, j) = Net(cs, j)
  <2>1. j \in KeysOf(cs) \ {k}
    BY DEF Kept
  <2>2. LastOp(more, j) = LastOp(cs, j) /\ (Deleted(more, j) <=> Deleted(cs, j))
    BY <1>1, <2>1
  <2>3. Deleted(more, j) \in BOOLEAN /\ Deleted(cs, j) \in BOOLEAN
    BY DEF Deleted
  <2>4. Deleted(more, j) = Deleted(cs, j)
    BY <2>2, <2>3
  <2> QED BY <2>2, <2>4, Zenon DEF NetRow
<1>4. Kept(more) = (Kept(cs) \ {k}) \cup (IF c.op = "delete" THEN {} ELSE {k})
  BY <1>1 DEF Kept
<1>5. Rest(more) = {r \in Rest(cs) : ~(r.table = t /\ r.key = k)}
  BY <1>1 DEF Untouched
<1>6. \A d, j : Net(d, j).table = t /\ Net(d, j).key = j
  BY DEF NetRow
<1> HIDE DEF Net, Rest
<1>7. Others = Rest(more) \cup {Net(more, j) : j \in Kept(cs) \ {k}}
  BY <1>2, <1>3, <1>5, <1>6
<1>8. CASE c.op = "delete"
  <2>1. Kept(more) = Kept(cs) \ {k}
    BY <1>4, <1>8
  <2>2. Replica!OrderedApply(A, t, s, c) = Others
    BY <1>8 DEF Replica!OrderedApply
  <2> QED BY <1>2, <1>7, <2>1, <2>2 DEF more, A
<1>9. CASE c.op # "delete"
  <2> DEFINE o == \E r \in A : r.table = t /\ r.key = k /\ r.own
             o2 == ~Deleted(more, k) /\ Owns(R, t, k)
             new == [table |-> t, key |-> k, val |-> c.val, scope |-> s, own |-> o]
  <2>1. Replica!OrderedApply(A, t, s, c) = Others \cup {new}
    BY <1>9, Zenon DEF Replica!OrderedApply
  <2>2. Net(more, k) = [table |-> t, key |-> k, val |-> c.val, scope |-> s, own |-> o2]
    BY <1>1 DEF Net, NetRow
  <2>3. o <=> o2
    <3>1. CASE k \notin KeysOf(cs)
      <4>1. ~Deleted(cs, k)
        BY <3>1 DEF Deleted, OpsOf, KeysOf
      <4>2. k \notin Kept(cs)
        BY <3>1 DEF Kept
      <4>3. \A r : r.table = t /\ r.key = k => (r \in A <=> r \in R)
        BY <1>2, <1>6, <3>1, <4>2 DEF Rest, Untouched
      <4> QED BY <1>1, <1>9, <4>1, <4>3 DEF Owns, InTable
    <3>2. CASE k \in KeysOf(cs) /\ k \notin Kept(cs)
      <4>1. Deleted(cs, k)
        <5>1. PICK i \in DOMAIN cs : cs[i].key = k /\ LastOp(cs, k) = cs[i]
          BY <3>2, LastOpExists
        <5> QED BY <3>2, <5>1 DEF Kept, Deleted, OpsOf
      <4>2. \A r \in A : ~(r.table = t /\ r.key = k)
        BY <1>2, <1>6, <3>2 DEF Rest, Untouched
      <4> QED BY <1>1, <4>1, <4>2
    <3>3. CASE k \in Kept(cs)
      <4>1. k \in KeysOf(cs)
        BY <3>3 DEF Kept
      <4>2. \A r \in A : r.table = t /\ r.key = k <=> r = Net(cs, k)
        BY <1>2, <1>6, <4>1 DEF Rest, Untouched
      <4>3. Net(cs, k) \in A
        BY <1>2, <3>3
      <4>4. o <=> Net(cs, k).own
        BY <1>6, <4>2, <4>3
      <4>5. Net(cs, k).own <=> (~Deleted(cs, k) /\ Owns(R, t, k))
        BY DEF Net, NetRow
      <4> QED BY <1>1, <1>9, <4>4, <4>5
    <3> QED BY <3>1, <3>2, <3>3
  <2>4. o \in BOOLEAN /\ o2 \in BOOLEAN
    BY DEF Owns
  <2>5. o = o2
    BY <2>3, <2>4
  <2> HIDE DEF o, o2
  <2>6. Net(more, k) = new
    BY <2>2, <2>5
  <2>7. Kept(more) = (Kept(cs) \ {k}) \cup {k}
    BY <1>4, <1>9
  <2> HIDE DEF new, Others
  <2>8. ApplyFolded(R, t, s, more) = Others \cup {new}
    BY <1>2, <1>7, <2>6, <2>7
  <2> QED BY <2>1, <2>8 DEF more, A
<1> QED BY <1>8, <1>9

LEMMA FoldType ==
    ASSUME NEW R \in SUBSET LocalRow, NEW t \in STRING, NEW s \in Shapes, NEW cs \in Seq(Changes)
    PROVE  ApplyFolded(R, t, s, cs) \in SUBSET LocalRow
<1>1. ASSUME NEW k \in Kept(cs) PROVE NetRow(R, t, s, cs, k) \in LocalRow
  <2>1. k \in KeysOf(cs)
    BY DEF Kept
  <2>2. LastOp(cs, k) \in Changes /\ k \in Keys
    <3>1. PICK i \in DOMAIN cs : cs[i].key = k /\ LastOp(cs, k) = cs[i]
      BY <2>1, LastOpExists
    <3>2. cs[i] \in Changes
      OBVIOUS
    <3> QED BY <3>1, <3>2 DEF Changes
  <2>3. (~Deleted(cs, k) /\ Owns(R, t, k)) \in BOOLEAN
    OBVIOUS
  <2>4. LastOp(cs, k).val \in Nat
    BY <2>2 DEF Changes
  <2> DEFINE o == ~Deleted(cs, k) /\ Owns(R, t, k)
             v == LastOp(cs, k).val
  <2>5. NetRow(R, t, s, cs, k) = [table |-> t, key |-> k, val |-> v, scope |-> s, own |-> o]
    BY DEF NetRow
  <2> HIDE DEF o, v
  <2>6. o \in BOOLEAN /\ v \in Nat
    BY <2>3, <2>4 DEF o, v
  <2> QED BY <2>2, <2>5, <2>6 DEF LocalRow
<1>2. NetRows(R, t, s, cs) \in SUBSET LocalRow
  BY <1>1 DEF NetRows
<1>3. Untouched(R, t, cs) \in SUBSET LocalRow
  BY DEF Untouched
<1>4. ApplyFolded(R, t, s, cs) = Untouched(R, t, cs) \cup NetRows(R, t, s, cs)
  BY FoldMembers
<1> QED BY <1>2, <1>3, <1>4

LEMMA NextOfSubSeq ==
    ASSUME NEW cs \in Seq(Changes), NEW a \in 1 .. Len(cs) + 1, NEW i \in Nat, a - 1 <= i, i < Len(cs)
    PROVE  /\ SubSeq(cs, a, i) \in Seq(Changes) /\ cs[i + 1] \in Changes
           /\ SubSeq(cs, a, i + 1) = Append(SubSeq(cs, a, i), cs[i + 1])
<1>1. Len(cs) \in Nat /\ i + 1 \in 1 .. Len(cs) /\ cs[i + 1] \in Changes
  OBVIOUS
<1>2. SubSeq(cs, a, i) \in Seq(Changes) /\ Len(SubSeq(cs, a, i)) = i - a + 1
  OBVIOUS
<1>3. SubSeq(cs, a, i + 1) \in Seq(Changes) /\ Len(SubSeq(cs, a, i + 1)) = i + 1 - a + 1
  BY <1>1
<1> DEFINE p == SubSeq(cs, a, i)
           q == SubSeq(cs, a, i + 1)
<1>4. \A j \in 1 .. i - a + 1 : p[j] = cs[a + j - 1] /\ q[j] = cs[a + j - 1]
  OBVIOUS
<1>5. q[i + 1 - a + 1] = cs[i + 1]
  BY <1>1
<1> HIDE DEF p, q
<1>6. q = Append(p, cs[i + 1])
  BY <1>1, <1>2, <1>3, <1>4, <1>5 DEF p, q
<1> QED BY <1>1, <1>2, <1>6 DEF p, q

\* The fold in bulk is the ordered apply, for any rows, changes and own columns.
LEMMA FoldIsTheOrderedApply ==
    ASSUME NEW R \in SUBSET LocalRow, NEW t \in STRING, NEW s \in Shapes, NEW cs \in Seq(Changes)
    PROVE  ApplyFolded(R, t, s, cs) = Replica!OrderedApplyAll(R, t, s, cs)
<1> DEFINE n == Len(cs)
           A(i) == ApplyFolded(R, t, s, SubSeq(cs, 1, i))
<1>1. PICK at : /\ at[0] = R
                /\ \A i \in 1 .. n : at[i] = Replica!OrderedApply(at[i - 1], t, s, cs[i])
                /\ Replica!OrderedApplyAll(R, t, s, cs) = at[n]
  BY OrderedRuns
<1>2. n \in Nat /\ SubSeq(cs, 1, 0) = <<>> /\ SubSeq(cs, 1, n) = cs
  OBVIOUS
<1>3. A(0) = R
  BY <1>2, FoldNothing
<1>4. ASSUME NEW i \in Nat, i < n
      PROVE  A(i + 1) = Replica!OrderedApply(A(i), t, s, cs[i + 1])
  <2>1. /\ SubSeq(cs, 1, i) \in Seq(Changes) /\ cs[i + 1] \in Changes
        /\ SubSeq(cs, 1, i + 1) = Append(SubSeq(cs, 1, i), cs[i + 1])
    BY <1>4, NextOfSubSeq
  <2> QED BY <2>1, FoldOneMore
<1>5. A(n) = ApplyFolded(R, t, s, cs)
  BY <1>2
<1> HIDE DEF A, n
<1> DEFINE D == {i \in Nat : i <= n => at[i] = A(i)}
<1>6. 0 \in D
  BY <1>1, <1>3
<1>7. \A i \in Nat : i \in D => i + 1 \in D
  <2> SUFFICES ASSUME NEW i \in Nat, i <= n => at[i] = A(i), i + 1 <= n
               PROVE  at[i + 1] = A(i + 1)
    OBVIOUS
  <2>1. i < n /\ i + 1 \in 1 .. n /\ (i + 1) - 1 = i
    BY <1>2
  <2>2. at[i + 1] = Replica!OrderedApply(at[i], t, s, cs[i + 1])
    BY <1>1, <2>1
  <2>3. at[i] = A(i)
    BY <1>2, <2>1
  <2>4. A(i + 1) = Replica!OrderedApply(A(i), t, s, cs[i + 1])
    BY <1>4, <2>1
  <2> QED BY <2>2, <2>3, <2>4
<1> HIDE DEF D
<1>8. n \in D
  BY <1>2, <1>6, <1>7, SetInduction
<1>9. at[n] = A(n)
  BY <1>2, <1>8 DEF D
<1> QED BY <1>1, <1>5, <1>9

\* A fold goes on where an earlier one ended.
LEMMA FoldOnward ==
    ASSUME NEW R \in SUBSET LocalRow, NEW t \in STRING, NEW s \in Shapes,
           NEW cs \in Seq(Changes), NEW b \in 0 .. Len(cs), NEW e \in b .. Len(cs)
    PROVE  ApplyFolded(ApplyFolded(R, t, s, SubSeq(cs, 1, b)), t, s, SubSeq(cs, b + 1, e))
             = ApplyFolded(R, t, s, SubSeq(cs, 1, e))
<1> DEFINE n == Len(cs)
           A(i) == ApplyFolded(R, t, s, SubSeq(cs, 1, i))
           B(i) == ApplyFolded(A(b), t, s, SubSeq(cs, b + 1, i))
<1>0. n \in Nat /\ b \in Nat /\ e \in Nat /\ b <= e /\ e <= n
  OBVIOUS
<1>1. A(b) \in SUBSET LocalRow
  <2>1. SubSeq(cs, 1, b) \in Seq(Changes)
    OBVIOUS
  <2> QED BY <2>1, FoldType
<1>2. B(b) = A(b)
  <2>1. SubSeq(cs, b + 1, b) = <<>>
    OBVIOUS
  <2> HIDE DEF A
  <2> QED BY <1>1, <2>1, FoldNothing
<1>3. ASSUME NEW m \in Nat, b <= m, m < n
      PROVE  /\ A(m + 1) = Replica!OrderedApply(A(m), t, s, cs[m + 1])
             /\ B(m + 1) = Replica!OrderedApply(B(m), t, s, cs[m + 1])
  <2>1. /\ SubSeq(cs, 1, m) \in Seq(Changes) /\ cs[m + 1] \in Changes
        /\ SubSeq(cs, 1, m + 1) = Append(SubSeq(cs, 1, m), cs[m + 1])
    BY <1>3, NextOfSubSeq
  <2>2. A(m + 1) = Replica!OrderedApply(A(m), t, s, cs[m + 1])
    BY <2>1, FoldOneMore
  <2>3. /\ SubSeq(cs, b + 1, m) \in Seq(Changes)
        /\ SubSeq(cs, b + 1, m + 1) = Append(SubSeq(cs, b + 1, m), cs[m + 1])
    <3>1. b + 1 \in 1 .. Len(cs) + 1 /\ (b + 1) - 1 <= m
      BY <1>0, <1>3
    <3> QED BY <1>3, <3>1, NextOfSubSeq
  <2>4. B(m + 1) = Replica!OrderedApply(B(m), t, s, cs[m + 1])
    <3> DEFINE S == A(b)
               p == SubSeq(cs, b + 1, m)
    <3>1. S \in SUBSET LocalRow /\ p \in Seq(Changes)
      BY <1>1, <2>3
    <3> HIDE DEF S, p
    <3>2. ApplyFolded(S, t, s, Append(p, cs[m + 1])) = Replica!OrderedApply(ApplyFolded(S, t, s, p), t, s, cs[m + 1])
      BY <2>1, <3>1, FoldOneMore
    <3> QED BY <2>3, <3>2 DEF S, p
  <2> QED BY <2>2, <2>4
<1> HIDE DEF A, B, n
<1> DEFINE D == {i \in Nat : b + i <= n => B(b + i) = A(b + i)}
<1>4. 0 \in D
  BY <1>0, <1>2
<1>5. \A i \in Nat : i \in D => i + 1 \in D
  <2> SUFFICES ASSUME NEW i \in Nat, b + i <= n => B(b + i) = A(b + i), b + (i + 1) <= n
               PROVE  B(b + (i + 1)) = A(b + (i + 1))
    OBVIOUS
  <2>1. PICK m : m = b + i
    OBVIOUS
  <2>2. m \in Nat /\ b <= m /\ m < n /\ b + (i + 1) = m + 1 /\ B(m) = A(m)
    BY <1>0, <2>1
  <2> QED BY <1>3, <2>2
<1> HIDE DEF D
<1>6. Nat \subseteq D
  BY <1>4, <1>5, SetInduction
<1>7. e - b \in D /\ b + (e - b) = e
  BY <1>0, <1>6
<1>8. B(e) = A(e)
  BY <1>0, <1>7 DEF D
<1> QED BY <1>8 DEF A, B

\* The rows of a shape, and rows where every key is in the scope of its shape.
Part(R, o) == {r \in R : r.scope = o}
Homed(R) == \A r \in R : r.table = TableOf[r.scope] /\ Home[r.key] = r.scope /\ ~r.own

LEMMA FoldScoped ==
    ASSUME NEW R \in SUBSET LocalRow, Homed(R), NEW s \in Shapes, NEW cs \in Seq(Changes),
           \A i \in DOMAIN cs : Home[cs[i].key] = s
    PROVE  LET A == ApplyFolded(R, TableOf[s], s, cs)
           IN  /\ A \in SUBSET LocalRow /\ Homed(A)
               /\ Part(A, s) = ApplyFolded(Part(R, s), TableOf[s], s, cs)
               /\ \A o : o # s => Part(A, o) = Part(R, o)
<1> DEFINE t == TableOf[s]
           A == ApplyFolded(R, t, s, cs)
           P == Part(R, s)
<1>0. t \in STRING
  BY SharingAssumption
<1>1. P \in SUBSET LocalRow /\ Homed(P)
  BY DEF Part, Homed
<1>2. A \in SUBSET LocalRow
  BY <1>0, FoldType
<1>3. \A k \in KeysOf(cs) : Home[k] = s
  BY DEF KeysOf
<1>4. A = Untouched(R, t, cs) \cup NetRows(R, t, s, cs) /\ ApplyFolded(P, t, s, cs) = Untouched(P, t, cs) \cup NetRows(P, t, s, cs)
  BY <1>1, FoldMembers
<1>5. ASSUME NEW k PROVE ~Owns(R, t, k) /\ ~Owns(P, t, k)
  BY <1>1 DEF Owns, InTable, Homed
<1>6. ASSUME NEW k \in Kept(cs)
      PROVE  /\ NetRow(R, t, s, cs, k) = NetRow(P, t, s, cs, k)
             /\ NetRow(R, t, s, cs, k).table = t /\ NetRow(R, t, s, cs, k).scope = s
             /\ NetRow(R, t, s, cs, k).key = k /\ ~NetRow(R, t, s, cs, k).own
  <2> DEFINE o1 == ~Deleted(cs, k) /\ Owns(R, t, k)
             o2 == ~Deleted(cs, k) /\ Owns(P, t, k)
             Row(o) == [table |-> t, key |-> k, val |-> LastOp(cs, k).val, scope |-> s, own |-> o]
  <2>1. o1 = FALSE /\ o2 = FALSE
    BY <1>5
  <2>2. NetRow(R, t, s, cs, k) = Row(o1) /\ NetRow(P, t, s, cs, k) = Row(o2)
    BY DEF NetRow
  <2> HIDE DEF o1, o2
  <2>3. NetRow(R, t, s, cs, k) = Row(FALSE) /\ NetRow(P, t, s, cs, k) = Row(FALSE)
    BY <2>1, <2>2
  <2> QED BY <2>3
<1>7. NetRows(R, t, s, cs) = NetRows(P, t, s, cs)
  BY <1>6 DEF NetRows
<1>8. \A r \in NetRows(R, t, s, cs) : r.table = t /\ r.scope = s /\ r.key \in KeysOf(cs) /\ ~r.own
  BY <1>6 DEF NetRows, Kept
<1>9. \A r \in R : r.table = t /\ r.key \in KeysOf(cs) => r.scope = s
  BY <1>3 DEF Homed
<1>10. Homed(A)
  BY <1>3, <1>4, <1>8 DEF Homed, Untouched
<1>11. Part(A, s) = ApplyFolded(P, t, s, cs)
  <2>1. Part(Untouched(R, t, cs), s) = Untouched(P, t, cs)
    BY DEF Part, Untouched
  <2>2. Part(NetRows(R, t, s, cs), s) = NetRows(P, t, s, cs)
    BY <1>7, <1>8 DEF Part
  <2>3. Part(A, s) = Part(Untouched(R, t, cs), s) \cup Part(NetRows(R, t, s, cs), s)
    BY <1>4 DEF Part
  <2> QED BY <1>4, <2>1, <2>2, <2>3
<1>12. ASSUME NEW o, o # s PROVE Part(A, o) = Part(R, o)
  BY <1>4, <1>8, <1>9, <1>12 DEF Part, Untouched
<1> QED BY <1>2, <1>10, <1>11, <1>12

\* peekAll of a shape: what its stream holds from the recorded position on.
LEMMA HeldIs ==
    ASSUME PosInv, NEW s \in Shapes
    PROVE  /\ streams[s][url[s]] \in Seq(Changes)
           /\ Base(s) \in 0 .. Len(streams[s][url[s]]) /\ End(s) \in Base(s) .. Len(streams[s][url[s]])
           /\ Held(s) = SubSeq(streams[s][url[s]], Base(s) + 1, End(s))
           /\ Held(s) \in Seq(Changes)
<1> DEFINE log == streams[s][url[s]]
           bs == inbox[s].batches
           Op(acc, b) == acc \o SubSeq(log, b.lo + 1, b.hi)
           E(iter) == iter = [S \in SUBSET DOMAIN bs |->
                                IF S = {} THEN <<>> ELSE Op(iter[S \ {Max(S)}], bs[Max(S)])]
<1>0. ServerOK /\ UrlOK /\ CursorOK /\ BoxesOK
  BY DEF PosInv
<1>1. log \in Seq(Changes) /\ Len(log) \in Nat /\ Length(s) = Len(log)
  <2>1. url[s] \in 1 .. Len(streams[s])
    BY <1>0, PosTypes
  <2> QED BY <1>0, <2>1, StreamTypes DEF ServerOK, Length
<1>2. Base(s) \in 0 .. Len(log)
  BY <1>0, <1>1, PosTypes
<1>3. bs = <<>> \/ \E hi \in Base(s) .. Len(log) : bs = <<[lo |-> Base(s), hi |-> hi]>>
  BY <1>0, <1>1 DEF BoxesOK, BoxOK, HeldFrom
<1>4. Held(s) = (CHOOSE iter : E(iter))[DOMAIN bs]
  BY DEF Held, FoldLeft, MapThenFoldSet
<1>5. CASE bs = <<>>
  <2>1. End(s) = Base(s)
    BY <1>5 DEF End, EndOf
  <2>2. DOMAIN bs = {}
    BY <1>5
  <2>3. E([S \in {{}} |-> <<>>])
    BY <2>2
  <2>4. E(CHOOSE iter : E(iter))
    <3> HIDE DEF E
    <3> QED BY <2>3
  <2>5. Held(s) = <<>>
    BY <1>4, <2>2, <2>4
  <2>6. SubSeq(log, Base(s) + 1, End(s)) = <<>>
    <3> HIDE DEF log
    <3> QED BY <1>1, <1>2, <2>1
  <2> QED BY <1>1, <1>2, <2>1, <2>5, <2>6
<1>6. ASSUME NEW hi \in Base(s) .. Len(log), bs = <<[lo |-> Base(s), hi |-> hi]>>
      PROVE  End(s) = hi /\ Held(s) = SubSeq(log, Base(s) + 1, hi)
  <2>1. End(s) = hi
    BY <1>6 DEF End, EndOf
  <2>2. DOMAIN bs = {1} /\ bs[1].lo = Base(s) /\ bs[1].hi = hi
    BY <1>6
  <2> DEFINE got == SubSeq(log, Base(s) + 1, hi)
  <2>3. <<>> \o got = got
    <3>1. got \in Seq(Changes)
      BY <1>1, <1>2
    <3> HIDE DEF got
    <3> QED BY <3>1
  <2>4. Max({1}) = 1 /\ {1} \ {1} = {} /\ SUBSET {1} = {{}, {1}}
    BY DEF Max
  <2> DEFINE it == [S \in {{}, {1}} |-> IF S = {} THEN <<>> ELSE got]
  <2>5. E(it)
    <3>0. {} \in {{}, {1}} /\ {1} \in {{}, {1}} /\ {1} # {}
      OBVIOUS
    <3>1. it[{}] = <<>> /\ it[{1}] = got
      <4> HIDE DEF got
      <4> QED BY <3>0
    <3>2. Op(it[{1} \ {Max({1})}], bs[Max({1})]) = got
      <4>1. it[{1} \ {Max({1})}] = <<>> /\ bs[Max({1})] = bs[1]
        <5> HIDE DEF it, bs
        <5> QED BY <2>4, <3>1
      <4>2. SubSeq(log, bs[1].lo + 1, bs[1].hi) = got
        BY <2>2
      <4> HIDE DEF it, got, bs, log
      <4> QED BY <2>3, <4>1, <4>2
    <3>3. SUBSET DOMAIN bs = {{}, {1}} /\ {1} # {}
      BY <2>2, <2>4
    <3> HIDE DEF Op, got, bs
    <3>4. \A S \in {{}, {1}} : (IF S = {} THEN <<>> ELSE got)
                              = (IF S = {} THEN <<>> ELSE Op(it[S \ {Max(S)}], bs[Max(S)]))
      BY <3>2, <3>3
    <3> QED BY <3>3, <3>4
  <2>6. E(CHOOSE iter : E(iter))
    <3> HIDE DEF E, it
    <3> QED BY <2>5
  <2> DEFINE it2 == CHOOSE iter : E(iter)
  <2> HIDE DEF it2
  <2>7. it2[{}] = <<>> /\ it2[{1}] = Op(it2[{}], bs[1])
    <3>1. \A S \in SUBSET {1} : it2[S] = IF S = {} THEN <<>> ELSE Op(it2[S \ {Max(S)}], bs[Max(S)])
      <4> HIDE DEF Op
      <4> QED BY <2>2, <2>6, Zenon DEF it2
    <3> HIDE DEF Op
    <3> QED BY <2>4, <3>1
  <2>8. it2[{1}] = got
    BY <2>2, <2>3, <2>7
  <2> QED BY <1>4, <2>1, <2>2, <2>8 DEF it2
<1>7. CASE \E hi \in Base(s) .. Len(log) : bs = <<[lo |-> Base(s), hi |-> hi]>>
  <2>1. PICK hi \in Base(s) .. Len(log) : bs = <<[lo |-> Base(s), hi |-> hi]>>
    BY <1>7
  <2>2. End(s) = hi /\ Held(s) = SubSeq(log, Base(s) + 1, hi)
    BY <1>6, <2>1
  <2>3. SubSeq(log, Base(s) + 1, hi) \in Seq(Changes)
    BY <1>1, <1>2
  <2> QED BY <1>1, <1>2, <2>2, <2>3
<1> QED BY <1>3, <1>5, <1>7

-----------------------------------------------------------------------------
(***************************************************************************)
(* The scopes, when no row moves: a stream carries the keys of its shape   *)
(* only.                                                                   *)
(***************************************************************************)
OfShape(log, s) == \A i \in 1 .. Len(log) : Home[log[i].key] = s
ScopedStreams(str) == \A s \in Shapes : \A h \in 1 .. Len(str[s]) : OfShape(str[s][h], s)
HomeOK ==
    /\ ScopedStreams(streams)
    /\ \A r \in truth \cup flips : r.table = TableOf[r.scope] /\ Home[r.key] = r.scope

\* A change of a key of the shape joins its stream.
LEMMA AppendScoped ==
    ASSUME NEW str, IsStreams(str), ScopedStreams(str), NEW s \in Shapes, NEW c \in Changes,
           Home[c.key] = s
    PROVE  ScopedStreams(AppendLog(str, s, c))
<1> DEFINE n == Len(str[s])
           log == str[s][n]
           more == Append(log, c)
           logs == [str[s] EXCEPT ![n] = more]
           new == AppendLog(str, s, c)
<1>1. str[s] \in Seq(Seq(Changes)) /\ n \in 1 .. n /\ n \in Nat
  BY StreamTypes
<1>2. log \in Seq(Changes) /\ OfShape(log, s)
  BY <1>1 DEF ScopedStreams
<1>3. more \in Seq(Changes) /\ Len(more) = Len(log) + 1 /\ Len(log) \in Nat
  BY <1>2
<1>4. /\ logs \in Seq(Seq(Changes)) /\ Len(logs) = n
      /\ \A j \in 1 .. n : logs[j] = IF j = n THEN more ELSE str[s][j]
  <2> HIDE DEF more
  <2> QED BY <1>1, <1>3, ExceptSeq
<1>5. new = [str EXCEPT ![s] = logs]
  BY DEF AppendLog
<1>6. OfShape(more, s)
  <2>1. \A i \in 1 .. Len(more) : more[i] = IF i = Len(more) THEN c ELSE log[i]
    BY <1>2, <1>3
  <2>2. \A i \in 1 .. Len(more) : i = Len(more) \/ i \in 1 .. Len(log)
    BY <1>3
  <2> HIDE DEF more, log
  <2> QED BY <1>2, <2>1, <2>2 DEF OfShape
<1> HIDE DEF logs, new, more
<1>7. /\ DOMAIN new = Shapes /\ new[s] = logs
      /\ \A t \in Shapes : t # s => new[t] = str[t]
  BY <1>5 DEF IsStreams
<1>8. ScopedStreams(new)
  <2> SUFFICES ASSUME NEW t \in Shapes, NEW h \in 1 .. Len(new[t]) PROVE OfShape(new[t][h], t)
    BY DEF ScopedStreams
  <2>1. CASE t # s
    BY <1>7, <2>1 DEF ScopedStreams
  <2>2. CASE t = s
    BY <1>4, <1>6, <1>7, <2>2 DEF ScopedStreams
  <2> QED BY <2>1, <2>2
<1> QED BY <1>8 DEF new

\* A stream that replaces one starts with the rows as they are.
LEMMA SnapshotScoped ==
    ASSUME NEW str, IsStreams(str), ScopedStreams(str), NEW s \in Shapes,
           NEW log \in Seq(Changes), OfShape(log, s)
    PROVE  ScopedStreams([str EXCEPT ![s] = Append(@, log)])
<1> DEFINE new == [str EXCEPT ![s] = Append(@, log)]
<1>1. str[s] \in Seq(Seq(Changes)) /\ Len(str[s]) \in Nat
  BY StreamTypes
<1>2. /\ Len(Append(str[s], log)) = Len(str[s]) + 1
      /\ \A h \in 1 .. Len(str[s]) + 1 : Append(str[s], log)[h] = IF h = Len(str[s]) + 1 THEN log ELSE str[s][h]
  BY <1>1
<1>3. /\ new[s] = Append(str[s], log)
      /\ \A t \in Shapes : t # s => new[t] = str[t]
  BY DEF IsStreams
<1> HIDE DEF new
<1>4. ASSUME NEW t \in Shapes, NEW h \in 1 .. Len(new[t]) PROVE OfShape(new[t][h], t)
  <2>1. CASE t # s
    BY <1>3, <1>4, <2>1 DEF ScopedStreams
  <2>2. CASE t = s
    <3>1. h \in 1 .. Len(str[s]) + 1
      BY <1>2, <1>3, <1>4, <2>2
    <3>2. h = Len(str[s]) + 1 \/ h \in 1 .. Len(str[s])
      BY <1>1, <3>1
    <3>3. new[t][h] = IF h = Len(str[s]) + 1 THEN log ELSE str[s][h]
      BY <1>2, <1>3, <2>2, <3>1
    <3> QED BY <2>2, <3>2, <3>3 DEF ScopedStreams
  <2> QED BY <2>1, <2>2
<1>5. ScopedStreams(new)
  BY <1>4 DEF ScopedStreams
<1> QED BY <1>5 DEF new

LEMMA SnapshotIsOfShape ==
    ASSUME NEW mine, IsFiniteSet(mine), NEW s, \A r \in mine : Home[r.key] = s
    PROVE  LET log == [i \in 1..Len(SetToSeq(mine)) |->
                         Change("upsert", SetToSeq(mine)[i].key, SetToSeq(mine)[i].val)]
           IN  OfShape(log, s)
<1> DEFINE n == Cardinality(mine)
           f == SetToSeq(mine)
           log == [i \in 1..Len(f) |-> Change("upsert", f[i].key, f[i].val)]
<1>1. n \in Nat /\ ExistsBijection(1 .. n, mine)
  BY FS_CardinalityType
<1>2. \E g \in [1 .. n -> mine] : IsInjective(g)
  BY <1>1 DEF ExistsBijection, Bijection, Injection
<1>3. f \in [1 .. n -> mine]
  BY <1>2 DEF SetToSeq
<1> HIDE DEF f, n
<1>4. Len(f) = n /\ \A i \in 1 .. n : f[i] \in mine
  BY <1>1, <1>3
<1>5. Len(log) = n /\ \A i \in 1 .. n : log[i].key = f[i].key
  BY <1>1, <1>4 DEF Change
<1>6. OfShape(log, s)
  <2>1. \A i \in 1 .. n : Home[log[i].key] = s
    BY <1>4, <1>5
  <2> HIDE DEF log
  <2> QED BY <1>1, <1>5, <2>1 DEF OfShape
<1> QED BY <1>6 DEF log, f

LEMMA HomeInit == Init => HomeOK
<1> SUFFICES ASSUME Init PROVE HomeOK
  OBVIOUS
<1>1. ASSUME NEW s \in Shapes, NEW h \in 1 .. Len(streams[s]) PROVE streams[s][h] = <<>>
  <2>1. streams[s] = << << >> >>
    BY DEF Init
  <2> QED BY <2>1
<1>2. truth \cup flips = {}
  BY DEF Init
<1>3. \A s : OfShape(<<>>, s)
  BY DEF OfShape
<1> QED BY <1>1, <1>2, <1>3 DEF HomeOK, ScopedStreams

LEMMA HomeServe ==
    ASSUME "move" \notin Windows, ServerOK, HomeOK, Serve
    PROVE  HomeOK'
<1> DEFINE Ok(r) == r.table = TableOf[r.scope] /\ Home[r.key] = r.scope
<1>0. /\ IsStreams(streams) /\ ScopedStreams(streams) /\ IsFiniteSet(truth)
      /\ \A r \in truth \cup flips : Ok(r) /\ r.key \in Keys /\ r.scope \in Shapes
  BY DEF ServerOK, HomeOK, IsServerRow
<1>1. ASSUME ScopedStreams(streams'), \A r \in truth' \cup flips' : Ok(r) PROVE HomeOK'
  BY <1>1 DEF HomeOK
<1>3. ASSUME NEW s \in Shapes, NEW k \in Keys, ServerUpsert(s, k) PROVE HomeOK'
  <2> DEFINE old  == Holder(TableOf[s], k)
             v    == used.writes + 1
             left == {r \in old : r.scope # s}
             str  == IF left = {} THEN streams
                     ELSE AppendLog(streams, (CHOOSE r \in left : TRUE).scope, Change("delete", k, 0))
             row  == [table |-> TableOf[s], key |-> k, scope |-> s, val |-> v]
             c    == Change("upsert", k, v)
  <2>1. /\ truth' = (truth \ old) \cup {row} /\ streams' = AppendLog(str, s, c)
        /\ flips' = flips /\ Home[k] = s
    BY <1>3 DEF ServerUpsert
  <2>2. left = {}
    BY <1>0, <2>1 DEF Holder
  <2>3. streams' = AppendLog(streams, s, c)
    BY <2>1, <2>2
  <2>4. c \in Changes /\ c.key = k
    BY DEF ServerOK, Change, Changes
  <2> HIDE DEF c, str, left, old
  <2>5. ScopedStreams(streams')
    BY <1>0, <2>1, <2>3, <2>4, AppendScoped
  <2>6. Ok(row)
    BY <2>1
  <2> HIDE DEF row, Ok
  <2> QED BY <1>0, <1>1, <2>1, <2>5, <2>6
<1>4. ASSUME NEW r \in truth \cup flips, streams' = AppendLog(streams, r.scope, Change("delete", r.key, 0)),
             truth' \subseteq truth, flips' \subseteq flips
      PROVE  HomeOK'
  <2> DEFINE c == Change("delete", r.key, 0)
  <2>1. c \in Changes /\ c.key = r.key
    BY <1>0 DEF Change, Changes
  <2>2. Home[c.key] = r.scope /\ r.scope \in Shapes
    BY <1>0, <2>1
  <2> HIDE DEF c
  <2>3. ScopedStreams(streams')
    BY <1>0, <1>4, <2>1, <2>2, AppendScoped DEF c
  <2> HIDE DEF Ok
  <2> QED BY <1>0, <1>1, <1>4, <2>3
<1>5. CASE \E r \in truth : ServerDelete(r)
  BY <1>4, <1>5 DEF ServerDelete
<1>6. CASE \E r \in truth : ServerFlip(r)
  <2>1. streams' = streams /\ truth' \cup flips' \subseteq truth \cup flips
    BY <1>6 DEF ServerFlip
  <2> QED BY <1>0, <1>1, <2>1
<1>7. CASE \E r \in flips : DeliverFlip(r)
  BY <1>4, <1>7 DEF DeliverFlip
<1>8. CASE AbandonFlip
  <2>1. streams' = streams /\ truth' = truth /\ flips' = flips
    BY <1>8 DEF AbandonFlip
  <2> QED BY <1>0, <1>1, <2>1
<1>9. ASSUME NEW s \in Shapes, Recreate(s) PROVE HomeOK'
  <2> DEFINE mine == {r \in truth : r.scope = s}
             snapshot == [i \in 1..Len(SetToSeq(mine)) |->
                             Change("upsert", SetToSeq(mine)[i].key, SetToSeq(mine)[i].val)]
  <2>1. /\ streams' = [streams EXCEPT ![s] = Append(@, snapshot)]
        /\ truth' = truth /\ flips' = flips
    BY <1>9 DEF Recreate
  <2>2. IsFiniteSet(mine) /\ \A r \in mine : IsServerRow(r) /\ Home[r.key] = s
    BY <1>0, FS_Subset DEF ServerOK
  <2> HIDE DEF mine
  <2>3. snapshot \in Seq(Changes)
    BY <2>2, SnapshotType
  <2>4. OfShape(snapshot, s)
    BY <2>2, SnapshotIsOfShape
  <2> HIDE DEF snapshot
  <2>5. ScopedStreams(streams')
    BY <1>0, <2>1, <2>3, <2>4, SnapshotScoped
  <2> HIDE DEF Ok
  <2> QED BY <1>0, <1>1, <2>1, <2>5
<1> QED BY <1>3, <1>5, <1>6, <1>7, <1>8, <1>9 DEF Serve

LEMMA HomeStep ==
    ASSUME "move" \notin Windows, ServerOK, HomeOK, [Next]_vars
    PROVE  HomeOK'
<1>1. CASE Serve
  BY <1>1, HomeServe
<1>2. CASE UNCHANGED <<streams, truth, flips>>
  BY <1>2 DEF HomeOK, ScopedStreams
<1> QED BY <1>1, <1>2, StreamSteps

-----------------------------------------------------------------------------
(***************************************************************************)
(* The rows.  The rows in the scope of a shape are those its recorded      *)
(* position stands for, and the shapes to clear are those whose stream was *)
(* replaced since: that makes each transaction start where its batches do. *)
(***************************************************************************)
Stands(str, s, at) == ApplyFolded({}, TableOf[s], s, SubSeq(str[s][at.handle], 1, at.offset))
DesyncOK ==
    /\ Reading => desync = "idle"
    /\ desync \in {"idle", "forgotten"} /\ (desync = "forgotten" => cursor = <<>>)
LocalOK == rows \in SUBSET LocalRow /\ Homed(rows)
StandsOK == desync = "idle" => \A s \in Shapes : Part(rows, s) = Stands(streams, s, ReplicaCursor[s])
TruncateOK == Reading => flags.truncate = {s \in Shapes : cursor # <<>> /\ cursor[s].handle # url[s]}
RowsOK == DesyncOK /\ LocalOK /\ StandsOK /\ TruncateOK

LEMMA PositionType ==
    ASSUME PosInv, NEW s \in Shapes
    PROVE  /\ ReplicaCursor[s].handle \in 1 .. Len(streams[s])
           /\ streams[s][ReplicaCursor[s].handle] \in Seq(Changes)
           /\ ReplicaCursor[s].offset \in 0 .. Len(streams[s][ReplicaCursor[s].handle])
<1>1. ServerOK /\ UrlOK /\ CursorOK
  BY DEF PosInv
<1>2. Len(streams[s]) \in Nat /\ url[s] \in Nat /\ url[s] \in 1 .. Len(streams[s])
  BY <1>1, PosTypes
<1>3. \A h \in 1 .. Len(streams[s]) : streams[s][h] \in Seq(Changes) /\ Len(streams[s][h]) \in Nat
  BY <1>1, StreamTypes DEF ServerOK
<1>4. CASE cursor = <<>>
  <2>1. ReplicaCursor[s].handle = 1 /\ ReplicaCursor[s].offset = 0
    BY <1>4 DEF ReplicaCursor
  <2>2. 1 \in 1 .. Len(streams[s])
    BY <1>2
  <2>3. 0 \in 0 .. Len(streams[s][1])
    BY <1>3, <2>2
  <2> QED BY <1>3, <2>1, <2>2, <2>3
<1>5. CASE cursor # <<>>
  <2>1. ReplicaCursor[s] = cursor[s]
    BY <1>5 DEF ReplicaCursor
  <2>2. cursor[s].handle \in 1 .. url[s] /\ cursor[s].offset \in 0 .. Len(streams[s][cursor[s].handle])
    BY <1>1, <1>5 DEF CursorOK
  <2>3. cursor[s].handle \in 1 .. Len(streams[s])
    BY <1>2, <2>2
  <2> QED BY <1>3, <2>1, <2>2, <2>3
<1> QED BY <1>4, <1>5

\* What a position stands for does not change while the streams grow.
LEMMA StandsGrown ==
    ASSUME NEW a, NEW b, IsStreams(a), IsStreams(b), GrownTo(a, b), NEW s \in Shapes, NEW at,
           at.handle \in 1 .. Len(a[s]), at.offset \in 0 .. Len(a[s][at.handle])
    PROVE  Stands(b, s, at) = Stands(a, s, at)
<1> DEFINE h == at.handle
           p == a[s][h]
           q == b[s][h]
           n == at.offset
<1>1. Len(a[s]) \in Nat /\ Len(b[s]) \in Nat /\ Len(b[s]) >= Len(a[s])
  BY StreamTypes DEF GrownTo
<1>2. h \in 1 .. Len(a[s]) /\ h \in 1 .. Len(b[s])
  BY <1>1
<1>3. p \in Seq(Changes) /\ q \in Seq(Changes) /\ Continues(q, p)
  BY <1>2, StreamTypes DEF GrownTo
<1>4. n \in Nat /\ n <= Len(p) /\ Len(p) <= Len(q) /\ \A i \in 1 .. n : q[i] = p[i]
  BY <1>3 DEF Continues
<1> HIDE DEF p, q, n
<1>5. SubSeq(q, 1, n) = SubSeq(p, 1, n)
  <2>1. Len(SubSeq(q, 1, n)) = n /\ Len(SubSeq(p, 1, n)) = n
    BY <1>3, <1>4
  <2>2. \A i \in 1 .. n : SubSeq(q, 1, n)[i] = q[i] /\ SubSeq(p, 1, n)[i] = p[i]
    BY <1>3, <1>4
  <2>3. SubSeq(q, 1, n) \in Seq(Changes) /\ SubSeq(p, 1, n) \in Seq(Changes)
    BY <1>3, <1>4
  <2> QED BY <1>4, <2>1, <2>2, <2>3
<1> QED BY <1>5 DEF Stands, p, q, n

\* What a transaction leaves of a shape is what the batches held go on from.
LEMMA StartsAtBase ==
    ASSUME PosInv, RowsOK, Reading, NEW s \in Shapes
    PROVE  (IF s \in flags.truncate THEN {} ELSE Part(rows, s))
             = ApplyFolded({}, TableOf[s], s, SubSeq(streams[s][url[s]], 1, Base(s)))
<1> DEFINE log == streams[s][url[s]]
           t == TableOf[s]
<1>1. log \in Seq(Changes) /\ Base(s) \in 0 .. Len(log)
  BY HeldIs
<1>2. \A l : l \in Seq(Changes) => ApplyFolded({}, t, s, SubSeq(l, 1, 0)) = {}
  <2>1. \A l : l \in Seq(Changes) => SubSeq(l, 1, 0) = <<>>
    OBVIOUS
  <2>2. {} \in SUBSET LocalRow
    OBVIOUS
  <2>3. ApplyFolded({}, t, s, <<>>) = {}
    BY <2>2, FoldNothing
  <2> QED BY <2>1, <2>3
<1>3. flags.truncate = {o \in Shapes : cursor # <<>> /\ cursor[o].handle # url[o]}
  BY DEF RowsOK, TruncateOK
<1>4. Part(rows, s) = Stands(streams, s, ReplicaCursor[s])
  BY DEF RowsOK, DesyncOK, StandsOK
<1> HIDE DEF t
<1>5. CASE cursor = <<>>
  <2>1. s \notin flags.truncate /\ Base(s) = 0
    BY <1>3, <1>5 DEF Base
  <2>2. ReplicaCursor[s].handle = 1 /\ ReplicaCursor[s].offset = 0
    BY <1>5 DEF ReplicaCursor
  <2>3. streams[s][1] \in Seq(Changes)
    BY <2>2, PositionType
  <2>4. Part(rows, s) = {}
    BY <1>2, <1>4, <2>2, <2>3 DEF Stands, t
  <2> HIDE DEF log
  <2> QED BY <1>1, <1>2, <2>1, <2>4 DEF log, t
<1>6. CASE cursor # <<>> /\ cursor[s].handle = url[s]
  <2>1. s \notin flags.truncate /\ Base(s) = cursor[s].offset /\ ReplicaCursor[s] = cursor[s]
    BY <1>3, <1>6 DEF Base, ReplicaCursor
  <2> QED BY <1>4, <1>6, <2>1 DEF Stands
<1>7. CASE cursor # <<>> /\ cursor[s].handle # url[s]
  <2>1. s \in flags.truncate /\ Base(s) = 0
    BY <1>3, <1>7 DEF Base
  <2> HIDE DEF log
  <2> QED BY <1>1, <1>2, <2>1 DEF log, t
<1> QED BY <1>5, <1>6, <1>7

\* The scoped clear, or the TRUNCATE of a table no other shape applies into.
LEMMA ClearScoped ==
    ASSUME NEW R \in SUBSET LocalRow, Homed(R), NEW s \in Shapes
    PROVE  /\ Clear(R, s) \in SUBSET LocalRow /\ Homed(Clear(R, s))
           /\ Part(Clear(R, s), s) = {}
           /\ \A o \in Shapes : o # s => Part(Clear(R, s), o) = Part(R, o)
<1>1. Clear(R, s) \subseteq R
  BY DEF Clear
<1>2. \A r \in R : r.scope \in Shapes /\ r.table = TableOf[r.scope]
  BY DEF Homed, LocalRow
<1>3. Part(Clear(R, s), s) = {}
  BY <1>2 DEF Clear, Part
<1>4. \A o \in Shapes : o # s => Part(Clear(R, s), o) = Part(R, o)
  BY <1>2 DEF Clear, Part
<1> QED BY <1>1, <1>3, <1>4 DEF Homed

\* A shape whose backfill is still open was applied nothing of its stream, or
\* what was applied was handed back to the fold.
BulkOK == Reading => \A s \in flags.bulk : s \in Shapes /\ (Base(s) = 0 \/ s \in history.handed)
\* The former: no bulk load meets a key it would collide with.
FreshBulk == \A s \in flags.bulk : s \in Shapes /\ Base(s) = 0

NewPart(s) == ApplyFolded({}, TableOf[s], s, SubSeq(streams[s][url[s]], 1, End(s)))
Results == [ok : BOOLEAN, rows : SUBSET LocalRow]

LEMMA HeldOfShape ==
    ASSUME PosInv, HomeOK, NEW s \in Shapes
    PROVE  \A i \in DOMAIN Held(s) : Home[Held(s)[i].key] = s
<1> DEFINE log == streams[s][url[s]]
           b == Base(s)
           e == End(s)
<1>1. log \in Seq(Changes) /\ b \in 0 .. Len(log) /\ e \in b .. Len(log) /\ Held(s) = SubSeq(log, b + 1, e)
  BY HeldIs
<1>2. OfShape(log, s)
  <2>1. url[s] \in 1 .. Len(streams[s])
    BY DEF PosInv, UrlOK
  <2> QED BY <2>1 DEF HomeOK, ScopedStreams
<1> HIDE DEF log, b, e
<1>3. Len(log) \in Nat /\ b \in Nat /\ e \in Nat /\ b <= e /\ e <= Len(log)
  BY <1>1
<1>4. DOMAIN Held(s) = 1 .. e - b /\ \A i \in 1 .. e - b : Held(s)[i] = log[b + i]
  BY <1>1, <1>3
<1>5. \A i \in 1 .. e - b : b + i \in 1 .. Len(log)
  BY <1>3
<1> QED BY <1>2, <1>4, <1>5 DEF OfShape

\* One shape of a transaction.
LEMMA ShapeApplied ==
    ASSUME PosInv, HomeOK, RowsOK, Reading, NEW s \in Shapes, NEW tx \in Results,
           Homed(tx.rows), Part(tx.rows, s) = Part(rows, s)
    PROVE  LET new == ApplyShape(tx, s)
           IN  /\ Homed(new.rows) /\ Part(new.rows, s) = NewPart(s)
               /\ \A o \in Shapes : o # s => Part(new.rows, o) = Part(tx.rows, o)
               /\ FreshBulk /\ tx.ok => new.ok
<1> DEFINE t == TableOf[s]
           R == tx.rows
           C == IF s \in flags.truncate THEN Clear(R, s) ELSE R
           log == streams[s][url[s]]
           b == Base(s)
           e == End(s)
           A == ApplyFolded(C, t, s, Held(s))
           loads == BulkLoads(C, t, Bulk(s))
           new == ApplyShape(tx, s)
<1>0. t \in STRING
  BY SharingAssumption
<1>1. new.rows = A /\ new.ok = (tx.ok /\ loads)
  BY DEF ApplyShape
<1>2. /\ log \in Seq(Changes) /\ b \in 0 .. Len(log) /\ e \in b .. Len(log)
      /\ Held(s) = SubSeq(log, b + 1, e) /\ Held(s) \in Seq(Changes)
  BY HeldIs
<1>3. R \in SUBSET LocalRow /\ tx.ok \in BOOLEAN
  BY DEF Results
<1>4. /\ C \in SUBSET LocalRow /\ Homed(C)
      /\ Part(C, s) = (IF s \in flags.truncate THEN {} ELSE Part(rows, s))
      /\ \A o \in Shapes : o # s => Part(C, o) = Part(R, o)
  <2> HIDE DEF R
  <2>1. CASE s \in flags.truncate
    BY <1>3, <2>1, ClearScoped DEF R
  <2>2. CASE s \notin flags.truncate
    BY <1>3, <2>2 DEF R
  <2> QED BY <2>1, <2>2
<1>5. Part(C, s) = ApplyFolded({}, t, s, SubSeq(log, 1, b))
  BY <1>4, StartsAtBase
<1>6. /\ Homed(A) /\ Part(A, s) = ApplyFolded(Part(C, s), t, s, Held(s))
      /\ \A o : o # s => Part(A, o) = Part(C, o)
  <2>1. \A i \in DOMAIN Held(s) : Home[Held(s)[i].key] = s
    BY HeldOfShape
  <2> HIDE DEF C
  <2> QED BY <1>2, <1>4, <2>1, FoldScoped
<1>7. Part(A, s) = NewPart(s)
  <2>1. {} \in SUBSET LocalRow
    OBVIOUS
  <2> HIDE DEF log, t, b, e, A, C
  <2>2. ApplyFolded(ApplyFolded({}, t, s, SubSeq(log, 1, b)), t, s, SubSeq(log, b + 1, e))
          = ApplyFolded({}, t, s, SubSeq(log, 1, e))
    BY <1>0, <1>2, <2>1, FoldOnward
  <2> QED BY <1>2, <1>5, <1>6, <2>2 DEF NewPart, log, t, e
<1>8. ASSUME FreshBulk PROVE loads
  <2> SUFFICES ASSUME NEW k \in Bulk(s), NEW r \in C, r.table = t, r.key = k PROVE FALSE
    BY DEF BulkLoads, InTable
  <2>1. s \in flags.bulk /\ k \in KeysOf(LeadingRun(Held(s)))
    BY <1>8 DEF Bulk, BulkKeys, FirstSeen, KeysOf
  <2>2. b = 0
    BY <1>8, <2>1 DEF FreshBulk
  <2>3. Part(C, s) = {}
    <3>1. SubSeq(log, 1, b) = <<>> /\ {} \in SUBSET LocalRow
      BY <1>2, <2>2
    <3> HIDE DEF log, b, t, C
    <3> QED BY <1>5, <3>1, FoldNothing
  <2>4. k \in KeysOf(Held(s))
    <3> DEFINE d == SelectInSeq(Held(s), LAMBDA c : c.op = "delete")
    <3>1. LeadingRun(Held(s)) = IF d = 0 THEN Held(s) ELSE SubSeq(Held(s), 1, d - 1)
      BY DEF LeadingRun
    <3>2. d = 0 \/ d \in DOMAIN Held(s)
      <4> DEFINE I == {i \in 1 .. Len(Held(s)) : Held(s)[i].op = "delete"}
      <4>1. d = IF I # {} THEN CHOOSE x \in I : \A y \in I : x <= y ELSE 0
        BY DEF SelectInSeq, Min
      <4>2. DOMAIN Held(s) = 1 .. Len(Held(s)) /\ I \subseteq Nat
        BY <1>2
      <4> HIDE DEF I
      <4>3. I # {} => \E x \in I : \A y \in I : x <= y
        BY <4>2, SmallestOf
      <4>4. d = 0 \/ d \in I
        BY <4>1, <4>3
      <4> QED BY <4>2, <4>4 DEF I
    <3> HIDE DEF d
    <3>3. \A h \in Seq(Changes) : \A x \in DOMAIN h :
            \A i \in DOMAIN SubSeq(h, 1, x - 1) : i \in DOMAIN h /\ SubSeq(h, 1, x - 1)[i] = h[i]
      OBVIOUS
    <3>4. \A i \in DOMAIN LeadingRun(Held(s)) :
            i \in DOMAIN Held(s) /\ LeadingRun(Held(s))[i] = Held(s)[i]
      <4>1. Held(s) \in Seq(Changes)
        BY <1>2
      <4> QED BY <3>1, <3>2, <3>3, <4>1
    <3> QED BY <2>1, <3>4 DEF KeysOf
  <2>5. Home[k] = s
    BY <2>4, HeldOfShape DEF KeysOf
  <2>6. r \in Part(C, s)
    BY <1>4, <2>5 DEF Homed, Part
  <2> QED BY <2>3, <2>6
<1>9. \A o \in Shapes : o # s => Part(A, o) = Part(R, o)
  BY <1>4, <1>6
<1> HIDE DEF A, loads, R
<1>10. FreshBulk /\ tx.ok => new.ok
  BY <1>1, <1>8
<1> HIDE DEF new
<1> QED BY <1>1, <1>6, <1>7, <1>9, <1>10 DEF new, R

LEMMA ShapeTyped ==
    ASSUME PosInv, NEW s \in Shapes, NEW tx \in Results
    PROVE  ApplyShape(tx, s) \in Results
<1> DEFINE C == IF s \in flags.truncate THEN Clear(tx.rows, s) ELSE tx.rows
           ok == tx.ok /\ BulkLoads(C, TableOf[s], Bulk(s))
           A == ApplyFolded(C, TableOf[s], s, Held(s))
<1>1. ApplyShape(tx, s) = [ok |-> ok, rows |-> A]
  BY DEF ApplyShape
<1>2. C \in SUBSET LocalRow
  BY DEF Results, Clear
<1>3. ok \in BOOLEAN
  BY DEF Results
<1>4. Held(s) \in Seq(Changes) /\ TableOf[s] \in STRING
  BY HeldIs, SharingAssumption
<1> HIDE DEF C, ok
<1>5. A \in SUBSET LocalRow
  BY <1>2, <1>4, FoldType
<1> HIDE DEF A
<1> QED BY <1>1, <1>3, <1>5 DEF Results

\* The transaction applies the shapes one after the other.
LEMMA TransactionRuns ==
    ASSUME PosInv, LocalOK
    PROVE  \E at : /\ at[0] = [ok |-> TRUE, rows |-> rows]
                   /\ \A i \in 0 .. Len(ShapeNames) : at[i] \in Results
                   /\ \A i \in 1 .. Len(ShapeNames) : at[i] = ApplyShape(at[i - 1], ShapeNames[i])
                   /\ Transaction = at[Len(ShapeNames)]
<1> DEFINE n == Len(ShapeNames)
           N == ShapeNames
           first == [ok |-> TRUE, rows |-> rows]
           Op(v, i) == ApplyShape(v, N[i])
           E(iter) == iter = [S \in SUBSET DOMAIN N |->
                                IF S = {} THEN first ELSE Op(iter[S \ {Max(S)}], Max(S))]
           F == [p \in (1 .. n) \X Results |-> Op(p[2], p[1])]
<1>1. n \in Nat /\ DOMAIN N = 1 .. n /\ \A i \in 1 .. n : N[i] \in Shapes
  BY NamesAssumption
<1>2. first \in Results
  BY DEF LocalOK, Results
<1>3. \A v \in Results, i \in 1 .. n : Op(v, i) \in Results
  BY <1>1, ShapeTyped
<1>4. Transaction = (CHOOSE iter : E(iter))[DOMAIN N]
  BY DEF Transaction, FoldLeft, MapThenFoldSet
<1>5. \A m \in 1 .. n, v \in Results : F[<<m, v>>] = Op(v, m)
  OBVIOUS
<1> HIDE DEF Op, F, first, n, N
<1>6. \E iter : E(iter)
  <2>1. PICK iter \in [SUBSET (1 .. n) -> Results] : Iterates(iter, n, first, F)
    <3>1. \A m \in 1 .. n, v \in Results : F[<<m, v>>] \in Results
      BY <1>3, <1>5
    <3> QED BY <1>1, <1>2, <3>1, FoldExists
  <2>2. ASSUME NEW S \in SUBSET (1 .. n), S # {}
        PROVE  F[<<Max(S), iter[S \ {Max(S)}]>>] = Op(iter[S \ {Max(S)}], Max(S))
    <3>1. Max(S) \in 1 .. n
      BY <1>1, <2>2, MaxUpTo
    <3>2. iter[S \ {Max(S)}] \in Results
      OBVIOUS
    <3> QED BY <1>5, <3>1, <3>2
  <2>3. E(iter)
    BY <1>1, <2>1, <2>2 DEF Iterates
  <2> QED BY <2>3
<1> DEFINE it == CHOOSE iter : E(iter)
<1>7. E(it)
  <2> HIDE DEF E
  <2> QED BY <1>6
<1> HIDE DEF it
<1>8. ASSUME NEW S \in SUBSET (1 .. n)
      PROVE  it[S] = IF S = {} THEN first ELSE Op(it[S \ {Max(S)}], Max(S))
  BY <1>1, <1>7, Zenon
<1> HIDE DEF E
<1> DEFINE at == [k \in 0 .. n |-> it[1 .. k]]
<1>9. at[0] = first
  <2>1. 0 \in 0 .. n /\ 1 .. 0 = {} /\ 1 .. 0 \in SUBSET (1 .. n)
    BY <1>1
  <2> QED BY <1>8, <2>1
<1>10. ASSUME NEW i \in 1 .. n PROVE at[i] = Op(at[i - 1], i)
  <2>1. 1 .. i \in SUBSET (1 .. n) /\ 1 .. i # {} /\ Max(1 .. i) = i /\ (1 .. i) \ {i} = 1 .. i - 1
    BY <1>1, Initials
  <2>2. it[1 .. i] = Op(it[1 .. i - 1], i)
    BY <1>8, <2>1
  <2>3. i \in 0 .. n /\ i - 1 \in 0 .. n
    BY <1>1
  <2> QED BY <2>2, <2>3
<1>11. at[n] = it[DOMAIN N]
  BY <1>1
<1> HIDE DEF at
<1>12. \A i \in 0 .. n : at[i] \in Results
  <2> DEFINE D == {i \in Nat : i <= n => at[i] \in Results}
  <2>1. 0 \in D
    BY <1>2, <1>9
  <2>2. \A i \in Nat : i \in D => i + 1 \in D
    <3> SUFFICES ASSUME NEW i \in Nat, i <= n => at[i] \in Results, i + 1 <= n
                 PROVE  at[i + 1] \in Results
      OBVIOUS
    <3>1. i <= n /\ i + 1 \in 1 .. n /\ (i + 1) - 1 = i
      BY <1>1
    <3>2. at[i + 1] = Op(at[i], i + 1)
      BY <1>10, <3>1
    <3> QED BY <1>3, <3>1, <3>2
  <2> HIDE DEF D
  <2>3. Nat \subseteq D
    BY <2>1, <2>2, SetInduction
  <2> QED BY <1>1, <2>3 DEF D
<1>13. Transaction = at[n]
  BY <1>4, <1>11 DEF it
<1> QED BY <1>9, <1>10, <1>12, <1>13 DEF n, N, Op, first

\* commitHeld's transaction brings every shape to the position it records, and
\* no statement of it fails.
LEMMA TransactionApplies ==
    ASSUME PosInv, HomeOK, RowsOK, Reading
    PROVE  /\ Transaction \in Results /\ Homed(Transaction.rows)
           /\ \A s \in Shapes : Part(Transaction.rows, s) = NewPart(s)
           /\ FreshBulk => Transaction.ok
<1> DEFINE n == Len(ShapeNames)
           N == ShapeNames
<1>0. LocalOK /\ rows \in SUBSET LocalRow /\ Homed(rows)
  BY DEF RowsOK, LocalOK
<1>1. PICK at : /\ at[0] = [ok |-> TRUE, rows |-> rows]
                /\ \A i \in 0 .. n : at[i] \in Results
                /\ \A i \in 1 .. n : at[i] = ApplyShape(at[i - 1], N[i])
                /\ Transaction = at[n]
  BY <1>0, TransactionRuns
<1>2. n \in Nat /\ DOMAIN N = 1 .. n /\ \A i \in 1 .. n : N[i] \in Shapes
  BY NamesAssumption
<1>3. \A i \in 1 .. n, j \in 1 .. n : N[i] = N[j] => i = j
  BY <1>2, NamesAssumption DEF IsInjective
<1>4. \A s \in Shapes : \E i \in 1 .. n : N[i] = s
  BY <1>2 DEF Shapes, ToSet
<1> DEFINE Done(i) == /\ Homed(at[i].rows)
                      /\ \A j \in 1 .. n : Part(at[i].rows, N[j]) = IF j <= i THEN NewPart(N[j]) ELSE Part(rows, N[j])
                      /\ FreshBulk => at[i].ok
           D == {i \in Nat : i <= n => Done(i)}
<1>5. 0 \in D
  <2>1. at[0].rows = rows /\ at[0].ok = TRUE
    BY <1>1
  <2>2. \A j \in 1 .. n : ~(j <= 0)
    BY <1>2
  <2> QED BY <1>0, <2>1, <2>2
<1> HIDE DEF N, n
<1>6. ASSUME NEW i \in Nat, Done(i), i + 1 <= n PROVE Done(i + 1)
  <2> DEFINE tx == at[i]
             s == N[i + 1]
             new == ApplyShape(tx, s)
  <2>1. i \in 0 .. n /\ i + 1 \in 1 .. n /\ (i + 1) - 1 = i /\ ~(i + 1 <= i)
    BY <1>2, <1>6
  <2>2. at[i + 1] = new /\ tx \in Results /\ s \in Shapes
    BY <1>1, <1>2, <2>1
  <2>3. Homed(tx.rows) /\ Part(tx.rows, s) = Part(rows, s) /\ (FreshBulk => tx.ok)
    BY <1>6, <2>1
  <2> HIDE DEF tx, s
  <2>4. /\ Homed(new.rows) /\ Part(new.rows, s) = NewPart(s)
        /\ \A o \in Shapes : o # s => Part(new.rows, o) = Part(tx.rows, o)
        /\ FreshBulk /\ tx.ok => new.ok
    BY <2>2, <2>3, ShapeApplied
  <2> HIDE DEF new
  <2>5. ASSUME NEW j \in 1 .. n
        PROVE  Part(new.rows, N[j]) = IF j <= i + 1 THEN NewPart(N[j]) ELSE Part(rows, N[j])
    <3>1. CASE j = i + 1
      <4>1. N[j] = s /\ j <= i + 1
        BY <2>1, <3>1 DEF s
      <4> QED BY <2>4, <4>1
    <3>2. CASE j # i + 1
      <4>1. N[j] # s /\ N[j] \in Shapes
        BY <1>2, <1>3, <2>1, <3>2 DEF s
      <4>2. j \in Nat /\ (j <= i + 1 <=> j <= i)
        BY <1>2, <3>2
      <4>3. Part(tx.rows, N[j]) = IF j <= i THEN NewPart(N[j]) ELSE Part(rows, N[j])
        BY <1>6 DEF tx
      <4> QED BY <2>4, <4>1, <4>2, <4>3
    <3> QED BY <3>1, <3>2
  <2>6. FreshBulk => new.ok
    BY <2>3, <2>4
  <2> QED BY <2>2, <2>4, <2>5, <2>6
<1>7. \A i \in Nat : i \in D => i + 1 \in D
  <2> SUFFICES ASSUME NEW i \in Nat, i <= n => Done(i), i + 1 <= n PROVE Done(i + 1)
    OBVIOUS
  <2>1. i <= n
    BY <1>2
  <2> HIDE DEF Done
  <2> QED BY <1>6, <2>1
<1> HIDE DEF D
<1>8. Nat \subseteq D
  BY <1>5, <1>7, SetInduction
<1> HIDE DEF Done
<1>9. Done(n)
  <2>1. n <= n
    BY <1>2
  <2> QED BY <1>2, <1>8, <2>1 DEF D
<1>10. \A j \in 1 .. n : j <= n
  BY <1>2
<1>11. n \in 0 .. n
  BY <1>2
<1>12. Transaction \in Results /\ Homed(Transaction.rows) /\ (FreshBulk => Transaction.ok)
  BY <1>1, <1>9, <1>11 DEF Done
<1>13. \A j \in 1 .. n : Part(Transaction.rows, N[j]) = NewPart(N[j])
  BY <1>1, <1>9, <1>10 DEF Done
<1> QED BY <1>4, <1>12, <1>13

\* The steps that leave the rows, their position and what to clear alone.
LEMMA QuietSteps ==
    ASSUME [Next]_vars, RecordsOK
    PROVE  \/ Serve \/ SyncCircuitsShapes \/ Restart \/ Crash
           \/ DesyncForgets \/ DesyncTruncates \/ CommitHeld
           \/ /\ UNCHANGED <<streams, rows, cursor, desync, phase, url>>
              /\ flags'.truncate = flags.truncate /\ (flags'.bulk = flags.bulk \/ flags'.bulk = StillBulk)
              /\ history'.handed = history.handed /\ history'.stranded = history.stranded
<1>0. /\ DOMAIN flags = {"truncate", "bulk", "aligned", "degraded", "initialSync"}
      /\ DOMAIN history = {"tail", "revoked", "atBarrier", "handed", "stranded"}
  BY DEF RecordsOK
<1>1. CASE (\E s \in Shapes : Answer(s)) \/ (\E s \in Shapes : StreamEnds(s)) \/ Deliver
  BY <1>1 DEF Answer, StreamEnds, Deliver, server
<1>2. CASE BarrierClear \/ BarrierWaits \/ BarrierDegraded \/ CommitGivesUp
  BY <1>0, <1>2 DEF BarrierClear, BarrierWaits, BarrierDegraded, CommitGivesUp, server
<1>3. CASE CommitFails
  <2>1. PICK b \in {flags.bulk} \cup (IF Transaction.ok THEN {StillBulk} ELSE {}) :
          flags' = [flags EXCEPT !.bulk = b]
    BY <1>3 DEF CommitFails
  <2>2. b = flags.bulk \/ b = StillBulk
    BY <2>1
  <2>3. flags'.truncate = flags.truncate /\ flags'.bulk = b
    <3> HIDE <2>2
    <3> QED BY <1>0, <2>1
  <2>4. UNCHANGED <<streams, rows, cursor, desync, phase, url, history>>
    BY <1>3 DEF CommitFails, server
  <2> QED BY <2>2, <2>3, <2>4
<1>4. CASE UNCHANGED vars
  BY <1>4 DEF vars, server, engine
<1> QED BY <1>1, <1>2, <1>3, <1>4 DEF Next

LEMMA StoppedSteps ==
    ASSUME Restart \/ Crash \/ DesyncForgets
    PROVE  ~Reading' /\ streams' = streams /\ rows' = rows
<1> QED BY DEF Restart, Crash, DesyncForgets, Closed, Reading, server

LEMMA StandsForNothing ==
    ASSUME PosInv, cursor = <<>>, NEW s \in Shapes
    PROVE  Stands(streams, s, ReplicaCursor[s]) = {}
<1>1. ReplicaCursor[s].handle = 1 /\ ReplicaCursor[s].offset = 0
  BY DEF ReplicaCursor
<1>2. streams[s][1] \in Seq(Changes)
  BY <1>1, PositionType
<1>3. SubSeq(streams[s][1], 1, 0) = <<>>
  BY <1>2
<1>4. {} \in SUBSET LocalRow
  OBVIOUS
<1> QED BY <1>1, <1>3, <1>4, FoldNothing DEF Stands

LEMMA RowsInit == Init => RowsOK
<1> SUFFICES ASSUME Init PROVE RowsOK
  OBVIOUS
<1>1. PosInv
  BY PosInit
<1>2. rows = {} /\ cursor = <<>> /\ desync = "idle" /\ ~Reading
  BY DEF Init, Reading
<1>3. \A s \in Shapes : Part(rows, s) = Stands(streams, s, ReplicaCursor[s])
  BY <1>1, <1>2, StandsForNothing DEF Part
<1> QED BY <1>2, <1>3 DEF RowsOK, DesyncOK, LocalOK, StandsOK, TruncateOK, Homed

\* A commit: the rows and the position they stand for change together.
LEMMA CommitRows ==
    ASSUME PosInv, HomeOK, RowsOK, CommitHeld
    PROVE  /\ rows' \in SUBSET LocalRow /\ Homed(rows')
           /\ \A s \in Shapes : Part(rows', s) = Stands(streams, s, ReplicaCursor'[s])
<1>1. Reading /\ rows' = Transaction.rows
  BY DEF CommitHeld
<1>2. /\ Transaction \in Results /\ Homed(Transaction.rows)
      /\ \A s \in Shapes : Part(Transaction.rows, s) = NewPart(s)
  BY <1>1, TransactionApplies
<1>3. \A s \in Shapes : ReplicaCursor'[s].handle = url[s] /\ ReplicaCursor'[s].offset = End(s)
  <2> TAKE s \in Shapes
  <2>1. cursor'[s] = [handle |-> url[s], offset |-> End(s)] /\ cursor' # <<>>
    BY CommitPos
  <2> QED BY <2>1 DEF ReplicaCursor
<1>4. Transaction.rows \in SUBSET LocalRow
  BY <1>2 DEF Results
<1> QED BY <1>1, <1>2, <1>3, <1>4 DEF NewPart, Stands

LEMMA RowsStep ==
    ASSUME PosInv, PosInv', HomeOK, RowsOK, [Next]_vars, Crash => desync = "idle"
    PROVE  RowsOK'
<1>0. /\ DesyncOK /\ LocalOK /\ StandsOK /\ TruncateOK /\ RecordsOK
      /\ DOMAIN flags = {"truncate", "bulk", "aligned", "degraded", "initialSync"}
  BY DEF RowsOK, PosInv, RecordsOK
<1>1. CASE Serve
  <2>1. UNCHANGED <<rows, cursor, desync, phase, url, flags>>
    BY <1>1 DEF Serve, ServerUpsert, ServerDelete, ServerFlip, DeliverFlip, AbandonFlip, Recreate, engine
  <2>2. IsStreams(streams) /\ IsStreams(streams') /\ GrownTo(streams, streams')
    BY <1>1, ServerStep DEF PosInv, ServerOK
  <2>3. \A s \in Shapes : Stands(streams', s, ReplicaCursor[s]) = Stands(streams, s, ReplicaCursor[s])
    BY <2>2, PositionType, StandsGrown
  <2>4. ReplicaCursor' = ReplicaCursor /\ Reading' = Reading
    BY <2>1 DEF ReplicaCursor, Reading
  <2>5. StandsOK'
    BY <1>0, <2>1, <2>3, <2>4 DEF StandsOK
  <2>6. DesyncOK' /\ LocalOK' /\ TruncateOK'
    BY <1>0, <2>1, <2>4 DEF DesyncOK, LocalOK, TruncateOK
  <2> QED BY <2>5, <2>6 DEF RowsOK
<1>2. CASE SyncCircuitsShapes
  <2>1. /\ desync = "idle" /\ UNCHANGED <<streams, rows, cursor, desync>>
        /\ url' = [s \in Shapes |-> Len(streams[s])]
        /\ flags'.truncate = {s \in Shapes : ~Resumable(s) /\ cursor # <<>>}
    BY <1>2 DEF SyncCircuitsShapes, server
  <2>2. ReplicaCursor' = ReplicaCursor
    BY <2>1 DEF ReplicaCursor
  <2>3. flags'.truncate = {s \in Shapes : cursor' # <<>> /\ cursor'[s].handle # url'[s]}
    BY <2>1 DEF Resumable
  <2> QED BY <1>0, <2>1, <2>2, <2>3 DEF RowsOK, DesyncOK, LocalOK, StandsOK, TruncateOK
<1>3. CASE Restart \/ (Crash /\ desync = "idle")
  <2>1. ~Reading' /\ UNCHANGED <<streams, rows, cursor, desync>>
    BY <1>3, StoppedSteps DEF Restart, Crash
  <2>2. ReplicaCursor' = ReplicaCursor
    BY <2>1 DEF ReplicaCursor
  <2> QED BY <1>0, <2>1, <2>2 DEF RowsOK, DesyncOK, LocalOK, StandsOK, TruncateOK
<1>4. CASE DesyncForgets
  <2>1. ~Reading' /\ rows' = rows /\ cursor' = <<>> /\ desync' = "forgotten"
    BY <1>4, StoppedSteps DEF DesyncForgets
  <2> QED BY <1>0, <2>1 DEF RowsOK, DesyncOK, LocalOK, StandsOK, TruncateOK
<1>5. CASE DesyncTruncates
  <2>1. /\ desync = "forgotten" /\ desync' = "idle" /\ rows' = {}
        /\ UNCHANGED <<streams, cursor, phase>>
    BY <1>5 DEF DesyncTruncates, server, engine
  <2>2. ~Reading /\ ~Reading' /\ cursor = <<>>
    BY <1>0, <2>1 DEF DesyncOK, Reading
  <2>3. \A s \in Shapes : Stands(streams, s, ReplicaCursor[s]) = {}
    BY <2>2, StandsForNothing
  <2>4. ReplicaCursor' = ReplicaCursor
    BY <2>1 DEF ReplicaCursor
  <2>5. StandsOK'
    BY <2>1, <2>3, <2>4 DEF StandsOK, Part
  <2> QED BY <2>1, <2>2, <2>5 DEF RowsOK, DesyncOK, LocalOK, TruncateOK, Homed
<1>6. CASE CommitHeld
  <2>1. /\ Reading /\ UNCHANGED <<streams, desync, phase, url>> /\ flags'.truncate = {}
    BY <1>0, <1>6 DEF CommitHeld, server
  <2>2. /\ rows' \in SUBSET LocalRow /\ Homed(rows')
        /\ \A s \in Shapes : Part(rows', s) = Stands(streams, s, ReplicaCursor'[s])
    BY <1>6, CommitRows
  <2>3. \A s \in Shapes : cursor'[s].handle = url'[s]
    <3> TAKE s \in Shapes
    <3>1. cursor'[s] = [handle |-> url[s], offset |-> End(s)]
      BY <1>6, CommitPos
    <3> QED BY <2>1, <3>1
  <2>4. StandsOK' /\ LocalOK' /\ TruncateOK'
    BY <2>1, <2>2, <2>3 DEF StandsOK, LocalOK, TruncateOK
  <2>5. DesyncOK'
    BY <1>0, <2>1 DEF DesyncOK, Reading
  <2> QED BY <2>4, <2>5 DEF RowsOK
<1>7. CASE UNCHANGED <<streams, rows, cursor, desync, phase, url>> /\ flags'.truncate = flags.truncate
  <2>1. ReplicaCursor' = ReplicaCursor /\ Reading' = Reading
    BY <1>7 DEF ReplicaCursor, Reading
  <2> QED BY <1>0, <1>7, <2>1 DEF RowsOK, DesyncOK, LocalOK, StandsOK, TruncateOK
<1> QED BY <1>0, <1>1, <1>2, <1>3, <1>4, <1>5, <1>6, <1>7, QuietSteps

\* desync() forgets the group before it clears the tables, and no engine runs
\* between the two.
LEMMA DesyncStep ==
    ASSUME RecordsOK, DesyncOK, [Next]_vars
    PROVE  DesyncOK'
<1>1. CASE Serve
  <2>1. UNCHANGED <<cursor, desync, phase>>
    BY <1>1 DEF Serve, ServerUpsert, ServerDelete, ServerFlip, DeliverFlip, AbandonFlip, Recreate, engine
  <2> QED BY <2>1 DEF DesyncOK, Reading
<1>2. CASE SyncCircuitsShapes
  <2>1. desync = "idle" /\ UNCHANGED <<cursor, desync>>
    BY <1>2 DEF SyncCircuitsShapes
  <2> QED BY <2>1 DEF DesyncOK
<1>3. CASE Restart \/ Crash \/ DesyncForgets
  <2>1. ~Reading'
    BY <1>3, StoppedSteps
  <2>2. \/ UNCHANGED <<cursor, desync>>
        \/ desync' = "idle"
        \/ desync' = "forgotten" /\ cursor' = <<>>
    BY <1>3 DEF Restart, Crash, DesyncForgets
  <2> QED BY <2>1, <2>2 DEF DesyncOK
<1>4. CASE DesyncTruncates
  BY <1>4 DEF DesyncTruncates, DesyncOK
<1>5. CASE CommitHeld
  <2>1. Reading /\ UNCHANGED <<desync, phase>>
    BY <1>5 DEF CommitHeld
  <2> QED BY <2>1 DEF DesyncOK, Reading
<1>6. CASE UNCHANGED <<streams, rows, cursor, desync, phase, url>>
  BY <1>6 DEF DesyncOK, Reading
<1> QED BY <1>1, <1>2, <1>3, <1>4, <1>5, <1>6, QuietSteps

\* A backfill stays open after a commit only if the commit held nothing of it,
\* or handed all it held to the fold.
LEMMA StillBulkIs ==
    ASSUME PosInv, BulkOK, Reading, NEW s \in StillBulk
    PROVE  s \in Shapes /\ (End(s) = 0 \/ s \in history.handed \cup HandedBack)
<1>1. s \in flags.bulk /\ s \in Shapes /\ Bulk(s) = {}
  BY DEF StillBulk, BulkOK
<1>2. CASE s \in history.handed \/ Held(s) # <<>>
  BY <1>1, <1>2 DEF HandedBack
<1>3. CASE s \notin history.handed /\ Held(s) = <<>>
  <2> DEFINE log == streams[s][url[s]]
             e == End(s)
  <2>1. Base(s) = 0
    BY <1>1, <1>3 DEF BulkOK
  <2>2. log \in Seq(Changes) /\ e \in 0 .. Len(log) /\ Held(s) = SubSeq(log, 1, e)
    BY <1>1, <2>1, HeldIs
  <2> HIDE DEF log, e
  <2>3. e \in Nat /\ e <= Len(log) /\ Len(log) \in Nat
    BY <2>2
  <2>4. Len(SubSeq(log, 1, e)) = e
    BY <2>2, <2>3
  <2>5. e = 0
    BY <1>3, <2>2, <2>4
  <2> QED BY <1>1, <2>5 DEF e
<1> QED BY <1>2, <1>3

LEMMA BulkStep ==
    ASSUME PosInv, DesyncOK, BulkOK, [Next]_vars
    PROVE  BulkOK'
<1>0. /\ RecordsOK
      /\ DOMAIN flags = {"truncate", "bulk", "aligned", "degraded", "initialSync"}
      /\ DOMAIN history = {"tail", "revoked", "atBarrier", "handed", "stranded"}
  BY DEF PosInv, RecordsOK
<1>1. CASE Serve
  <2>1. UNCHANGED <<cursor, phase, url, flags>> /\ history'.handed = history.handed
    BY <1>0, <1>1 DEF Serve, ServerUpsert, ServerDelete, ServerFlip, DeliverFlip, AbandonFlip, Recreate, engine
  <2> QED BY <2>1 DEF BulkOK, Reading, Base
<1>2. CASE SyncCircuitsShapes
  <2>1. /\ cursor' = cursor /\ url' = [s \in Shapes |-> Len(streams[s])]
        /\ flags'.bulk = {s \in Shapes : ~Resumable(s) /\ Method # "insert"}
    BY <1>2 DEF SyncCircuitsShapes
  <2>2. \A s \in flags'.bulk : s \in Shapes /\ Base(s)' = 0
    BY <2>1 DEF Resumable, Base
  <2> QED BY <2>2 DEF BulkOK
<1>3. CASE Restart \/ Crash \/ DesyncForgets
  BY <1>3, StoppedSteps DEF BulkOK
<1>4. CASE DesyncTruncates
  <2>1. ~Reading'
    BY <1>4 DEF DesyncTruncates, engine, DesyncOK, Reading
  <2> QED BY <2>1 DEF BulkOK
<1>5. CASE CommitHeld
  <2>1. /\ Reading /\ flags'.bulk = StillBulk /\ url' = url
        /\ history'.handed = history.handed \cup HandedBack
    BY <1>0, <1>5 DEF CommitHeld
  <2>2. ASSUME NEW s \in flags'.bulk PROVE s \in Shapes /\ (Base(s)' = 0 \/ s \in history'.handed)
    <3>1. s \in Shapes /\ (End(s) = 0 \/ s \in history'.handed)
      BY <2>1, <2>2, StillBulkIs
    <3>2. cursor'[s] = [handle |-> url[s], offset |-> End(s)]
      BY <1>5, <3>1, CommitPos
    <3> QED BY <2>1, <3>1, <3>2 DEF Base
  <2> QED BY <2>2 DEF BulkOK
<1>6. CASE /\ UNCHANGED <<streams, rows, cursor, desync, phase, url>>
           /\ flags'.truncate = flags.truncate /\ (flags'.bulk = flags.bulk \/ flags'.bulk = StillBulk)
           /\ history'.handed = history.handed
  <2>1. Reading' = Reading /\ flags'.bulk \subseteq flags.bulk /\ \A s : Base(s)' = Base(s)
    BY <1>6 DEF Reading, StillBulk, Base
  <2> QED BY <1>6, <2>1 DEF BulkOK
<1> QED BY <1>0, <1>1, <1>2, <1>3, <1>4, <1>5, <1>6, QuietSteps

\* Rows are stranded from a crash inside desync() until a desync() clears them.
LEMMA StrandedStep ==
    ASSUME PosInv, PosInv', HomeOK, DesyncOK, history.stranded \/ RowsOK, [Next]_vars
    PROVE  (history.stranded \/ RowsOK)'
<1>0. RecordsOK /\ DOMAIN history = {"tail", "revoked", "atBarrier", "handed", "stranded"}
  BY DEF PosInv, RecordsOK
<1>1. CASE DesyncTruncates
  <2>1. /\ rows' = {} /\ desync = "forgotten" /\ desync' = "idle"
        /\ UNCHANGED <<streams, cursor, phase>>
    BY <1>1 DEF DesyncTruncates, server, engine
  <2>2. ~Reading /\ ~Reading' /\ cursor = <<>> /\ cursor' = <<>>
    BY <2>1 DEF DesyncOK, Reading
  <2>3. \A s \in Shapes : Stands(streams, s, ReplicaCursor[s]) = {}
    BY <2>2, StandsForNothing
  <2>4. ReplicaCursor' = ReplicaCursor
    BY <2>1 DEF ReplicaCursor
  <2>5. StandsOK'
    BY <2>1, <2>3, <2>4 DEF StandsOK, Part
  <2> QED BY <2>1, <2>2, <2>5 DEF RowsOK, DesyncOK, LocalOK, TruncateOK, Homed
<1>2. CASE Crash /\ (history.stranded \/ desync # "idle")
  BY <1>0, <1>2 DEF Crash
<1>3. CASE RowsOK /\ (Crash => desync = "idle")
  BY <1>3, RowsStep
<1>4. CASE history.stranded /\ ~DesyncTruncates
  <2>1. CASE Serve
    BY <1>0, <1>4, <2>1 DEF Serve, ServerUpsert, ServerDelete, ServerFlip, DeliverFlip, AbandonFlip, Recreate
  <2>2. CASE SyncCircuitsShapes \/ Restart \/ DesyncForgets \/ CommitHeld
    BY <1>0, <1>4, <2>2 DEF SyncCircuitsShapes, Restart, DesyncForgets, CommitHeld
  <2> QED BY <1>0, <1>2, <1>4, <2>1, <2>2, QuietSteps
<1> QED BY <1>1, <1>2, <1>3, <1>4

\* Only an open engine commits.
LEMMA GateReads ==
    ASSUME commit.pc # "idle" => Reading, [Next]_vars
    PROVE  (commit.pc # "idle" => Reading)'
<1>1. CASE Serve \/ DesyncTruncates
  <2>1. phase' = phase /\ commit' = commit
    BY <1>1 DEF Serve, ServerUpsert, ServerDelete, ServerFlip, DeliverFlip, AbandonFlip, Recreate,
                DesyncTruncates, engine
  <2> QED BY <2>1 DEF Reading
<1>2. CASE SyncCircuitsShapes \/ Restart \/ Crash \/ DesyncForgets
  <2>1. commit' = Idle
    BY <1>2 DEF SyncCircuitsShapes, Restart, Crash, DesyncForgets, Closed
  <2> QED BY <2>1 DEF Idle
<1>3. CASE (\E s \in Shapes : Answer(s)) \/ (\E s \in Shapes : StreamEnds(s)) \/ Deliver
  <2>1. Reading /\ phase' = phase
    BY <1>3 DEF Answer, StreamEnds, Deliver
  <2> QED BY <2>1 DEF Reading
<1>4. CASE BarrierClear \/ BarrierWaits \/ BarrierDegraded \/ CommitHeld \/ CommitFails \/ CommitGivesUp
  <2>1. Reading /\ phase' = phase
    BY <1>4 DEF BarrierClear, BarrierWaits, BarrierDegraded, CommitHeld, CommitFails, CommitGivesUp
  <2> QED BY <2>1 DEF Reading
<1>5. CASE UNCHANGED vars
  BY <1>5 DEF vars, engine, Reading
<1> QED BY <1>1, <1>2, <1>3, <1>4, <1>5 DEF Next

RowsInv == PosInv /\ HomeOK /\ RowsOK

LEMMA RowsInvStep ==
    ASSUME Windows = {}
    PROVE  RowsInv /\ [Next]_vars => RowsInv'
<1> SUFFICES ASSUME RowsInv, [Next]_vars PROVE RowsInv'
  OBVIOUS
<1>1. PosInv /\ HomeOK /\ RowsOK /\ ServerOK
  BY DEF RowsInv, PosInv
<1>2. PosInv'
  BY <1>1, PosStep
<1>3. HomeOK'
  BY <1>1, HomeStep
<1>4. Crash => desync = "idle"
  BY DEF Crash
<1>5. RowsOK'
  BY <1>1, <1>2, <1>4, RowsStep
<1> QED BY <1>2, <1>3, <1>5 DEF RowsInv

LEMMA RowsInvInit == Init => RowsInv
<1> QED BY PosInit, HomeInit, RowsInit DEF RowsInv

\* The rows of every shape together are what the reference shows.
LEMMA PartsAreShown ==
    ASSUME PosInv, NEW R \in SUBSET LocalRow, NEW at,
           \A s \in Shapes : /\ Part(R, s) = Stands(streams, s, at[s])
                             /\ streams[s][at[s].handle] \in Seq(Changes)
                             /\ at[s].offset \in 0 .. Len(streams[s][at[s].handle])
    PROVE  R = Replica!Shown(at)
<1>1. ASSUME NEW s \in Shapes
      PROVE  Part(R, s) = Replica!OrderedApplyAll({}, TableOf[s], s, Replica!Prefix(s, at[s]))
  <2> DEFINE p == SubSeq(streams[s][at[s].handle], 1, at[s].offset)
  <2>1. p \in Seq(Changes)
    <3>1. \A l \in Seq(Changes) : \A n \in 0 .. Len(l) : SubSeq(l, 1, n) \in Seq(Changes)
      OBVIOUS
    <3> QED BY <3>1
  <2>2. Part(R, s) = ApplyFolded({}, TableOf[s], s, p)
    BY DEF Stands
  <2>3. Replica!Prefix(s, at[s]) = p
    BY DEF Replica!Prefix
  <2>4. TableOf[s] \in STRING /\ {} \in SUBSET LocalRow
    BY SharingAssumption
  <2> HIDE DEF p
  <2>5. ApplyFolded({}, TableOf[s], s, p) = Replica!OrderedApplyAll({}, TableOf[s], s, p)
    BY <2>1, <2>4, FoldIsTheOrderedApply
  <2> QED BY <2>2, <2>3, <2>5
<1>2. Replica!Shown(at) = UNION {Part(R, s) : s \in Shapes}
  BY <1>1 DEF Replica!Shown
<1>3. R = UNION {Part(R, s) : s \in Shapes}
  BY DEF Part, LocalRow
<1> QED BY <1>2, <1>3

ReplicaRows == IF desync = "forgotten" THEN {} ELSE rows

LEMMA ReplicaCommits ==
    ASSUME RowsInv, CommitHeld
    PROVE  ReplicaRows' = Replica!Shown(ReplicaCursor')
<1>1. PosInv /\ HomeOK /\ RowsOK
  BY DEF RowsInv
<1>2. /\ rows' \in SUBSET LocalRow
      /\ \A s \in Shapes : Part(rows', s) = Stands(streams, s, ReplicaCursor'[s])
  BY <1>1, CommitRows
<1>3. ASSUME NEW s \in Shapes
      PROVE  /\ streams[s][ReplicaCursor'[s].handle] \in Seq(Changes)
             /\ ReplicaCursor'[s].offset \in 0 .. Len(streams[s][ReplicaCursor'[s].handle])
  <2>1. cursor'[s] = [handle |-> url[s], offset |-> End(s)] /\ cursor' # <<>>
    BY <1>1, CommitPos
  <2>2. ReplicaCursor'[s].handle = url[s] /\ ReplicaCursor'[s].offset = End(s)
    BY <2>1 DEF ReplicaCursor
  <2>3. /\ streams[s][url[s]] \in Seq(Changes)
        /\ Base(s) \in 0 .. Len(streams[s][url[s]]) /\ End(s) \in Base(s) .. Len(streams[s][url[s]])
    BY <1>1, HeldIs
  <2> QED BY <2>2, <2>3
<1>4. rows' = Replica!Shown(ReplicaCursor')
  <2> DEFINE R == rows'
             at == ReplicaCursor'
  <2>1. R \in SUBSET LocalRow
    BY <1>2
  <2>2. \A s \in Shapes : /\ Part(R, s) = Stands(streams, s, at[s])
                          /\ streams[s][at[s].handle] \in Seq(Changes)
                          /\ at[s].offset \in 0 .. Len(streams[s][at[s].handle])
    BY <1>2, <1>3
  <2> HIDE DEF R, at
  <2>3. R = Replica!Shown(at)
    BY <1>1, <2>1, <2>2, PartsAreShown
  <2> QED BY <2>3 DEF R, at
<1>5. desync' # "forgotten"
  BY <1>1 DEF CommitHeld, RowsOK, DesyncOK
<1> QED BY <1>4, <1>5 DEF ReplicaRows

LEMMA ReplicaStep ==
    ASSUME Windows = {}, RowsInv, [Next]_vars
    PROVE  Replica!Next \/ UNCHANGED <<streams, ReplicaCursor, ReplicaRows>>
<1>0. PosInv /\ HomeOK /\ RowsOK /\ RecordsOK
  BY DEF RowsInv, PosInv
<1>1. CASE Serve
  <2>1. ServerExtends
    BY <1>0, <1>1, ServeExtends
  <2>2. UNCHANGED <<rows, desync>>
    BY <1>1 DEF Serve, ServerUpsert, ServerDelete, ServerFlip, DeliverFlip, AbandonFlip, Recreate
  <2>3. Replica!Serve
    BY <2>1, <2>2 DEF ServerExtends, Replica!Serve, ReplicaCursor, Replica!IsPrefix, IsPrefix
  <2> QED BY <2>3 DEF Replica!Next
<1>2. CASE CommitHeld
  <2>1. streams' = streams
    BY <1>2 DEF CommitHeld, server
  <2>2. \A s \in Shapes : Replica!Later(ReplicaCursor[s], ReplicaCursor'[s])
    BY <1>0, <1>2, CommitMoves
  <2>3. ReplicaRows' = Replica!Shown(ReplicaCursor')
    BY <1>2, ReplicaCommits
  <2>4. Replica!Commit
    BY <2>1, <2>2, <2>3 DEF Replica!Commit, ReplicaCursor, ReplicaRows
  <2> QED BY <2>4 DEF Replica!Next
<1>3. CASE DesyncForgets
  <2>1. streams' = streams /\ cursor' = <<>> /\ desync' = "forgotten"
    BY <1>3, StoppedSteps DEF DesyncForgets
  <2>2. Replica!Forget
    BY <2>1 DEF Replica!Forget, Replica!NoCursor, Replica!Start
  <2> QED BY <2>2 DEF Replica!Next
<1>4. CASE DesyncTruncates
  BY <1>4 DEF DesyncTruncates, ReplicaRows, ReplicaCursor, server
<1>5. CASE SyncCircuitsShapes \/ Restart
  <2>1. UNCHANGED <<streams, rows, cursor, desync>>
    BY <1>5, StoppedSteps DEF SyncCircuitsShapes, Restart, server
  <2> QED BY <2>1 DEF ReplicaRows, ReplicaCursor
<1>6. CASE Crash
  <2>1. desync = "idle" /\ UNCHANGED <<streams, rows, cursor, desync>>
    BY <1>6, StoppedSteps DEF Crash
  <2> QED BY <2>1 DEF ReplicaRows, ReplicaCursor
<1>7. CASE UNCHANGED <<streams, rows, cursor, desync, phase, url>>
  BY <1>7 DEF ReplicaRows, ReplicaCursor
<1> QED BY <1>0, <1>1, <1>2, <1>3, <1>4, <1>5, <1>6, <1>7, QuietSteps

-----------------------------------------------------------------------------
(***************************************************************************)
(* What the rows are.                                                      *)
(***************************************************************************)
\* For every shape, key, table and bound, with no row moving between scopes and
\* no crash inside desync(): every behaviour of the engine is one of GroupReplica.
\* The local rows are at every instant those of one position in every stream,
\* the position recorded beside them (commitHeld's one transaction; desync).
THEOREM ReplicaRefined ==
    ASSUME Windows = {}
    PROVE  Spec => ImplementsReplica
<1>1. Init => Replica!Init
  BY DEF Init, Replica!Init, Replica!NoCursor, Replica!Start
<1>2. RowsInv /\ [Next]_vars => [Replica!Next]_(Replica!vars)
  BY ReplicaStep DEF Replica!vars, ReplicaCursor, ReplicaRows
<1> QED BY <1>1, <1>2, RowsInvInit, RowsInvStep, PTL DEF Spec, ImplementsReplica, Replica!Spec

\* Whatever a table holds, local-only columns included, the bulk statements a
\* transaction runs for what it holds of a shape leave what applying the changes
\* one by one would (foldChangeBatch, applyBulkDeletes and applyUpserts).
THEOREM FoldTheorem == Spec => []FoldIsOrdered
<1>1. PosInv => FoldIsOrdered
  <2> SUFFICES ASSUME PosInv, NEW s \in Shapes, NEW own \in BOOLEAN, NEW present \in SUBSET Keys
               PROVE  LET R == {[table |-> TableOf[s], key |-> k, val |-> 0, scope |-> s, own |-> own] : k \in present}
                      IN  ApplyFolded(R, TableOf[s], s, Held(s)) = Replica!OrderedApplyAll(R, TableOf[s], s, Held(s))
    BY DEF FoldIsOrdered
  <2> DEFINE R == {[table |-> TableOf[s], key |-> k, val |-> 0, scope |-> s, own |-> own] : k \in present}
  <2>1. TableOf[s] \in STRING
    BY SharingAssumption
  <2>2. R \in SUBSET LocalRow
    BY <2>1 DEF LocalRow
  <2>3. Held(s) \in Seq(Changes)
    BY HeldIs
  <2> HIDE DEF R
  <2>4. ApplyFolded(R, TableOf[s], s, Held(s)) = Replica!OrderedApplyAll(R, TableOf[s], s, Held(s))
    BY <2>1, <2>2, <2>3, FoldIsTheOrderedApply
  <2> QED BY <2>4 DEF R
<1> QED BY <1>1, Positions, PTL

\* For every shape, key, table, bound and initialInsertMethod, COPY included, with
\* no row moving between scopes: the bulk load of a backfill meets a key of its
\* table only after a commit that handed all it held of the backfill to the fold,
\* or over rows that a crash inside desync() left behind (useBulkBackfill).
THEOREM BulkTheorem ==
    ASSUME "move" \notin Windows
    PROVE  Spec => []BulkLoadsAreNew
<1> DEFINE Inv == /\ PosInv /\ HomeOK /\ DesyncOK /\ (history.stranded \/ RowsOK)
                  /\ BulkOK /\ (commit.pc # "idle" => Reading)
<1>1. Init => Inv
  BY RowsInvInit DEF RowsInv, RowsOK, Init, BulkOK, Reading, Idle
<1>2. Inv /\ [Next]_vars => Inv'
  <2> SUFFICES ASSUME Inv, [Next]_vars PROVE Inv'
    OBVIOUS
  <2>0. ServerOK /\ RecordsOK
    BY DEF PosInv
  <2>1. PosInv'
    BY PosStep
  <2>2. HomeOK'
    BY <2>0, HomeStep
  <2>3. DesyncOK'
    BY <2>0, DesyncStep
  <2>4. (history.stranded \/ RowsOK)'
    BY <2>1, StrandedStep
  <2>5. BulkOK'
    BY BulkStep
  <2>6. (commit.pc # "idle" => Reading)'
    BY GateReads
  <2> QED BY <2>1, <2>2, <2>3, <2>4, <2>5, <2>6
<1>3. Inv => BulkLoadsAreNew
  <2> SUFFICES ASSUME Inv, commit.pc = "tx", ~history.stranded,
                      ~\E s \in flags.bulk : s \in history.handed
               PROVE  Transaction.ok
    BY DEF BulkLoadsAreNew
  <2>1. PosInv /\ HomeOK /\ RowsOK /\ Reading
    OBVIOUS
  <2>2. FreshBulk
    BY <2>1 DEF BulkOK, FreshBulk
  <2> QED BY <2>1, <2>2, TransactionApplies
<1> QED BY <1>1, <1>2, <1>3, PTL DEF Spec
=============================================================================
