-------------------------- MODULE EventLaneProofs --------------------------
(***************************************************************************)
(* Proofs about EventLane, for every set of events, streams and processes, *)
(* every size of a batch and a read, and any number of troubles.           *)
(***************************************************************************)
EXTENDS EventLane, TLAPS, FiniteSetTheorems

-----------------------------------------------------------------------------
(***************************************************************************)
(* The consumer's half of the inductive invariant.                         *)
(***************************************************************************)
Entry == [id : Nat, count : Nat, events : SUBSET Events]
Hand == [id : Nat, count : Nat, events : SUBSET Events, pc : {"callback", "ack", "archive", "stamp"}]
Read == [rest : SUBSET Entry, active : SUBSET Hand, held : SUBSET Nat]
Working == {"callback", "ack"}

MessageShape(m) ==
    m \in [id : Nat, stream : {m.stream}, events : SUBSET Events, count : Nat, leased : BOOLEAN, bad : BOOLEAN]
LetterShape(m) ==
    m \in [id : Nat, stream : {m.stream}, events : SUBSET Events, bad : BOOLEAN, attempts : {m.attempts},
           reported : BOOLEAN]

ConsumerShape ==
    /\ issued \in Nat
    /\ \A m \in queue : MessageShape(m) /\ m.id <= issued
    /\ \A m \in archive : LetterShape(m)
    /\ work \in [Processes -> [QueueStreams -> Read]]

UniqueIds == \A m, n \in queue : m.id = n.id => m = n

\* A read: no message twice, what is still to be worked on is renewed, and what
\* is in hand is what the queue holds under that id.
Sound(w) ==
    /\ \A r \in w.rest : r.id <= issued
    /\ \A h \in w.active : h.id <= issued
    /\ \A i \in w.held : i <= issued
    /\ \A r, o \in w.rest : r.id = o.id => r = o
    /\ \A g, h \in w.active : g.id = h.id => g = h
    /\ \A r \in w.rest, h \in w.active : r.id # h.id
    /\ \A r \in w.rest : r.id \in w.held
    /\ \A h \in w.active : h.pc \in Working => h.id \in w.held
    /\ \A m \in queue : \A r \in w.rest : r.id = m.id => r.events = m.events
    /\ \A m \in queue : \A h \in w.active : h.pc \in Working /\ h.id = m.id => h.events = m.events
    /\ \A h \in w.active : h.pc = "ack" => h.events \subseteq done

\* While no renewal fails, what one reader renews is leased, and no one else's.
HeldOnce ==
    \A p, q \in Processes, s, t \in QueueStreams :
        \A i \in work[p][s].held \cap work[q][t].held : p = q /\ s = t
HeldIsLeased ==
    \A p \in Processes, s \in QueueStreams : \A m \in queue : m.id \in work[p][s].held => m.leased
Exclusive == ~overlapped => HeldOnce /\ HeldIsLeased

ConsumerInv ==
    /\ ConsumerShape /\ UniqueIds /\ Exclusive
    /\ \A p \in Processes, s \in QueueStreams : Sound(work[p][s])

\* What a step may do to the queue: no message changes its events, and a new one
\* has a new id.
QueueKeeps ==
    /\ issued' \in Nat /\ issued <= issued'
    /\ \A m \in queue' : MessageShape(m) /\ m.id <= issued'
    /\ \A m \in queue' : m.id <= issued => \E n \in queue : n.id = m.id /\ n.events = m.events

LEMMA SoundStays ==
    ASSUME NEW w, Sound(w), w \in Read, ConsumerShape, QueueKeeps, done \subseteq done'
    PROVE  Sound(w)'
<1>1. \A r \in w.rest : r.id \in Nat BY DEF Read, Entry
<1>2. \A h \in w.active : h.id \in Nat BY DEF Read, Hand
<1>3. \A i \in w.held : i \in Nat BY DEF Read
<1>4. issued \in Nat /\ issued' \in Nat /\ issued <= issued' BY DEF ConsumerShape, QueueKeeps
<1>5. /\ \A r \in w.rest : r.id <= issued'
      /\ \A h \in w.active : h.id <= issued'
      /\ \A i \in w.held : i <= issued'
  BY <1>1, <1>2, <1>3, <1>4 DEF Sound
<1>6. \A m \in queue' : \A r \in w.rest : r.id = m.id => r.events = m.events
  BY DEF Sound, QueueKeeps
<1>7. \A m \in queue' : \A h \in w.active : h.pc \in Working /\ h.id = m.id => h.events = m.events
  BY DEF Sound, QueueKeeps
<1> QED BY <1>5, <1>6, <1>7 DEF Sound

\* A step on one read that renews nothing more than before.
LEMMA WorkStep ==
    ASSUME ConsumerInv, NEW p \in Processes, NEW s \in QueueStreams, NEW w \in Read,
           work' = [work EXCEPT ![p][s] = w], w.held \subseteq work[p][s].held, Sound(w)',
           \A m \in archive' : LetterShape(m), QueueKeeps, UniqueIds', done \subseteq done',
           overlapped' = overlapped, \A m \in queue' : \E n \in queue : n.id = m.id /\ (n.leased => m.leased)
    PROVE  ConsumerInv'
<1>1. ConsumerShape' BY DEF ConsumerInv, ConsumerShape, QueueKeeps
<1>2. /\ work'[p][s] = w
      /\ \A q \in Processes, t \in QueueStreams : q # p \/ t # s => work'[q][t] = work[q][t]
  BY DEF ConsumerInv, ConsumerShape
<1>3. \A q \in Processes, t \in QueueStreams : work'[q][t].held \subseteq work[q][t].held BY <1>2
<1>4. Exclusive' BY <1>3 DEF ConsumerInv, Exclusive, HeldOnce, HeldIsLeased
<1>5. \A q \in Processes, t \in QueueStreams : Sound(work[q][t])'
  <2> SUFFICES ASSUME NEW q \in Processes, NEW t \in QueueStreams PROVE Sound(work[q][t])' OBVIOUS
  <2>1. CASE q = p /\ t = s BY <1>2, <2>1
  <2>2. CASE q # p \/ t # s
    <3>1. PICK v \in Read : v = work[q][t] BY DEF ConsumerInv, ConsumerShape
    <3>2. Sound(v) BY <3>1 DEF ConsumerInv
    <3>3. Sound(v)' BY <3>2, SoundStays DEF ConsumerInv
    <3> QED BY <1>2, <2>2, <3>1, <3>3
  <2> QED BY <2>1, <2>2
<1> QED BY <1>1, <1>4, <1>5 DEF ConsumerInv

\* A step that leaves the reads alone.
LEMMA QueueStep ==
    ASSUME ConsumerInv, work' = work, \A m \in archive' : LetterShape(m), QueueKeeps, UniqueIds', done \subseteq done',
           ~overlapped' => ~overlapped /\ \A p \in Processes, s \in QueueStreams : \A m \in queue' :
                                             m.id \in work[p][s].held => m.leased
    PROVE  ConsumerInv'
<1>1. ConsumerShape' BY DEF ConsumerInv, ConsumerShape, QueueKeeps
<1>2. Exclusive' BY DEF ConsumerInv, Exclusive, HeldOnce, HeldIsLeased
<1>3. \A q \in Processes, t \in QueueStreams : Sound(work[q][t])'
  <2> SUFFICES ASSUME NEW q \in Processes, NEW t \in QueueStreams PROVE Sound(work[q][t])' OBVIOUS
  <2>1. PICK v \in Read : v = work[q][t] BY DEF ConsumerInv, ConsumerShape
  <2>2. Sound(v) BY <2>1 DEF ConsumerInv
  <2>3. Sound(v)' BY <2>2, SoundStays DEF ConsumerInv
  <2> QED BY <2>1, <2>3
<1> QED BY <1>1, <1>2, <1>3 DEF ConsumerInv
\* A step that leaves the queue and its readers alone.
LEMMA QueueStutters ==
    ASSUME ConsumerInv, queue' = queue, issued' = issued, archive' = archive, work' = work, done' = done,
           overlapped' = overlapped
    PROVE  ConsumerInv'
<1>1. QueueKeeps BY DEF QueueKeeps, ConsumerInv, ConsumerShape
<1>2. \A m \in archive' : LetterShape(m) BY DEF ConsumerInv, ConsumerShape
<1>3. UniqueIds' BY DEF ConsumerInv, UniqueIds
<1>4. ~overlapped' => ~overlapped /\ \A p \in Processes, s \in QueueStreams : \A m \in queue' :
                                        m.id \in work[p][s].held => m.leased
  BY DEF ConsumerInv, Exclusive, HeldIsLeased
<1>5. done \subseteq done' OBVIOUS
<1> QED BY <1>1, <1>2, <1>3, <1>4, <1>5, QueueStep

-----------------------------------------------------------------------------
LEMMA NoReadIsSound ==
    NoRead \in Read /\ Sound(NoRead)
BY DEF NoRead, Read, Sound

LEMMA InitConsumerInv ==
    ASSUME Init PROVE ConsumerInv
<1>1. NoRead \in Read /\ Sound(NoRead) BY NoReadIsSound
<1>2. work \in [Processes -> [QueueStreams -> Read]] BY <1>1 DEF Init, ConsumerInit
<1>3. \A p \in Processes, s \in QueueStreams : work[p][s] = NoRead BY DEF Init, ConsumerInit
<1>4. ConsumerShape BY <1>2 DEF Init, ConsumerInit, ConsumerShape
<1>5. UniqueIds BY DEF Init, ConsumerInit, UniqueIds
<1>6. Exclusive BY <1>3 DEF Init, ConsumerInit, Exclusive, HeldOnce, HeldIsLeased, NoRead
<1> QED BY <1>1, <1>3, <1>4, <1>5, <1>6 DEF ConsumerInv

\* A step on one read that leaves the queue alone.
LEMMA ReadStep ==
    ASSUME ConsumerInv, NEW p \in Processes, NEW s \in QueueStreams, NEW w \in Read,
           work' = [work EXCEPT ![p][s] = w], w.held \subseteq work[p][s].held, Sound(w)',
           \A m \in archive' : LetterShape(m), issued' = issued, queue' = queue, done \subseteq done',
           overlapped' = overlapped
    PROVE  ConsumerInv'
<1>1. QueueKeeps BY DEF QueueKeeps, ConsumerInv, ConsumerShape
<1>2. UniqueIds' BY DEF ConsumerInv, UniqueIds
<1>3. \A m \in queue' : \E n \in queue : n.id = m.id /\ (n.leased => m.leased) OBVIOUS
<1> QED BY <1>1, <1>2, <1>3, WorkStep

\* A step on one read that removes a message.
LEMMA RemoveStep ==
    ASSUME ConsumerInv, NEW p \in Processes, NEW s \in QueueStreams, NEW w \in Read, NEW i,
           work' = [work EXCEPT ![p][s] = w], w.held \subseteq work[p][s].held, Sound(w),
           \A m \in archive' : LetterShape(m), issued' = issued, queue' = {m \in queue : m.id # i},
           done' = done, overlapped' = overlapped
    PROVE  ConsumerInv'
<1>1. QueueKeeps BY DEF QueueKeeps, ConsumerInv, ConsumerShape
<1>2. UniqueIds' BY DEF ConsumerInv, UniqueIds
<1>3. \A m \in queue' : \E n \in queue : n.id = m.id /\ (n.leased => m.leased) OBVIOUS
<1>4. Sound(w)' BY <1>1, SoundStays DEF ConsumerInv
<1>5. done \subseteq done' OBVIOUS
<1> QED BY <1>1, <1>2, <1>3, <1>4, <1>5, WorkStep

-----------------------------------------------------------------------------
(***************************************************************************)
(* The steps on one read.                                                  *)
(***************************************************************************)
LEMMA StartCallbackInv ==
    ASSUME ConsumerInv, NEW p \in Processes, NEW s \in QueueStreams, StartCallback(p, s),
           overlapped' = overlapped
    PROVE  ConsumerInv'
<1>1. PICK w \in Read : w = work[p][s] BY DEF ConsumerInv, ConsumerShape
<1>2. Sound(w) BY <1>1 DEF ConsumerInv
<1>3. PICK m \in w.rest :
        work' = [work EXCEPT ![p][s] =
                   [w EXCEPT !.rest = @ \ {m},
                             !.active = @ \cup {[id |-> m.id, count |-> m.count,
                                                 events |-> m.events, pc |-> "callback"]}]]
  BY <1>1 DEF StartCallback
<1>4. m \in Entry BY DEF Read
<1> DEFINE h == [id |-> m.id, count |-> m.count, events |-> m.events, pc |-> "callback"]
           v == [w EXCEPT !.rest = @ \ {m}, !.active = @ \cup {h}]
<1>5. h \in Hand BY <1>4 DEF Entry, Hand
<1>7. work' = [work EXCEPT ![p][s] = v] BY <1>3
<1>8. v.rest = w.rest \ {m} /\ v.active = w.active \cup {h} /\ v.held = w.held BY DEF Read
<1>6. v \in Read
  <2> HIDE DEF h
  <2> QED BY <1>5 DEF Read
<1>9. h.id = m.id /\ h.events = m.events /\ h.pc = "callback" OBVIOUS
<1>10. UNCHANGED <<issued, queue, archive, done>> BY DEF StartCallback
<1> HIDE DEF v, h
<1>11. Sound(v)'
  <2>1. /\ \A r \in v.rest : r.id <= issued
        /\ \A g \in v.active : g.id <= issued
        /\ \A i \in v.held : i <= issued
    BY <1>2, <1>8, <1>9 DEF Sound
  <2>2. /\ \A r, o \in v.rest : r.id = o.id => r = o
        /\ \A r \in v.rest, g \in v.active : r.id # g.id
        /\ \A f, g \in v.active : f.id = g.id => f = g
    BY <1>2, <1>8, <1>9 DEF Sound
  <2>3. /\ \A r \in v.rest : r.id \in v.held
        /\ \A g \in v.active : g.pc \in Working => g.id \in v.held
    BY <1>2, <1>8, <1>9 DEF Sound
  <2>4. /\ \A n \in queue : \A r \in v.rest : r.id = n.id => r.events = n.events
        /\ \A n \in queue : \A g \in v.active : g.pc \in Working /\ g.id = n.id => g.events = n.events
        /\ \A g \in v.active : g.pc = "ack" => g.events \subseteq done
    BY <1>2, <1>8, <1>9 DEF Sound
  <2> QED BY <1>10, <2>1, <2>2, <2>3, <2>4 DEF Sound
<1>12. \A x \in archive' : LetterShape(x) BY <1>10 DEF ConsumerInv, ConsumerShape
<1>13. v.held \subseteq work[p][s].held BY <1>1, <1>8
<1>14. done \subseteq done' BY <1>10
<1> QED BY <1>6, <1>7, <1>10, <1>11, <1>12, <1>13, <1>14, ReadStep

\* A message in hand moves on to another place.
LEMMA MovedIsSound ==
    ASSUME NEW w \in Read, Sound(w), NEW h \in w.active, NEW pc \in {"callback", "ack", "archive", "stamp"},
           NEW v, v = [w EXCEPT !.active = (@ \ {h}) \cup To(h, pc)], pc = "ack" => h.events \subseteq done,
           pc \in Working => h.pc \in Working
    PROVE  v \in Read /\ v.held = w.held /\ Sound(v)
<1>1. h \in Hand BY DEF Read
<1>2. PICK g \in Hand : g = [h EXCEPT !.pc = pc] BY <1>1 DEF Hand
<1>3. g.id = h.id /\ g.events = h.events /\ g.pc = pc BY <1>1, <1>2 DEF Hand
<1>4. v.rest = w.rest /\ v.held = w.held /\ v.active = (w.active \ {h}) \cup {g} BY <1>2 DEF Read, To
<1>5. v \in Read BY <1>2, <1>4 DEF Read, To
<1>6. /\ \A r \in v.rest : r.id <= issued
      /\ \A f \in v.active : f.id <= issued
      /\ \A i \in v.held : i <= issued
  BY <1>3, <1>4 DEF Sound
<1>7. /\ \A r, o \in v.rest : r.id = o.id => r = o
      /\ \A r \in v.rest, f \in v.active : r.id # f.id
      /\ \A e, f \in v.active : e.id = f.id => e = f
  BY <1>3, <1>4 DEF Sound
<1>8. /\ \A r \in v.rest : r.id \in v.held
      /\ \A f \in v.active : f.pc \in Working => f.id \in v.held
  BY <1>3, <1>4 DEF Sound
<1>9. /\ \A n \in queue : \A r \in v.rest : r.id = n.id => r.events = n.events
      /\ \A n \in queue : \A f \in v.active : f.pc \in Working /\ f.id = n.id => f.events = n.events
      /\ \A f \in v.active : f.pc = "ack" => f.events \subseteq done
  BY <1>3, <1>4 DEF Sound
<1> QED BY <1>4, <1>5, <1>6, <1>7, <1>8, <1>9 DEF Sound

\* A message in hand is settled.
LEMMA DroppedIsSound ==
    ASSUME NEW w \in Read, Sound(w), NEW h \in w.active, NEW v, v = Drop(w, h)
    PROVE  /\ v \in Read /\ v.held \subseteq w.held /\ Sound(v)
           /\ v.active = w.active \ {h} /\ \A g \in v.active : g.id # h.id
           /\ v.rest = w.rest
<1>1. v.rest = w.rest /\ v.held = w.held \ {h.id} /\ v.active = w.active \ {h} BY DEF Read, Drop
<1>2. v \in Read BY <1>1 DEF Read, Drop
<1>3. \A g \in v.active : g.id # h.id BY <1>1 DEF Sound
<1>4. /\ \A r \in v.rest : r.id <= issued
      /\ \A f \in v.active : f.id <= issued
      /\ \A i \in v.held : i <= issued
  BY <1>1 DEF Sound
<1>5. /\ \A r, o \in v.rest : r.id = o.id => r = o
      /\ \A r \in v.rest, f \in v.active : r.id # f.id
      /\ \A e, f \in v.active : e.id = f.id => e = f
  BY <1>1 DEF Sound
<1>6. /\ \A r \in v.rest : r.id \in v.held
      /\ \A f \in v.active : f.pc \in Working => f.id \in v.held
  BY <1>1, <1>3 DEF Sound
<1>7. /\ \A n \in queue : \A r \in v.rest : r.id = n.id => r.events = n.events
      /\ \A n \in queue : \A f \in v.active : f.pc \in Working /\ f.id = n.id => f.events = n.events
      /\ \A f \in v.active : f.pc = "ack" => f.events \subseteq done
  BY <1>1 DEF Sound
<1> QED BY <1>1, <1>2, <1>3, <1>4, <1>5, <1>6, <1>7 DEF Sound

LEMMA CallbackReturnsInv ==
    ASSUME ConsumerInv, NEW p \in Processes, NEW s \in QueueStreams, NEW h \in work[p][s].active,
           CallbackReturns(p, s, h), overlapped' = overlapped
    PROVE  ConsumerInv'
<1>1. PICK w \in Read : w = work[p][s] BY DEF ConsumerInv, ConsumerShape
<1> DEFINE v == [w EXCEPT !.active = (@ \ {h}) \cup To(h, "ack")]
<1>2. work' = [work EXCEPT ![p][s] = v] BY <1>1 DEF CallbackReturns
<1>3. /\ h.pc = "callback" /\ done' = done \cup h.events
      /\ UNCHANGED <<issued, queue, archive>>
  BY DEF CallbackReturns
<1>4. Sound(w)
  BY <1>1 DEF ConsumerInv
<1>5. Sound(w)' BY <1>3, <1>4 DEF Sound
<1>6. v \in Read /\ v.held = w.held /\ Sound(v)'
  <2>1. h \in w.active BY <1>1
  <2>2. h \in Hand BY <2>1 DEF Read
  <2>3. PICK g \in Hand : g = [h EXCEPT !.pc = "ack"] BY <2>2 DEF Hand
  <2>4. g.id = h.id /\ g.events = h.events /\ g.pc = "ack" BY <2>2, <2>3 DEF Hand
  <2>5. v.rest = w.rest /\ v.held = w.held /\ v.active = (w.active \ {h}) \cup {g} BY <2>3 DEF Read, To
  <2>6. v \in Read BY <2>3, <2>5 DEF Read, To
  <2> HIDE DEF v
  <2>7. /\ \A r \in v.rest : r.id <= issued
        /\ \A f \in v.active : f.id <= issued
        /\ \A i \in v.held : i <= issued
    BY <1>4, <2>1, <2>4, <2>5 DEF Sound
  <2>8. /\ \A r, o \in v.rest : r.id = o.id => r = o
        /\ \A r \in v.rest, f \in v.active : r.id # f.id
        /\ \A e, f \in v.active : e.id = f.id => e = f
    BY <1>4, <2>1, <2>4, <2>5 DEF Sound
  <2>9. /\ \A r \in v.rest : r.id \in v.held
        /\ \A f \in v.active : f.pc \in Working => f.id \in v.held
    BY <1>3, <1>4, <2>1, <2>4, <2>5 DEF Sound, Working
  <2>10. /\ \A n \in queue : \A r \in v.rest : r.id = n.id => r.events = n.events
         /\ \A n \in queue : \A f \in v.active : f.pc \in Working /\ f.id = n.id => f.events = n.events
         /\ \A f \in v.active : f.pc = "ack" => f.events \subseteq done'
    BY <1>3, <1>4, <2>1, <2>4, <2>5 DEF Sound, Working
  <2> QED BY <1>3, <2>5, <2>6, <2>7, <2>8, <2>9, <2>10 DEF Sound
<1> HIDE DEF v
<1>7. v.held \subseteq work[p][s].held BY <1>1, <1>6
<1>8. \A m \in archive' : LetterShape(m) BY <1>3 DEF ConsumerInv, ConsumerShape
<1>9. issued' = issued /\ queue' = queue /\ done \subseteq done' BY <1>3
<1> QED BY <1>2, <1>6, <1>7, <1>8, <1>9, ReadStep

LEMMA CallbackThrowsInv ==
    ASSUME ConsumerInv, NEW p \in Processes, NEW s \in QueueStreams, NEW h \in work[p][s].active,
           CallbackThrows(p, s, h), overlapped' = overlapped
    PROVE  ConsumerInv'
<1>1. PICK w \in Read : w = work[p][s] BY DEF ConsumerInv, ConsumerShape
<1>2. Sound(w) /\ h \in w.active BY <1>1 DEF ConsumerInv
<1>3. h \in Hand BY <1>2 DEF Read
<1> DEFINE u == Drop(w, h)
           gs == IF h.count >= MaxAttempts THEN To(h, "archive") ELSE {}
           v == [u EXCEPT !.active = @ \cup gs]
<1>4. work' = [work EXCEPT ![p][s] = v] BY <1>1 DEF CallbackThrows
<1>5. UNCHANGED <<issued, queue, archive, done>> BY DEF CallbackThrows
<1>6. /\ u \in Read /\ u.held \subseteq w.held /\ Sound(u)
      /\ u.active = w.active \ {h} /\ u.rest = w.rest
      /\ \A g \in u.active : g.id # h.id
  BY <1>2, DroppedIsSound
<1>7. \A g \in gs : g \in Hand /\ g.id = h.id /\ g.pc = "archive" BY <1>3 DEF To, Hand
<1>8. \A f, g \in gs : f = g BY DEF To
<1> HIDE DEF u, gs
<1>9. v.rest = u.rest /\ v.held = u.held /\ v.active = u.active \cup gs BY <1>6 DEF Read
<1>10. v \in Read BY <1>6, <1>7, <1>9 DEF Read
<1> HIDE DEF v
<1>11. Sound(v)
  <2>1. /\ \A r \in v.rest : r.id <= issued
        /\ \A f \in v.active : f.id <= issued
        /\ \A i \in v.held : i <= issued
    BY <1>2, <1>6, <1>7, <1>9 DEF Sound
  <2>2. \A r, o \in v.rest : r.id = o.id => r = o BY <1>6, <1>9 DEF Sound
  <2>3. \A r \in v.rest, f \in v.active : r.id # f.id BY <1>2, <1>6, <1>7, <1>9 DEF Sound
  <2>4. \A e, f \in v.active : e.id = f.id => e = f BY <1>6, <1>7, <1>8, <1>9 DEF Sound
  <2>5. /\ \A r \in v.rest : r.id \in v.held
        /\ \A f \in v.active : f.pc \in Working => f.id \in v.held
    BY <1>6, <1>7, <1>9 DEF Sound, Working
  <2>6. /\ \A n \in queue : \A r \in v.rest : r.id = n.id => r.events = n.events
        /\ \A n \in queue : \A f \in v.active : f.pc \in Working /\ f.id = n.id => f.events = n.events
        /\ \A f \in v.active : f.pc = "ack" => f.events \subseteq done
    BY <1>6, <1>7, <1>9 DEF Sound, Working
  <2> QED BY <2>1, <2>2, <2>3, <2>4, <2>5, <2>6 DEF Sound
<1>12. Sound(v)' BY <1>5, <1>11 DEF Sound
<1>13. v.held \subseteq work[p][s].held BY <1>1, <1>6, <1>9
<1>14. \A m \in archive' : LetterShape(m) BY <1>5 DEF ConsumerInv, ConsumerShape
<1>15. done \subseteq done' BY <1>5
<1> QED BY <1>4, <1>5, <1>10, <1>12, <1>13, <1>14, <1>15, ReadStep

\* A read that is settled without touching the queue.
LEMMA DropInv ==
    ASSUME ConsumerInv, NEW p \in Processes, NEW s \in QueueStreams, NEW h \in work[p][s].active,
           work' = [work EXCEPT ![p][s] = Drop(@, h)], \A m \in archive' : LetterShape(m),
           issued' = issued, queue' = queue, done' = done, overlapped' = overlapped
    PROVE  ConsumerInv'
<1>1. PICK w \in Read : w = work[p][s] BY DEF ConsumerInv, ConsumerShape
<1> DEFINE v == Drop(w, h)
<1>2. Sound(w) /\ h \in w.active BY <1>1 DEF ConsumerInv
<1>3. v \in Read /\ v.held \subseteq w.held /\ Sound(v) BY <1>2, DroppedIsSound
<1>4. work' = [work EXCEPT ![p][s] = v] BY <1>1
<1> HIDE DEF v
<1>5. Sound(v)' BY <1>3 DEF Sound
<1>6. done \subseteq done' /\ v.held \subseteq work[p][s].held BY <1>1, <1>3
<1> QED BY <1>3, <1>4, <1>5, <1>6, ReadStep

LEMMA AckInv ==
    ASSUME ConsumerInv, NEW p \in Processes, NEW s \in QueueStreams, NEW h \in work[p][s].active,
           Ack(p, s, h), overlapped' = overlapped
    PROVE  ConsumerInv'
<1>1. PICK w \in Read : w = work[p][s] BY DEF ConsumerInv, ConsumerShape
<1> DEFINE v == Drop(w, h)
<1>2. Sound(w) /\ h \in w.active BY <1>1 DEF ConsumerInv
<1>3. v \in Read /\ v.held \subseteq w.held /\ Sound(v) BY <1>2, DroppedIsSound
<1>4. work' = [work EXCEPT ![p][s] = v] BY <1>1 DEF Ack
<1>5. queue' = {m \in queue : m.id # h.id} /\ UNCHANGED <<issued, archive, done>> BY DEF Ack
<1> HIDE DEF v
<1>6. v.held \subseteq work[p][s].held BY <1>1, <1>3
<1>7. \A m \in archive' : LetterShape(m) BY <1>5 DEF ConsumerInv, ConsumerShape
<1> QED BY <1>3, <1>4, <1>5, <1>6, <1>7, RemoveStep

LEMMA ArchiveMovesInv ==
    ASSUME ConsumerInv, NEW p \in Processes, NEW s \in QueueStreams, NEW h \in work[p][s].active,
           ArchiveMoves(p, s, h), overlapped' = overlapped
    PROVE  ConsumerInv'
<1>1. PICK w \in Read : w = work[p][s] BY DEF ConsumerInv, ConsumerShape
<1> DEFINE v == [w EXCEPT !.active = (@ \ {h}) \cup To(h, "stamp")]
<1>2. Sound(w) /\ h \in w.active BY <1>1 DEF ConsumerInv
<1>3. v \in Read /\ v.held = w.held /\ Sound(v) BY <1>2, MovedIsSound DEF Working
<1>4. work' = [work EXCEPT ![p][s] = v] BY <1>1 DEF ArchiveMoves
<1>5. queue' = {m \in queue : m.id # h.id} /\ UNCHANGED <<issued, done>> BY DEF ArchiveMoves
<1> HIDE DEF v
<1>6. v.held \subseteq work[p][s].held BY <1>1, <1>3
<1>7. \A m \in archive' : LetterShape(m)
  <2>1. \A m \in queue : LetterShape([id |-> m.id, stream |-> m.stream, events |-> m.events, bad |-> m.bad,
                                      attempts |-> h.count, reported |-> FALSE])
    BY DEF ConsumerInv, ConsumerShape, MessageShape, LetterShape
  <2>2. \A m \in archive : LetterShape(m) BY DEF ConsumerInv, ConsumerShape
  <2> QED BY <2>1, <2>2 DEF ArchiveMoves
<1> QED BY <1>3, <1>4, <1>5, <1>6, <1>7, RemoveStep

LEMMA ArchiveStampsInv ==
    ASSUME ConsumerInv, NEW p \in Processes, NEW s \in QueueStreams, NEW h \in work[p][s].active,
           ArchiveStamps(p, s, h), overlapped' = overlapped
    PROVE  ConsumerInv'
<1>1. \A m \in archive : LetterShape([m EXCEPT !.reported = TRUE])
  BY DEF ConsumerInv, ConsumerShape, LetterShape
<1>2. \A m \in archive' : LetterShape(m)
  BY <1>1 DEF ArchiveStamps, ConsumerInv, ConsumerShape
<1>3. /\ work' = [work EXCEPT ![p][s] = Drop(@, h)]
      /\ issued' = issued /\ queue' = queue /\ done' = done
  BY DEF ArchiveStamps
<1> QED BY <1>2, <1>3, DropInv

LEMMA FailsInv ==
    ASSUME ConsumerInv, NEW p \in Processes, NEW s \in QueueStreams, NEW h \in work[p][s].active,
           AckFails(p, s, h) \/ ArchiveFails(p, s, h), overlapped' = overlapped
    PROVE  ConsumerInv'
<1>1. /\ work' = [work EXCEPT ![p][s] = Drop(@, h)]
      /\ issued' = issued /\ queue' = queue /\ done' = done /\ archive' = archive
  BY DEF AckFails, ArchiveFails
<1>2. \A m \in archive' : LetterShape(m) BY <1>1 DEF ConsumerInv, ConsumerShape
<1> QED BY <1>1, <1>2, DropInv

-----------------------------------------------------------------------------
(***************************************************************************)
(* The steps on a whole process, and on the queue.                         *)
(***************************************************************************)
\* Reads that hold no more than before.
LEMMA ShrinkStep ==
    ASSUME ConsumerInv, work' \in [Processes -> [QueueStreams -> Read]],
           \A q \in Processes, t \in QueueStreams :
              work'[q][t].held \subseteq work[q][t].held /\ Sound(work'[q][t]),
           issued' = issued, queue' = queue, archive' = archive, done' = done, overlapped' = overlapped
    PROVE  ConsumerInv'
<1>1. ConsumerShape' BY DEF ConsumerInv, ConsumerShape
<1>2. UniqueIds' BY DEF ConsumerInv, UniqueIds
<1>3. Exclusive' BY DEF ConsumerInv, Exclusive, HeldOnce, HeldIsLeased
<1>4. \A q \in Processes, t \in QueueStreams : Sound(work[q][t])' BY DEF Sound
<1> QED BY <1>1, <1>2, <1>3, <1>4 DEF ConsumerInv

LEMMA ReleasedIsSound ==
    ASSUME NEW w \in Read, Sound(w), NEW v, v = ReleaseUnstarted(w)
    PROVE  v \in Read /\ v.held \subseteq w.held /\ Sound(v)
<1>1. v.rest = {} /\ v.active = w.active /\ v.held = w.held \cap {h.id : h \in w.active}
  BY DEF ReleaseUnstarted, Read
<1>2. v \in Read
  <2> DEFINE u == [w EXCEPT !.rest = {}]
  <2>1. u \in Read /\ u.held = w.held BY DEF Read
  <2>2. v = [u EXCEPT !.held = w.held \cap {h.id : h \in w.active}] BY DEF ReleaseUnstarted, Read
  <2>3. w.held \cap {h.id : h \in w.active} \subseteq Nat BY DEF Read
  <2> HIDE DEF u
  <2> QED BY <2>1, <2>2, <2>3 DEF Read
<1>3. \A h \in v.active : h.pc \in Working => h.id \in v.held BY <1>1 DEF Sound
<1> QED BY <1>1, <1>2, <1>3 DEF Sound

LEMMA StopInv ==
    ASSUME ConsumerInv, NEW p \in Processes, Stop(p), overlapped' = overlapped
    PROVE  ConsumerInv'
<1>1. \A q \in Processes, t \in QueueStreams : work[q][t] \in Read /\ Sound(work[q][t])
  BY DEF ConsumerInv, ConsumerShape
<1>2. \A t \in QueueStreams : /\ ReleaseUnstarted(work[p][t]) \in Read
                              /\ ReleaseUnstarted(work[p][t]).held \subseteq work[p][t].held
                              /\ Sound(ReleaseUnstarted(work[p][t]))
  <2> SUFFICES ASSUME NEW t \in QueueStreams
               PROVE  /\ ReleaseUnstarted(work[p][t]) \in Read
                      /\ ReleaseUnstarted(work[p][t]).held \subseteq work[p][t].held
                      /\ Sound(ReleaseUnstarted(work[p][t]))
    OBVIOUS
  <2>1. PICK w \in Read : w = work[p][t] BY <1>1
  <2>2. PICK v : v = ReleaseUnstarted(w) OBVIOUS
  <2>3. Sound(w) BY <1>1, <2>1
  <2>4. v \in Read /\ v.held \subseteq w.held /\ Sound(v) BY <2>2, <2>3, ReleasedIsSound
  <2> QED BY <2>1, <2>2, <2>4
<1>3. work' = [work EXCEPT ![p] = [t \in QueueStreams |-> ReleaseUnstarted(work[p][t])]] BY DEF Stop
<1>4. work' \in [Processes -> [QueueStreams -> Read]] BY <1>2, <1>3 DEF ConsumerInv, ConsumerShape
<1>5. \A q \in Processes, t \in QueueStreams :
        work'[q][t] = IF q = p THEN ReleaseUnstarted(work[p][t]) ELSE work[q][t]
  BY <1>3 DEF ConsumerInv, ConsumerShape
<1>6. \A q \in Processes, t \in QueueStreams :
        work'[q][t].held \subseteq work[q][t].held /\ Sound(work'[q][t])
  BY <1>1, <1>2, <1>5
<1>7. issued' = issued /\ queue' = queue /\ archive' = archive /\ done' = done BY DEF Stop
<1> QED BY <1>4, <1>6, <1>7, ShrinkStep

LEMMA DiesInv ==
    ASSUME ConsumerInv, NEW p \in Processes, Dies(p), overlapped' = overlapped
    PROVE  ConsumerInv'
<1>1. \A q \in Processes, t \in QueueStreams : work[q][t] \in Read /\ Sound(work[q][t])
  BY DEF ConsumerInv, ConsumerShape
<1>2. NoRead \in Read /\ Sound(NoRead) /\ NoRead.held = {} BY NoReadIsSound DEF NoRead
<1>3. work' = [work EXCEPT ![p] = [t \in QueueStreams |-> NoRead]] BY DEF Dies
<1>4. work' \in [Processes -> [QueueStreams -> Read]] BY <1>2, <1>3 DEF ConsumerInv, ConsumerShape
<1>5. \A q \in Processes, t \in QueueStreams : work'[q][t] = IF q = p THEN NoRead ELSE work[q][t]
  BY <1>3 DEF ConsumerInv, ConsumerShape
<1>6. \A q \in Processes, t \in QueueStreams :
        work'[q][t].held \subseteq work[q][t].held /\ Sound(work'[q][t])
  BY <1>1, <1>2, <1>5
<1>7. issued' = issued /\ queue' = queue /\ archive' = archive /\ done' = done BY DEF Dies
<1> QED BY <1>4, <1>6, <1>7, ShrinkStep

\* New messages, with new ids.
LEMMA AddStep ==
    ASSUME ConsumerInv, work' = work, \A m \in archive' : LetterShape(m), done' = done, overlapped' = overlapped,
           issued' \in Nat, issued <= issued', NEW new, queue' = queue \cup new,
           \A m \in new : MessageShape(m) /\ issued < m.id /\ m.id <= issued',
           \A m, n \in new : m.id = n.id => m = n
    PROVE  ConsumerInv'
<1>1. issued \in Nat /\ \A m \in queue : MessageShape(m) /\ m.id \in Nat /\ m.id <= issued
  BY DEF ConsumerInv, ConsumerShape, MessageShape
<1>2. \A m \in new : m.id \in Nat BY DEF MessageShape
<1>3. \A m \in queue : m.id <= issued' BY <1>1
<1>4. \A m \in new : ~(m.id <= issued) BY <1>1, <1>2
<1>5. QueueKeeps BY <1>1, <1>3, <1>4 DEF QueueKeeps
<1>6. UniqueIds' BY <1>1, <1>4 DEF ConsumerInv, UniqueIds
<1>7. \A p \in Processes, s \in QueueStreams : \A i \in work[p][s].held : i <= issued
  BY DEF ConsumerInv, Sound
<1>8. ~overlapped' => ~overlapped /\ \A p \in Processes, s \in QueueStreams : \A m \in queue' :
                                        m.id \in work[p][s].held => m.leased
  BY <1>4, <1>7 DEF ConsumerInv, Exclusive, HeldIsLeased
<1>9. done \subseteq done' OBVIOUS
<1> QED BY <1>5, <1>6, <1>8, <1>9, QueueStep

LEMMA CorruptInv ==
    ASSUME ConsumerInv, NEW s \in QueueStreams, Corrupt(s), overlapped' = overlapped
    PROVE  ConsumerInv'
<1>1. issued \in Nat BY DEF ConsumerInv, ConsumerShape
<1>2. PICK i \in Nat : i = issued + 1 BY <1>1
<1>3. PICK m : m = Message(i, s, {}, TRUE) OBVIOUS
<1>4. PICK new : new = {m} OBVIOUS
<1>5. MessageShape(m) /\ m.id = i BY <1>3 DEF Message, MessageShape
<1>6. issued' = i /\ queue' = queue \cup new /\ work' = work /\ archive' = archive /\ done' = done
  BY <1>2, <1>3, <1>4 DEF Corrupt
<1>7. issued' \in Nat /\ issued <= issued' BY <1>1, <1>2, <1>6
<1>8. \A n \in new : MessageShape(n) /\ issued < n.id /\ n.id <= issued' BY <1>1, <1>2, <1>4, <1>5, <1>6
<1>9. \A x \in archive' : LetterShape(x) BY <1>6 DEF ConsumerInv, ConsumerShape
<1>10. \A x, y \in new : x.id = y.id => x = y BY <1>4
<1> QED BY <1>6, <1>7, <1>8, <1>9, <1>10, AddStep

LEMMA RequeueInv ==
    ASSUME ConsumerInv, RequeueDeadLetter, overlapped' = overlapped
    PROVE  ConsumerInv'
<1>1. issued \in Nat BY DEF ConsumerInv, ConsumerShape
<1>2. PICK l \in archive : /\ archive' = archive \ {l}
                           /\ queue' = queue \cup {Message(issued + 1, l.stream, l.events, FALSE)}
  BY DEF RequeueDeadLetter
<1>3. PICK i \in Nat : i = issued + 1 BY <1>1
<1>4. PICK m : m = Message(i, l.stream, l.events, FALSE) OBVIOUS
<1>5. PICK new : new = {m} OBVIOUS
<1>6. l.events \in SUBSET Events BY DEF ConsumerInv, ConsumerShape, LetterShape
<1>7. MessageShape(m) /\ m.id = i BY <1>4, <1>6 DEF Message, MessageShape
<1>8. issued' = i /\ queue' = queue \cup new /\ work' = work /\ done' = done
  BY <1>2, <1>3, <1>4, <1>5 DEF RequeueDeadLetter
<1>9. issued' \in Nat /\ issued <= issued' BY <1>1, <1>3, <1>8
<1>10. \A n \in new : MessageShape(n) /\ issued < n.id /\ n.id <= issued' BY <1>1, <1>3, <1>5, <1>7, <1>8
<1>11. \A x \in archive' : LetterShape(x) BY <1>2 DEF ConsumerInv, ConsumerShape
<1>12. \A x, y \in new : x.id = y.id => x = y BY <1>5
<1> QED BY <1>8, <1>9, <1>10, <1>11, <1>12, AddStep

\* A lease ends: nobody renews it, or a renewal has failed.
LEMMA LapseInv ==
    ASSUME ConsumerInv, NEW m \in queue, Lapse(m), UNCHANGED <<issued, archive, work, done>>,
           overlapped' \/ (overlapped' = overlapped /\ ~Renewed(m))
    PROVE  ConsumerInv'
<1>1. MessageShape(m) BY DEF ConsumerInv, ConsumerShape
<1>2. PICK n : n = [m EXCEPT !.leased = FALSE] OBVIOUS
<1>3. MessageShape(n) /\ n.id = m.id /\ n.events = m.events BY <1>1, <1>2 DEF MessageShape
<1>4. queue' = (queue \ {m}) \cup {n} BY <1>2 DEF Lapse
<1>5. QueueKeeps BY <1>3, <1>4 DEF ConsumerInv, ConsumerShape, QueueKeeps
<1>6. UniqueIds' BY <1>3, <1>4 DEF ConsumerInv, UniqueIds
<1>7. ~overlapped' => ~overlapped /\ \A p \in Processes, s \in QueueStreams : \A x \in queue' :
                                        x.id \in work[p][s].held => x.leased
  BY <1>3, <1>4 DEF ConsumerInv, Exclusive, HeldIsLeased, Renewed
<1>8. \A x \in archive' : LetterShape(x) BY DEF ConsumerInv, ConsumerShape
<1>9. done \subseteq done' /\ work' = work OBVIOUS
<1> QED BY <1>5, <1>6, <1>7, <1>8, <1>9, QueueStep

LEMMA ReadBatchInv ==
    ASSUME ConsumerInv, NEW p \in Processes, NEW s \in QueueStreams, ReadBatch(p, s), overlapped' = overlapped
    PROVE  ConsumerInv'
<1> DEFINE ms == Oldest(s)
<1>1. ms \subseteq queue /\ \A m \in ms : m.leased = FALSE BY DEF Oldest, Visible, ConsumerInv, ConsumerShape, MessageShape
<1>2. \A m \in queue : MessageShape(m) /\ m.id <= issued BY DEF ConsumerInv, ConsumerShape
<1>3. UNCHANGED <<issued, archive, done>> /\ queue' = (queue \ ms) \cup Leased(ms) BY DEF ReadBatch
<1>4. \A n \in Leased(ms) : \E m \in ms : n.id = m.id /\ n.events = m.events /\ n.leased = TRUE /\ MessageShape(n)
  <2> SUFFICES ASSUME NEW m \in ms, NEW n, n = [m EXCEPT !.leased = TRUE, !.count = @ + 1]
               PROVE  n.id = m.id /\ n.events = m.events /\ n.leased = TRUE /\ MessageShape(n)
    BY DEF Leased
  <2>1. MessageShape(m) BY <1>1, <1>2
  <2>2. n.id = m.id /\ n.events = m.events /\ n.leased = TRUE /\ n.stream = m.stream BY <2>1 DEF MessageShape
  <2>3. PICK k : k = [m EXCEPT !.leased = TRUE] OBVIOUS
  <2>4. MessageShape(k) /\ k.count = m.count /\ k.stream = m.stream BY <2>1, <2>3 DEF MessageShape
  <2>5. n = [k EXCEPT !.count = m.count + 1] BY <2>1, <2>3 DEF MessageShape
  <2>6. MessageShape(n) BY <2>4, <2>5 DEF MessageShape
  <2> QED BY <2>2, <2>6
<1>6. PICK w : /\ work' = [work EXCEPT ![p][s] = w]
               /\ \/ w = [rest |-> Delivered(ms), active |-> {}, held |-> {m.id : m \in ms}]
                  \/ \E m \in ms : w = [NoRead EXCEPT !.active =
                                          {[id |-> m.id, count |-> 0, events |-> {}, pc |-> "archive"]}]
  BY DEF ReadBatch, Bad
<1>7. UniqueIds' /\ QueueKeeps
  <2>1. \A m, n \in Leased(ms) : m.id = n.id => m = n
    <3> SUFFICES ASSUME NEW m \in Leased(ms), NEW n \in Leased(ms), m.id = n.id PROVE m = n OBVIOUS
    <3>1. PICK x \in ms : m = [x EXCEPT !.leased = TRUE, !.count = @ + 1] BY DEF Leased
    <3>2. PICK y \in ms : n = [y EXCEPT !.leased = TRUE, !.count = @ + 1] BY DEF Leased
    <3>3. x.id = m.id /\ y.id = n.id BY <1>1, <1>2, <3>1, <3>2 DEF MessageShape
    <3>4. x = y BY <1>1, <3>3 DEF ConsumerInv, UniqueIds
    <3> QED BY <3>1, <3>2, <3>4
  <2>2. \A m \in queue \ ms, n \in Leased(ms) : m.id # n.id BY <1>1, <1>4 DEF ConsumerInv, UniqueIds
  <2>3. UniqueIds' BY <1>3, <2>1, <2>2 DEF ConsumerInv, UniqueIds
  <2>4. QueueKeeps BY <1>1, <1>2, <1>3, <1>4 DEF ConsumerInv, ConsumerShape, QueueKeeps
  <2> QED BY <2>3, <2>4
<1>8. \A q \in Processes, t \in QueueStreams : ~overlapped => \A m \in ms : m.id \notin work[q][t].held
  BY <1>1 DEF ConsumerInv, Exclusive, HeldIsLeased
<1>9. w \in Read /\ Sound(w)' /\ w.held \subseteq {m.id : m \in ms}
  <2>1. CASE w = [rest |-> Delivered(ms), active |-> {}, held |-> {m.id : m \in ms}]
    <3> DEFINE es == Delivered(ms)
               is == {m.id : m \in ms}
    <3>1. \A r \in es : r \in Entry /\ \E m \in ms : r.id = m.id /\ r.events = m.events
      BY <1>1, <1>2 DEF Delivered, MessageShape, Entry
    <3>2. is \subseteq Nat BY <1>1, <1>2 DEF MessageShape
    <3>3. \A r, o \in es : r.id = o.id => r = o
      <4> SUFFICES ASSUME NEW r \in es, NEW o \in es, r.id = o.id PROVE r = o OBVIOUS
      <4>1. PICK x \in ms : r = [id |-> x.id, count |-> x.count + 1, events |-> x.events] BY DEF Delivered
      <4>2. PICK y \in ms : o = [id |-> y.id, count |-> y.count + 1, events |-> y.events] BY DEF Delivered
      <4>3. x = y BY <1>1, <4>1, <4>2 DEF ConsumerInv, UniqueIds
      <4> QED BY <4>1, <4>2, <4>3
    <3>4. \A r \in es : r.id \in is BY <3>1
    <3>5. \A i \in is : i <= issued BY <1>1, <1>2
    <3>6. \A m \in queue' : \A r \in es : r.id = m.id => r.events = m.events
      <4>1. \A m \in queue : \A r \in es : r.id = m.id => r.events = m.events
        BY <1>1, <3>1 DEF ConsumerInv, UniqueIds
      <4>2. \A m \in queue' : \E n \in queue : n.id = m.id /\ n.events = m.events BY <1>1, <1>3, <1>4
      <4> QED BY <4>1, <4>2
    <3> HIDE DEF es, is
    <3>7. w.rest = es /\ w.active = {} /\ w.held = is /\ w = [rest |-> es, active |-> {}, held |-> is]
      BY <1>6, <2>1 DEF es, is
    <3>8. w \in Read BY <3>1, <3>2, <3>7 DEF Read
    <3> QED BY <1>3, <3>1, <3>3, <3>4, <3>5, <3>6, <3>7, <3>8 DEF Sound, is
  <2>2. ASSUME NEW m \in ms,
               w = [NoRead EXCEPT !.active = {[id |-> m.id, count |-> 0, events |-> {}, pc |-> "archive"]}]
        PROVE  w \in Read /\ Sound(w)' /\ w.held = {}
    <3>1. m.id \in Nat /\ m.id <= issued BY <1>1, <1>2 DEF MessageShape
    <3>2. PICK h : h = [id |-> m.id, count |-> 0, events |-> {}, pc |-> "archive"] OBVIOUS
    <3>3. h \in Hand /\ h.id <= issued /\ h.pc = "archive" BY <3>1, <3>2 DEF Hand
    <3>4. w.rest = {} /\ w.active = {h} /\ w.held = {} /\ w \in Read BY <2>2, <3>2, <3>3 DEF NoRead, Read
    <3> QED BY <1>3, <3>3, <3>4 DEF Sound, Working
  <2> QED BY <1>6, <2>1, <2>2
<1> HIDE DEF ms
<1>10. ConsumerShape' BY <1>2, <1>3, <1>6, <1>7, <1>9 DEF ConsumerInv, ConsumerShape, QueueKeeps
<1>11. /\ work'[p][s] = w
       /\ \A q \in Processes, t \in QueueStreams : q # p \/ t # s => work'[q][t] = work[q][t]
  BY <1>6 DEF ConsumerInv, ConsumerShape
<1>12. Exclusive'
  <2> SUFFICES ASSUME ~overlapped PROVE HeldOnce' /\ HeldIsLeased' BY DEF Exclusive
  <2>1. HeldOnce /\ HeldIsLeased BY DEF ConsumerInv, Exclusive
  <2>2. HeldOnce'
    <3>1. \A q \in Processes, t \in QueueStreams : \A i \in w.held : i \notin work[q][t].held
      BY <1>8, <1>9
    <3> QED BY <1>11, <2>1, <3>1 DEF HeldOnce
  <2>3. HeldIsLeased'
    <3>1. \A m \in queue' : m.id \in w.held => m.leased
      BY <1>1, <1>3, <1>4, <1>9 DEF ConsumerInv, UniqueIds
    <3>2. \A q \in Processes, t \in QueueStreams : \A m \in queue' : m.id \in work[q][t].held => m.leased
      BY <1>1, <1>3, <1>4, <2>1 DEF HeldIsLeased
    <3> QED BY <1>11, <3>1, <3>2 DEF HeldIsLeased
  <2> QED BY <2>2, <2>3
<1>13. \A q \in Processes, t \in QueueStreams : Sound(work[q][t])'
  <2> SUFFICES ASSUME NEW q \in Processes, NEW t \in QueueStreams PROVE Sound(work[q][t])' OBVIOUS
  <2>1. CASE q = p /\ t = s BY <1>9, <1>11, <2>1
  <2>2. CASE q # p \/ t # s
    <3>1. PICK v \in Read : v = work[q][t] BY DEF ConsumerInv, ConsumerShape
    <3>2. Sound(v) BY <3>1 DEF ConsumerInv
    <3>3. done \subseteq done' BY <1>3
    <3>4. Sound(v)' BY <1>7, <3>2, <3>3, SoundStays DEF ConsumerInv
    <3> QED BY <1>11, <2>2, <3>1, <3>4
  <2> QED BY <2>1, <2>2
<1> QED BY <1>7, <1>10, <1>12, <1>13 DEF ConsumerInv

LEMMA FilledIsFinite ==
    ASSUME NEW batch PROVE IsFiniteSet(Filled(batch)) /\ Cardinality(Filled(batch)) \in Nat
<1>1. IsFiniteSet(Streams)
  <2> DEFINE f == [e \in Events |-> StreamOf[e]]
  <2>1. f \in Surjection(Events, Streams) BY DEF Surjection, Streams
  <2> QED BY <2>1, EventsAssumption, FS_Surjection
<1>2. Filled(batch) \subseteq Streams BY DEF Filled
<1>3. IsFiniteSet(Filled(batch)) BY <1>1, <1>2, FS_Subset
<1> QED BY <1>3, FS_CardinalityType

\* What one request adds to the queue: a message per stream, with ids of its own,
\* and every accepted event is in one.
LEMMA EnqueueAdds ==
    ASSUME issued \in Nat, NEW batch \in SUBSET Events, EnqueueBatch(batch)
    PROVE  \E new : /\ queue' = queue \cup new
                    /\ issued' \in Nat /\ issued <= issued'
                    /\ \A m \in new : MessageShape(m) /\ issued < m.id /\ m.id <= issued'
                    /\ \A m, n \in new : m.id = n.id => m = n
                    /\ \A e \in batch : Verdict(e) = "acked" => \E m \in new : e \in m.events
<1> DEFINE ss == Filled(batch)
<1>1. issued' = issued + Cardinality(ss) /\ Cardinality(ss) \in Nat BY FilledIsFinite DEF EnqueueBatch
<1>2. PICK id \in Injection(ss, issued + 1 .. issued') :
        queue' = queue \cup {Message(id[s], s, Accepted(batch, s), FALSE) : s \in ss}
  BY DEF EnqueueBatch
<1>3. /\ \A s \in ss : id[s] \in issued + 1 .. issued'
      /\ \A s, t \in ss : id[s] = id[t] => s = t
  BY DEF Injection, IsInjective
<1>4. \A s \in ss : id[s] \in Nat /\ issued < id[s] /\ id[s] <= issued' BY <1>1, <1>3
<1> DEFINE new == {Message(id[s], s, Accepted(batch, s), FALSE) : s \in ss}
<1>5. \A s \in ss : /\ MessageShape(Message(id[s], s, Accepted(batch, s), FALSE))
                    /\ Message(id[s], s, Accepted(batch, s), FALSE).id = id[s]
                    /\ Message(id[s], s, Accepted(batch, s), FALSE).events = Accepted(batch, s)
  <2> SUFFICES ASSUME NEW s \in ss, NEW m, m = Message(id[s], s, Accepted(batch, s), FALSE)
               PROVE  MessageShape(m) /\ m.id = id[s] /\ m.events = Accepted(batch, s)
    OBVIOUS
  <2>1. Accepted(batch, s) \in SUBSET Events BY DEF Accepted
  <2> QED BY <1>4, <2>1 DEF Message, MessageShape
<1>6. \A m \in new : MessageShape(m) /\ issued < m.id /\ m.id <= issued' BY <1>4, <1>5
<1>7. \A m, n \in new : m.id = n.id => m = n
  <2> SUFFICES ASSUME NEW m \in new, NEW n \in new, m.id = n.id PROVE m = n OBVIOUS
  <2>1. PICK s \in ss : m = Message(id[s], s, Accepted(batch, s), FALSE) OBVIOUS
  <2>2. PICK t \in ss : n = Message(id[t], t, Accepted(batch, t), FALSE) OBVIOUS
  <2>3. id[s] = id[t] BY <1>5, <2>1, <2>2
  <2>4. s = t BY <1>3, <2>3
  <2> QED BY <2>1, <2>2, <2>4
<1>8. \A e \in batch : Verdict(e) = "acked" => \E m \in new : e \in m.events
  <2> SUFFICES ASSUME NEW e \in batch, Verdict(e) = "acked" PROVE \E m \in new : e \in m.events OBVIOUS
  <2>1. e \in Accepted(batch, StreamOf[e]) /\ StreamOf[e] \in Streams BY DEF Accepted, Streams
  <2>2. StreamOf[e] \in ss BY <2>1 DEF Filled
  <2> QED BY <1>5, <2>1, <2>2
<1>9. issued' \in Nat /\ issued <= issued' BY <1>1
<1> QED BY <1>2, <1>6, <1>7, <1>8, <1>9

LEMMA EnqueueInv ==
    ASSUME ConsumerInv, NEW batch \in SUBSET Events, EnqueueBatch(batch), UNCHANGED <<archive, work, done, overlapped>>
    PROVE  ConsumerInv'
<1>1. issued \in Nat BY DEF ConsumerInv, ConsumerShape
<1>2. PICK new : /\ queue' = queue \cup new
                 /\ issued' \in Nat /\ issued <= issued'
                 /\ \A m \in new : MessageShape(m) /\ issued < m.id /\ m.id <= issued'
                 /\ \A m, n \in new : m.id = n.id => m = n
  BY <1>1, EnqueueAdds
<1>3. \A m \in archive' : LetterShape(m) BY DEF ConsumerInv, ConsumerShape
<1>4. work' = work /\ done' = done /\ overlapped' = overlapped OBVIOUS
<1> QED BY <1>2, <1>3, <1>4, AddStep

-----------------------------------------------------------------------------
(***************************************************************************)
(* Every step.                                                             *)
(***************************************************************************)
LEMMA ConsumeInv ==
    ASSUME ConsumerInv, Consume PROVE ConsumerInv'
<1>1. ASSUME Consumer(LeaseLapses) PROVE ConsumerInv'
  <2>1. PICK m \in queue : ~Renewed(m) /\ Lapse(m) BY <1>1 DEF Consumer, LeaseLapses
  <2>2. UNCHANGED <<issued, archive, work, done>> /\ overlapped' = overlapped BY <1>1 DEF Consumer, LeaseLapses
  <2> QED BY <2>1, <2>2, LapseInv
<1>2. ASSUME NEW p \in Processes, NEW s \in QueueStreams,
             Consumer(Spawn(p)) \/ Consumer(Ends(p)) \/ Consumer(ReadEmpty(p, s))
      PROVE  ConsumerInv'
  <2>1. UNCHANGED <<queue, issued, archive, work, done, overlapped>>
    BY <1>2 DEF Consumer, Spawn, Ends, ReadEmpty
  <2> QED BY <2>1, QueueStutters
<1>3. ASSUME NEW p \in Processes, Consumer(Spawn(p)) \/ Consumer(Ends(p)) PROVE ConsumerInv'
  <2>1. UNCHANGED <<queue, issued, archive, work, done, overlapped>> BY <1>3 DEF Consumer, Spawn, Ends
  <2> QED BY <2>1, QueueStutters
<1>4. ASSUME NEW p \in Processes, NEW s \in QueueStreams, Consumer(ReadBatch(p, s)) PROVE ConsumerInv'
  BY <1>4, ReadBatchInv DEF Consumer
<1>5. ASSUME NEW p \in Processes, NEW s \in QueueStreams, Consumer(StartCallback(p, s)) PROVE ConsumerInv'
  BY <1>5, StartCallbackInv DEF Consumer
<1>6. ASSUME NEW p \in Processes, NEW s \in QueueStreams, CallbackEnds(p, s) PROVE ConsumerInv'
  BY <1>6, CallbackReturnsInv, CallbackThrowsInv DEF Consumer, CallbackEnds
<1>7. ASSUME NEW p \in Processes, NEW s \in QueueStreams, Settles(p, s) PROVE ConsumerInv'
  BY <1>7, AckInv, ArchiveMovesInv, ArchiveStampsInv DEF Consumer, Settles
<1> QED BY <1>1, <1>2, <1>3, <1>4, <1>5, <1>6, <1>7 DEF Consume, Reads

LEMMA TroublesInv ==
    ASSUME ConsumerInv, Troubles PROVE ConsumerInv'
<1>1. ASSUME ClientTrouble(GoOffline) \/ ClientTrouble(ConnectionLost) \/ ClientTrouble(ClientRestarts) \/ IngestRefuses
      PROVE  ConsumerInv'
  <2>1. UNCHANGED <<queue, issued, archive, work, done, overlapped>>
    BY <1>1 DEF ClientTrouble, IngestRefuses, consumerVars
  <2> QED BY <2>1, QueueStutters
<1>2. ASSUME RenewalLost PROVE ConsumerInv'
  <2>1. PICK m \in queue : Lapse(m) BY <1>2 DEF RenewalLost, RenewalFails
  <2>2. UNCHANGED <<issued, archive, work, done>> /\ overlapped' = TRUE BY <1>2 DEF RenewalLost, RenewalFails
  <2> QED BY <2>1, <2>2, LapseInv
<1>3. ASSUME NEW s \in QueueStreams, ConsumerTrouble(Corrupt(s)) PROVE ConsumerInv'
  BY <1>3, CorruptInv DEF ConsumerTrouble
<1>4. ASSUME ConsumerTrouble(RequeueDeadLetter) PROVE ConsumerInv' BY <1>4, RequeueInv DEF ConsumerTrouble
<1>5. ASSUME NEW p \in Processes, ConsumerTrouble(Stop(p)) PROVE ConsumerInv' BY <1>5, StopInv DEF ConsumerTrouble
<1>6. ASSUME NEW p \in Processes, ConsumerTrouble(Dies(p)) PROVE ConsumerInv' BY <1>6, DiesInv DEF ConsumerTrouble
<1>7. ASSUME NEW p \in Processes, NEW s \in QueueStreams, NEW h \in work[p][s].active,
             ConsumerTrouble(AckFails(p, s, h)) \/ ConsumerTrouble(ArchiveFails(p, s, h))
      PROVE  ConsumerInv'
  BY <1>7, FailsInv DEF ConsumerTrouble
<1> QED BY <1>1, <1>2, <1>3, <1>4, <1>5, <1>6, <1>7 DEF Troubles

-----------------------------------------------------------------------------
(***************************************************************************)
(* The client's half.                                                      *)
(***************************************************************************)
Places == {"idle", "posting", "defer", "delete", "stamp", "next"}
AcksShape(acks) == DOMAIN acks \subseteq Events /\ acks \in [DOMAIN acks -> Verdicts]

Driver == [running : BOOLEAN, queued : BOOLEAN, online : BOOLEAN]
Rows == [Events -> {"none", "pending", "stamped", "deleted"}]

OutboxShape ==
    /\ row \in Rows
    /\ driver \in Driver
    /\ pass \in [pc : Places, batch : SUBSET Events, acks : {pass.acks}, deferred : SUBSET Events]
    /\ exchange \in [state : {"none", "sent", "answered", "failed"}, acks : {exchange.acks}]
    /\ AcksShape(pass.acks) /\ AcksShape(exchange.acks)
    /\ orphans \subseteq SUBSET Events /\ IsFiniteSet(orphans)
    /\ copies \in [Events -> Nat] /\ troubles \in Nat

\* One pass at a time: the driver, the pass and the exchange agree, and a batch
\* that is being posted is still pending.
OnePass ==
    /\ driver.running <=> pass.pc # "idle"
    /\ exchange.state # "none" <=> pass.pc = "posting"
    /\ exchange.state # "answered" => exchange.acks = NoAcks
    /\ pass.pc \in {"idle", "posting"} => pass.acks = NoAcks
    /\ pass.pc = "posting" => \A e \in pass.batch : row[e] = "pending"

\* What a verdict says of its event.
Honoured(acks) ==
    \A e \in DOMAIN acks : /\ acks[e] = "acked" => Kept(e)
                           /\ acks[e] \in {"refused", "rejected"} => e \in Invalid \cup Refused

\* An event that a pass may still post, and the most it can be enqueued by what is
\* under way.
Acked(e) ==
    \/ e \in DOMAIN exchange.acks /\ exchange.acks[e] = "acked"
    \/ pass.pc \in {"defer", "delete", "stamp"} /\ e \in DOMAIN pass.acks /\ pass.acks[e] = "acked"
Due(e) == IF row[e] \in {"none", "pending"} /\ ~Acked(e) THEN 1 ELSE 0
Stray(e) == {b \in orphans : e \in b}

DeletedFirst ==
    pass.pc = "stamp" /\ ~RetainsAcked => \A e \in With({"acked"}) : row[e] = "deleted"
Accounted == \A e \in Events : copies[e] + Cardinality(Stray(e)) + Due(e) <= 1 + troubles

OutboxInv == OutboxShape /\ OnePass /\ DeletedFirst
Fates == Honoured(pass.acks) /\ Honoured(exchange.acks) /\ NothingLost

-----------------------------------------------------------------------------
(***************************************************************************)
(* The kinds of client steps.                                              *)
(***************************************************************************)
Counts == orphans \subseteq SUBSET Events /\ IsFiniteSet(orphans) /\ copies \in [Events -> Nat] /\ troubles \in Nat
Resting == driver \in Driver /\ driver.running = FALSE /\ pass = NoPass /\ exchange = NoExchange
Posted ==
    /\ driver \in Driver /\ driver.running = TRUE
    /\ pass \in [pc : {"posting"}, batch : SUBSET Events, acks : {NoAcks}, deferred : SUBSET Events]
    /\ exchange = [state |-> "sent", acks |-> NoAcks]
    /\ \A e \in pass.batch : row[e] = "pending"

\* A pass begins with a slice, or is over; the sweep may have retired some rows.
Begins ==
    /\ pass.pc \in {"idle", "next"}
    /\ row' \in Rows
    /\ \A e \in Events : row'[e] = row[e] \/ (row[e] = "stamped" /\ row'[e] = "deleted")
    /\ Resting' \/ Posted'
Signals == driver' \in Driver /\ driver'.running = driver.running /\ UNCHANGED <<row, pass, exchange>>
GivesUp ==
    /\ row' = row /\ Resting'
    /\ orphans' = orphans \/ (exchange.state = "sent" /\ orphans' = orphans \cup {pass.batch})

LEMMA NoAcksShape == AcksShape(NoAcks) /\ DOMAIN NoAcks = {}
BY DEF AcksShape, NoAcks

LEMMA NoPassShape ==
    /\ NoPass \in [pc : {"idle"}, batch : {{}}, acks : {NoAcks}, deferred : {{}}]
    /\ NoPass.pc = "idle" /\ NoPass.batch = {} /\ NoPass.acks = NoAcks /\ NoPass.deferred = {}
    /\ NoExchange \in [state : {"none"}, acks : {NoAcks}]
    /\ NoExchange.state = "none" /\ NoExchange.acks = NoAcks
BY DEF NoPass, NoExchange

LEMMA SliceIsPending ==
    ASSUME NEW deferred
    PROVE  Slice(deferred) \in SUBSET Events /\ \A e \in Slice(deferred) : row[e] = "pending"
BY DEF Slice, First, WithinCap, Eligible

LEMMA NotFlushingRests ==
    ASSUME NEW d \in Driver, NotFlushing(d) PROVE Resting'
<1>1. PICK k : k = [d EXCEPT !.running = FALSE] OBVIOUS
<1>2. k \in Driver /\ k.running = FALSE BY <1>1 DEF Driver
<1>3. driver' = [k EXCEPT !.queued = FALSE] BY <1>1 DEF NotFlushing, Driver
<1>4. driver' \in Driver /\ driver'.running = FALSE BY <1>2, <1>3 DEF Driver
<1> QED BY <1>4 DEF NotFlushing, Resting

LEMMA FlushingPosts ==
    ASSUME NEW d \in Driver, NEW batch \in SUBSET Events, NEW deferred \in SUBSET Events,
           Flushing(d, batch, deferred), \A e \in batch : row'[e] = "pending"
    PROVE  Posted'
<1>1. driver' \in Driver /\ driver'.running = TRUE BY DEF Flushing, Driver
<1>2. pass' = [pc |-> "posting", batch |-> batch, acks |-> NoAcks, deferred |-> deferred]
  BY DEF Flushing, NoPass
<1>3. exchange' = [state |-> "sent", acks |-> NoAcks] BY DEF Flushing, NoExchange
<1> QED BY <1>1, <1>2, <1>3 DEF Posted

LEMMA SweepRetires ==
    ASSUME row \in Rows, NEW rows \in Sweep(row)
    PROVE  /\ rows \in Rows
           /\ \A e \in Events : rows[e] = row[e] \/ (row[e] = "stamped" /\ rows[e] = "deleted")
<1>1. PICK old \in SUBSET {e \in Events : row[e] = "stamped"} :
        rows = [e \in Events |-> IF e \in old THEN "deleted" ELSE row[e]]
  BY DEF Sweep
<1>2. \A e \in Events : rows[e] = IF e \in old THEN "deleted" ELSE row[e] BY <1>1
<1>3. \A e \in Events : rows[e] \in {"none", "pending", "stamped", "deleted"} BY <1>2 DEF Rows
<1>4. rows \in Rows BY <1>1, <1>3 DEF Rows
<1> QED BY <1>2, <1>4

LEMMA StartPassBegins ==
    ASSUME OutboxInv, NEW d \in Driver, StartPass(d), pass.pc \in {"idle", "next"}
    PROVE  Begins
<1>1. row \in Rows BY DEF OutboxInv, OutboxShape
<1>2. /\ row' \in Rows
      /\ \A e \in Events : row'[e] = row[e] \/ (row[e] = "stamped" /\ row'[e] = "deleted")
  BY <1>1, SweepRetires DEF StartPass
<1>3. PICK batch : batch = Slice({}) OBVIOUS
<1>4. batch \in SUBSET Events /\ \A e \in batch : row[e] = "pending" BY <1>3, SliceIsPending
<1>5. \A e \in batch : row'[e] = "pending" BY <1>2, <1>4
<1>6. NotFlushing(d) \/ Flushing(d, batch, {}) BY <1>3 DEF StartPass
<1>7. Resting' \/ Posted' BY <1>4, <1>5, <1>6, NotFlushingRests, FlushingPosts
<1> QED BY <1>2, <1>7 DEF Begins

LEMMA RunPassKind ==
    ASSUME OutboxInv, NEW d \in Driver, d.running = driver.running, RunPass(d)
    PROVE  Begins \/ Signals
<1>1. CASE d.running
  <2>1. driver' \in Driver /\ driver'.running = driver.running BY <1>1 DEF RunPass, Driver
  <2> QED BY <1>1, <2>1 DEF RunPass, Signals
<1>2. CASE ~d.running /\ ~d.online BY <1>2 DEF RunPass, Signals
<1>3. CASE ~d.running /\ d.online
  <2>1. pass.pc = "idle" BY <1>3 DEF OutboxInv, OnePass
  <2> QED BY <1>3, <2>1, StartPassBegins DEF RunPass
<1> QED BY <1>1, <1>2, <1>3

LEMMA TickKind == ASSUME OutboxInv, Tick PROVE (Begins \/ Signals) /\ orphans' = orphans
BY RunPassKind DEF Tick, OutboxInv, OutboxShape

LEMMA GoOnlineKind == ASSUME OutboxInv, GoOnline PROVE (Begins \/ Signals) /\ orphans' = orphans
<1>1. PICK d : d = [driver EXCEPT !.online = TRUE] OBVIOUS
<1>2. d \in Driver /\ d.running = driver.running BY <1>1 DEF OutboxInv, OutboxShape, Driver
<1> QED BY <1>1, <1>2, RunPassKind DEF GoOnline

LEMMA NextSliceKind == ASSUME OutboxInv, NextSlice PROVE Begins /\ orphans' = orphans
<1>1. driver \in Driver /\ row \in Rows /\ pass.deferred \in SUBSET Events BY DEF OutboxInv, OutboxShape
<1>2. pass.pc = "next" /\ orphans' = orphans BY DEF NextSlice
<1>3. PICK batch : batch = Slice(pass.deferred) OBVIOUS
<1>4. batch \in SUBSET Events /\ \A e \in batch : row[e] = "pending" BY <1>3, SliceIsPending
<1>5. CASE Flushing(driver, batch, pass.deferred) /\ UNCHANGED row
  <2>1. Posted' BY <1>1, <1>4, <1>5, FlushingPosts
  <2> QED BY <1>1, <1>2, <1>5, <2>1 DEF Begins
<1>6. CASE NotFlushing(driver) /\ UNCHANGED row
  <2>1. Resting' BY <1>1, <1>6, NotFlushingRests
  <2> QED BY <1>1, <1>2, <1>6, <2>1 DEF Begins
<1>7. CASE StartPass([driver EXCEPT !.queued = FALSE])
  <2>1. [driver EXCEPT !.queued = FALSE] \in Driver BY <1>1 DEF Driver
  <2> QED BY <1>2, <1>7, <2>1, StartPassBegins
<1> QED BY <1>3, <1>5, <1>6, <1>7 DEF NextSlice, PassEnds

LEMMA PostFailsKind == ASSUME OutboxInv, PostFails PROVE GivesUp
<1>1. Resting' BY NotFlushingRests DEF PostFails, OutboxInv, OutboxShape
<1>2. orphans' = orphans \/ (exchange.state = "sent" /\ orphans' = orphans \cup {pass.batch})
  <2>1. PICK lost \in Orphaned : orphans' = orphans \cup lost BY DEF PostFails
  <2>2. lost = {} \/ (exchange.state = "sent" /\ lost = {pass.batch}) BY DEF Orphaned
  <2>3. orphans \cup {} = orphans OBVIOUS
  <2> QED BY <2>1, <2>2, <2>3
<1> QED BY <1>1, <1>2 DEF GivesUp, PostFails

LEMMA ClientRestartsKind == ASSUME OutboxInv, ClientRestarts PROVE GivesUp
<1>1. Resting'
  <2>1. PICK k : k = [driver EXCEPT !.running = FALSE] OBVIOUS
  <2>2. k \in Driver /\ k.running = FALSE BY <2>1 DEF OutboxInv, OutboxShape, Driver
  <2>3. driver' = [k EXCEPT !.queued = FALSE] BY <2>1 DEF ClientRestarts, OutboxInv, OutboxShape, Driver
  <2>4. driver' \in Driver /\ driver'.running = FALSE BY <2>2, <2>3 DEF Driver
  <2> QED BY <2>4 DEF ClientRestarts, Resting
<1>2. orphans' = orphans \/ (exchange.state = "sent" /\ orphans' = orphans \cup {pass.batch})
  <2>1. PICK lost \in Orphaned : orphans' = orphans \cup lost BY DEF ClientRestarts
  <2>2. lost = {} \/ (exchange.state = "sent" /\ lost = {pass.batch}) BY DEF Orphaned
  <2>3. orphans \cup {} = orphans OBVIOUS
  <2> QED BY <2>1, <2>2, <2>3
<1> QED BY <1>1, <1>2 DEF GivesUp, ClientRestarts

LEMMA SignalKinds ==
    ASSUME OutboxInv, GoOffline \/ RetryBecomesDue PROVE Signals /\ orphans' = orphans
<1>1. CASE GoOffline BY <1>1 DEF GoOffline, Signals, OutboxInv, OutboxShape, Driver
<1>2. CASE RetryBecomesDue BY <1>2 DEF RetryBecomesDue, Signals, OutboxInv, OutboxShape
<1> QED BY <1>1, <1>2

-----------------------------------------------------------------------------
(***************************************************************************)
(* The client's state is well formed.                                      *)
(***************************************************************************)
LEMMA RestingInv ==
    ASSUME row' \in Rows, Counts', Resting' PROVE OutboxInv'
<1>1. /\ pass' \in [pc : Places, batch : SUBSET Events, acks : {pass'.acks}, deferred : SUBSET Events]
      /\ pass'.pc = "idle" /\ pass'.acks = NoAcks
      /\ exchange' \in [state : {"none", "sent", "answered", "failed"}, acks : {exchange'.acks}]
      /\ exchange'.state = "none" /\ exchange'.acks = NoAcks
  BY NoPassShape DEF Resting, Places
<1>2. OutboxShape' BY <1>1, NoAcksShape DEF OutboxShape, Counts, Resting
<1>3. OnePass' BY <1>1 DEF OnePass, Resting
<1>4. DeletedFirst' BY <1>1 DEF DeletedFirst
<1> QED BY <1>2, <1>3, <1>4 DEF OutboxInv

LEMMA PostedInv ==
    ASSUME row' \in Rows, Counts', Posted' PROVE OutboxInv'
<1>1. /\ pass' \in [pc : Places, batch : SUBSET Events, acks : {pass'.acks}, deferred : SUBSET Events]
      /\ pass'.pc = "posting" /\ pass'.acks = NoAcks
      /\ exchange' \in [state : {"none", "sent", "answered", "failed"}, acks : {exchange'.acks}]
      /\ exchange'.state = "sent" /\ exchange'.acks = NoAcks
  BY DEF Posted, Places
<1>2. OutboxShape' BY <1>1, NoAcksShape DEF OutboxShape, Counts, Posted
<1>3. OnePass' BY <1>1 DEF OnePass, Posted
<1>4. DeletedFirst' BY <1>1 DEF DeletedFirst
<1> QED BY <1>2, <1>3, <1>4 DEF OutboxInv

LEMMA BeginsInv == ASSUME Counts', Begins PROVE OutboxInv'
BY RestingInv, PostedInv DEF Begins

LEMMA SignalsInv == ASSUME OutboxInv, Counts', Signals PROVE OutboxInv'
<1>1. OutboxShape' BY DEF OutboxInv, OutboxShape, Counts, Signals
<1>2. OnePass' BY DEF OutboxInv, OnePass, Signals
<1>3. DeletedFirst' BY DEF OutboxInv, DeletedFirst, Signals, With
<1> QED BY <1>1, <1>2, <1>3 DEF OutboxInv

\* A step that leaves the client alone.
LEMMA ElsewhereInv ==
    ASSUME OutboxInv, Counts', UNCHANGED <<row, driver, pass, exchange>> PROVE OutboxInv'
<1>1. Signals BY DEF Signals, OutboxInv, OutboxShape
<1> QED BY <1>1, SignalsInv

LEMMA GivesUpInv == ASSUME OutboxInv, copies' = copies, troubles' \in Nat, GivesUp PROVE OutboxInv'
<1>1. Counts'
  <2>1. orphans' \subseteq SUBSET Events BY DEF OutboxInv, OutboxShape, GivesUp
  <2>2. IsFiniteSet(orphans') BY FS_AddElement DEF OutboxInv, OutboxShape, GivesUp
  <2> QED BY <2>1, <2>2 DEF Counts, OutboxInv, OutboxShape
<1>2. row' \in Rows BY DEF OutboxInv, OutboxShape, GivesUp
<1> QED BY <1>1, <1>2, RestingInv DEF GivesUp

LEMMA AppendEventInv ==
    ASSUME OutboxInv, NEW e \in Events, AppendEvent(e), copies' = copies, troubles' = troubles PROVE OutboxInv'
<1>1. row' \in Rows /\ \A d \in Events : row'[d] = IF d = e THEN "pending" ELSE row[d]
  BY DEF AppendEvent, OutboxInv, OutboxShape, Rows
<1>2. driver' \in Driver /\ driver'.running = driver.running BY DEF AppendEvent, OutboxInv, OutboxShape, Driver
<1>3. UNCHANGED <<pass, exchange, orphans>> /\ row[e] = "none" BY DEF AppendEvent
<1>4. OutboxShape' BY <1>1, <1>2, <1>3 DEF OutboxInv, OutboxShape
<1>5. OnePass' BY <1>1, <1>2, <1>3 DEF OutboxInv, OutboxShape, OnePass
<1>6. DeletedFirst'
  <2>1. \A d \in With({"acked"}) : d \in Events BY DEF With, OutboxInv, OutboxShape, AcksShape
  <2>2. With({"acked"})' = With({"acked"}) BY <1>3 DEF With
  <2> QED BY <1>1, <1>3, <2>1, <2>2 DEF OutboxInv, DeletedFirst
<1> QED BY <1>4, <1>5, <1>6 DEF OutboxInv

LEMMA PostAnsweredInv ==
    ASSUME OutboxInv, PostAnswered, copies' = copies, troubles' = troubles PROVE OutboxInv'
<1>1. PICK acks : acks = exchange.acks OBVIOUS
<1>2. PICK k : k = [pass EXCEPT !.pc = "defer"] OBVIOUS
<1>3. /\ k \in [pc : Places, batch : SUBSET Events, acks : {pass.acks}, deferred : SUBSET Events]
      /\ k.pc = "defer"
  BY <1>2 DEF OutboxInv, OutboxShape, Places
<1>4. pass' = [k EXCEPT !.acks = acks] BY <1>1, <1>2 DEF PostAnswered, OutboxInv, OutboxShape
<1>5. /\ pass' \in [pc : Places, batch : SUBSET Events, acks : {pass'.acks}, deferred : SUBSET Events]
      /\ pass'.pc = "defer" /\ pass'.acks = acks
  BY <1>3, <1>4
<1>6. exchange' = NoExchange /\ UNCHANGED <<row, driver, orphans>> /\ pass.pc = "posting" BY DEF PostAnswered
<1>7. /\ exchange' \in [state : {"none", "sent", "answered", "failed"}, acks : {exchange'.acks}]
      /\ exchange'.state = "none" /\ exchange'.acks = NoAcks
  BY <1>6, NoPassShape
<1>8. OutboxShape' BY <1>1, <1>5, <1>6, <1>7, NoAcksShape DEF OutboxInv, OutboxShape
<1>9. OnePass' BY <1>5, <1>6, <1>7 DEF OutboxInv, OnePass
<1>10. DeletedFirst' BY <1>5 DEF DeletedFirst
<1> QED BY <1>8, <1>9, <1>10 DEF OutboxInv

LEMMA SettleDefersInv ==
    ASSUME OutboxInv, SettleDefers, copies' = copies, troubles' = troubles PROVE OutboxInv'
<1>1. With({"deferred"}) \subseteq Events BY DEF With, OutboxInv, OutboxShape, AcksShape
<1>2. PICK k : k = [pass EXCEPT !.pc = "delete"] OBVIOUS
<1>3. /\ k \in [pc : Places, batch : SUBSET Events, acks : {pass.acks}, deferred : SUBSET Events]
      /\ k.pc = "delete" /\ k.acks = pass.acks /\ k.deferred = pass.deferred
  BY <1>2 DEF OutboxInv, OutboxShape, Places
<1>4. PICK ds : ds = pass.deferred \cup With({"deferred"}) OBVIOUS
<1>5. ds \in SUBSET Events BY <1>1, <1>4 DEF OutboxInv, OutboxShape
<1>6. pass' = [k EXCEPT !.deferred = ds] BY <1>2, <1>4 DEF SettleDefers, OutboxInv, OutboxShape
<1>7. /\ pass' \in [pc : Places, batch : SUBSET Events, acks : {pass'.acks}, deferred : SUBSET Events]
      /\ pass'.pc = "delete" /\ pass'.acks = pass.acks
  BY <1>3, <1>5, <1>6
<1>8. UNCHANGED <<row, driver, exchange, orphans>> /\ pass.pc = "defer" BY DEF SettleDefers
<1>9. OutboxShape' BY <1>7, <1>8 DEF OutboxInv, OutboxShape
<1>10. OnePass' BY <1>7, <1>8 DEF OutboxInv, OnePass
<1>11. DeletedFirst' BY <1>7 DEF DeletedFirst
<1> QED BY <1>9, <1>10, <1>11 DEF OutboxInv

LEMMA SettleDeletesInv ==
    ASSUME OutboxInv, SettleDeletes, copies' = copies, troubles' = troubles PROVE OutboxInv'
<1>1. /\ pass' \in [pc : Places, batch : SUBSET Events, acks : {pass'.acks}, deferred : SUBSET Events]
      /\ pass'.pc = "stamp" /\ pass'.acks = pass.acks
  BY DEF SettleDeletes, OutboxInv, OutboxShape, Places
<1>2. UNCHANGED <<driver, exchange, orphans>> /\ pass.pc = "delete" BY DEF SettleDeletes
<1>3. \A e \in Events : row'[e] = IF e \in Deletable THEN "deleted" ELSE row[e] BY DEF SettleDeletes
<1>4. row' \in Rows BY DEF SettleDeletes, OutboxInv, OutboxShape, Rows
<1>5. OutboxShape' BY <1>1, <1>2, <1>4 DEF OutboxInv, OutboxShape
<1>6. OnePass' BY <1>1, <1>2 DEF OutboxInv, OnePass
<1>7. DeletedFirst'
  <2> SUFFICES ASSUME ~RetainsAcked, NEW e \in With({"acked"})' PROVE row'[e] = "deleted" BY DEF DeletedFirst
  <2>1. e \in With({"acked"}) BY <1>1 DEF With
  <2>2. e \in Events BY <2>1 DEF With, OutboxInv, OutboxShape, AcksShape
  <2>3. e \in Deletable BY <2>1 DEF With, Deletable
  <2> QED BY <1>3, <2>2, <2>3
<1> QED BY <1>5, <1>6, <1>7 DEF OutboxInv

LEMMA SettleStampsInv ==
    ASSUME OutboxInv, SettleStamps, copies' = copies, troubles' = troubles PROVE OutboxInv'
<1>1. /\ pass' \in [pc : Places, batch : SUBSET Events, acks : {pass'.acks}, deferred : SUBSET Events]
      /\ pass'.pc = "next" /\ pass'.acks = pass.acks
  BY DEF SettleStamps, OutboxInv, OutboxShape, Places
<1>2. UNCHANGED <<driver, exchange, orphans>> /\ pass.pc = "stamp" BY DEF SettleStamps
<1>3. row' \in Rows BY DEF SettleStamps, Stamped, OutboxInv, OutboxShape, Rows
<1>4. OutboxShape' BY <1>1, <1>2, <1>3 DEF OutboxInv, OutboxShape
<1>5. OnePass' BY <1>1, <1>2 DEF OutboxInv, OnePass
<1>6. DeletedFirst' BY <1>1 DEF DeletedFirst
<1> QED BY <1>4, <1>5, <1>6 DEF OutboxInv

LEMMA EnqueueCounts ==
    ASSUME OutboxInv, NEW batch \in SUBSET Events, EnqueueBatch(batch)
    PROVE  /\ copies' \in [Events -> Nat]
           /\ \A e \in Events : copies'[e] = copies[e] + IF e \in batch /\ Verdict(e) = "acked" THEN 1 ELSE 0
<1>1. \A e \in Events : copies[e] \in Nat BY DEF OutboxInv, OutboxShape
<1>2. copies' = [e \in Events |-> copies[e] + IF e \in batch /\ Verdict(e) = "acked" THEN 1 ELSE 0]
  BY DEF EnqueueBatch
<1>3. \A e \in Events : copies'[e] = copies[e] + IF e \in batch /\ Verdict(e) = "acked" THEN 1 ELSE 0 BY <1>2
<1>4. \A e \in Events : copies'[e] \in Nat BY <1>1, <1>3
<1> QED BY <1>2, <1>3, <1>4

LEMMA IngestInv == ASSUME OutboxInv, Ingest PROVE OutboxInv'
<1>1. pass.batch \in SUBSET Events BY DEF OutboxInv, OutboxShape
<1>2. copies' \in [Events -> Nat] BY <1>1, EnqueueCounts DEF Ingest
<1>3. PICK acks : acks = [e \in pass.batch |-> Verdict(e)] OBVIOUS
<1>4. exchange' = [state |-> "answered", acks |-> acks] /\ exchange.state = "sent" BY <1>3 DEF Ingest
<1>5. UNCHANGED <<row, driver, pass, orphans, troubles>> BY DEF Ingest
<1>6. AcksShape(acks) BY <1>1, <1>3 DEF AcksShape, Verdict, Verdicts
<1>7. OutboxShape' BY <1>2, <1>4, <1>5, <1>6 DEF OutboxInv, OutboxShape
<1>8. OnePass' BY <1>4, <1>5 DEF OutboxInv, OnePass
<1>9. DeletedFirst' BY <1>5 DEF OutboxInv, DeletedFirst, With
<1> QED BY <1>7, <1>8, <1>9 DEF OutboxInv

LEMMA IngestRefusesInv == ASSUME OutboxInv, IngestRefuses, troubles' \in Nat PROVE OutboxInv'
<1>1. exchange' = [state |-> "failed", acks |-> NoAcks] /\ exchange.state = "sent"
  BY DEF IngestRefuses, NoExchange
<1>2. UNCHANGED <<row, driver, pass, orphans, copies>> BY DEF IngestRefuses
<1>3. OutboxShape' BY <1>1, <1>2, NoAcksShape DEF OutboxInv, OutboxShape
<1>4. OnePass' BY <1>1, <1>2 DEF OutboxInv, OnePass
<1>5. DeletedFirst' BY <1>2 DEF OutboxInv, DeletedFirst, With
<1> QED BY <1>3, <1>4, <1>5 DEF OutboxInv

LEMMA IngestOrphanInv == ASSUME OutboxInv, IngestOrphan PROVE OutboxInv'
<1>1. PICK batch \in orphans : EnqueueBatch(batch) /\ orphans' = orphans \ {batch} BY DEF IngestOrphan
<1>2. batch \in SUBSET Events BY DEF OutboxInv, OutboxShape
<1>3. copies' \in [Events -> Nat] BY <1>1, <1>2, EnqueueCounts
<1>4. orphans' \subseteq SUBSET Events /\ IsFiniteSet(orphans')
  BY <1>1, FS_RemoveElement DEF OutboxInv, OutboxShape
<1>5. UNCHANGED <<row, driver, pass, exchange, troubles>> BY DEF IngestOrphan
<1>6. Counts' BY <1>3, <1>4, <1>5 DEF Counts, OutboxInv, OutboxShape
<1> QED BY <1>5, <1>6, ElsewhereInv

-----------------------------------------------------------------------------
(***************************************************************************)
(* Both halves together.                                                   *)
(***************************************************************************)
Base == ConsumerInv /\ OutboxInv

\* What the steps of the consumer leave alone.
LEMMA ConsumeElsewhere ==
    ASSUME Consume PROVE UNCHANGED <<row, driver, pass, exchange, orphans, copies, troubles>>
BY DEF Consume, Consumer, Reads, CallbackEnds, Settles, outboxVars

\* The troubles of the consumer.
ConsumerTroubles ==
    /\ UNCHANGED <<row, driver, pass, exchange, orphans, copies>>
    /\ Trouble

LEMMA TroublesKind ==
    ASSUME Troubles
    PROVE  \/ ClientTrouble(GoOffline)
           \/ ClientTrouble(ConnectionLost)
           \/ ClientTrouble(ClientRestarts)
           \/ IngestRefuses /\ Trouble
           \/ ConsumerTroubles
<1>1. RenewalLost => ConsumerTroubles BY DEF RenewalLost, ConsumerTroubles, outboxVars
<1>2. ASSUME NEW s \in QueueStreams, ConsumerTrouble(Corrupt(s)) PROVE ConsumerTroubles
  BY <1>2 DEF ConsumerTrouble, ConsumerTroubles, outboxVars
<1>3. ConsumerTrouble(RequeueDeadLetter) => ConsumerTroubles BY DEF ConsumerTrouble, ConsumerTroubles, outboxVars
<1>4. ASSUME NEW p \in Processes, ConsumerTrouble(Stop(p)) \/ ConsumerTrouble(Dies(p)) PROVE ConsumerTroubles
  BY <1>4 DEF ConsumerTrouble, ConsumerTroubles, outboxVars
<1>5. ASSUME NEW p \in Processes, NEW s \in QueueStreams, NEW h \in work[p][s].active,
             ConsumerTrouble(AckFails(p, s, h)) \/ ConsumerTrouble(ArchiveFails(p, s, h))
      PROVE  ConsumerTroubles
  BY <1>5 DEF ConsumerTrouble, ConsumerTroubles, outboxVars
<1> QED BY <1>1, <1>2, <1>3, <1>4, <1>5 DEF Troubles

LEMMA InitOutboxInv == ASSUME Init PROVE OutboxInv
<1>1. row \in Rows /\ driver \in Driver /\ driver.running = FALSE /\ pass = NoPass /\ exchange = NoExchange
  BY DEF Init, OutboxInit, Rows, Driver
<1>2. orphans \subseteq SUBSET Events /\ IsFiniteSet(orphans) BY FS_EmptySet DEF Init, OutboxInit
<1>3. copies \in [Events -> Nat] /\ troubles \in Nat BY DEF Init
<1>4. /\ pass \in [pc : Places, batch : SUBSET Events, acks : {pass.acks}, deferred : SUBSET Events]
      /\ pass.pc = "idle" /\ pass.acks = NoAcks
      /\ exchange \in [state : {"none", "sent", "answered", "failed"}, acks : {exchange.acks}]
      /\ exchange.state = "none" /\ exchange.acks = NoAcks
  BY <1>1, NoPassShape DEF Places
<1>5. OutboxShape BY <1>1, <1>2, <1>3, <1>4, NoAcksShape DEF OutboxShape
<1>6. OnePass BY <1>1, <1>4 DEF OnePass
<1>7. DeletedFirst BY <1>4 DEF DeletedFirst
<1> QED BY <1>5, <1>6, <1>7 DEF OutboxInv

LEMMA BaseStep == ASSUME Base, [Next]_vars PROVE Base'
<1>1. Counts BY DEF Base, OutboxInv, OutboxShape, Counts
<1>2. troubles \in Nat BY <1>1 DEF Counts
<1>3. Trouble => troubles' \in Nat BY <1>2 DEF Trouble
<1>4. ASSUME NEW ACTION A, Client(A) PROVE ConsumerInv' /\ UNCHANGED <<copies, troubles>>
  <2>1. UNCHANGED <<queue, issued, archive, work, done, overlapped, copies, troubles>> BY <1>4 DEF Client, consumerVars
  <2> QED BY <2>1, QueueStutters DEF Base
<1>5. ASSUME NEW e \in Events, Client(AppendEvent(e)) PROVE Base'
  BY <1>4, <1>5, AppendEventInv DEF Base, Client
<1>6. ASSUME Flush PROVE Base'
  <2>1. ASSUME Begins \/ Signals, UNCHANGED <<copies, troubles, orphans>> PROVE OutboxInv'
    <3>1. Counts' BY <1>1, <2>1 DEF Counts
    <3> QED BY <2>1, <3>1, BeginsInv, SignalsInv DEF Base
  <2>2. ASSUME Client(Tick) PROVE Base' BY <1>4, <2>1, <2>2, TickKind DEF Base, Client
  <2>3. ASSUME Client(GoOnline) PROVE Base' BY <1>4, <2>1, <2>3, GoOnlineKind DEF Base, Client
  <2>4. ASSUME Client(NextSlice) PROVE Base' BY <1>4, <2>1, <2>4, NextSliceKind DEF Base, Client
  <2>5. ASSUME Client(RetryBecomesDue) PROVE Base' BY <1>4, <2>1, <2>5, SignalKinds DEF Base, Client
  <2>6. ASSUME Client(PostAnswered) PROVE Base' BY <1>4, <2>6, PostAnsweredInv DEF Base, Client
  <2>7. ASSUME Client(PostAnsweredBadly) PROVE Base'
    BY <1>2, <1>4, <2>7, PostFailsKind, GivesUpInv DEF Base, Client, PostAnsweredBadly
  <2>8. ASSUME Client(SettleDefers) PROVE Base' BY <1>4, <2>8, SettleDefersInv DEF Base, Client
  <2>9. ASSUME Client(SettleDeletes) PROVE Base' BY <1>4, <2>9, SettleDeletesInv DEF Base, Client
  <2>10. ASSUME Client(SettleStamps) PROVE Base' BY <1>4, <2>10, SettleStampsInv DEF Base, Client
  <2> QED BY <1>6, <2>2, <2>3, <2>4, <2>5, <2>6, <2>7, <2>8, <2>9, <2>10 DEF Flush
<1>7. ASSUME Ingest PROVE Base'
  <2>1. pass.batch \in SUBSET Events BY DEF Base, OutboxInv, OutboxShape
  <2>2. ConsumerInv' BY <1>7, <2>1, EnqueueInv DEF Base, Ingest
  <2> QED BY <1>7, <2>2, IngestInv DEF Base
<1>8. ASSUME IngestOrphan PROVE Base'
  <2>1. PICK batch \in orphans : EnqueueBatch(batch) BY <1>8 DEF IngestOrphan
  <2>2. batch \in SUBSET Events BY DEF Base, OutboxInv, OutboxShape
  <2>3. ConsumerInv' BY <1>8, <2>1, <2>2, EnqueueInv DEF Base, IngestOrphan
  <2> QED BY <1>8, <2>3, IngestOrphanInv DEF Base
<1>9. ASSUME Register \/ UNCHANGED vars PROVE Base'
  <2>1. UNCHANGED <<queue, issued, archive, work, done, overlapped>>
    BY <1>9 DEF Register, vars, consumerVars
  <2>2. UNCHANGED <<row, driver, pass, exchange, orphans, copies, troubles>> BY <1>9 DEF Register, vars, outboxVars
  <2>3. Counts' BY <1>1, <2>2 DEF Counts
  <2> QED BY <2>1, <2>2, <2>3, QueueStutters, ElsewhereInv DEF Base
<1>10. ASSUME Consume PROVE Base'
  <2>1. Counts' BY <1>1, <1>10, ConsumeElsewhere DEF Counts
  <2> QED BY <1>10, <2>1, ConsumeElsewhere, ConsumeInv, ElsewhereInv DEF Base
<1>11. ASSUME Troubles PROVE Base'
  <2>1. ConsumerInv' BY <1>11, TroublesInv DEF Base
  <2>2. ASSUME ClientTrouble(GoOffline) PROVE OutboxInv'
    <3>1. Signals /\ orphans' = orphans BY <2>2, SignalKinds DEF Base, ClientTrouble
    <3>2. Counts' BY <1>1, <1>3, <2>2, <3>1 DEF Counts, ClientTrouble
    <3> QED BY <3>1, <3>2, SignalsInv DEF Base
  <2>3. ASSUME ClientTrouble(ConnectionLost) \/ ClientTrouble(ClientRestarts) PROVE OutboxInv'
    <3>1. GivesUp BY <2>3, PostFailsKind, ClientRestartsKind DEF Base, ClientTrouble, ConnectionLost
    <3>2. copies' = copies /\ troubles' \in Nat BY <1>3, <2>3 DEF ClientTrouble
    <3> QED BY <3>1, <3>2, GivesUpInv DEF Base
  <2>4. ASSUME IngestRefuses /\ Trouble PROVE OutboxInv' BY <1>3, <2>4, IngestRefusesInv DEF Base
  <2>5. ASSUME ConsumerTroubles PROVE OutboxInv'
    <3>1. Counts' BY <1>1, <1>3, <2>5 DEF Counts, ConsumerTroubles
    <3> QED BY <2>5, <3>1, ElsewhereInv DEF Base, ConsumerTroubles
  <2> QED BY <1>11, <2>1, <2>2, <2>3, <2>4, <2>5, TroublesKind DEF Base
<1> QED BY <1>5, <1>6, <1>7, <1>8, <1>9, <1>10, <1>11 DEF Next

LEMMA BaseHolds == Spec => []Base
<1>1. Init => Base BY InitConsumerInv, InitOutboxInv DEF Base
<1>2. Base /\ [Next]_vars => Base' BY BaseStep
<1> QED BY <1>1, <1>2, PTL DEF Spec

\* Two runners never have a callback on one message at once while no renewal has
\* failed: what a runner works on it renews, what is renewed is leased, and a read
\* takes nothing that is leased (startRenewal, releaseUnstarted, pgmq.read).
THEOREM OneCallbackTheorem == Spec => []OneCallbackPerMessage
<1>1. Base => OneCallbackPerMessage
  <2> SUFFICES ASSUME ConsumerInv, ~overlapped,
                      NEW p \in Processes, NEW q \in Processes, NEW s \in QueueStreams, NEW t \in QueueStreams,
                      NEW g \in work[p][s].active, NEW h \in work[q][t].active,
                      g.id = h.id, {g.pc, h.pc} \subseteq {"callback", "ack"}
               PROVE  p = q /\ g = h
    BY DEF Base, OneCallbackPerMessage
  <2>1. g.id \in work[p][s].held /\ h.id \in work[q][t].held BY DEF ConsumerInv, Sound, Working
  <2>2. p = q /\ s = t BY <2>1 DEF ConsumerInv, Exclusive, HeldOnce
  <2>3. Sound(work[p][s]) BY DEF ConsumerInv
  <2> QED BY <2>2, <2>3 DEF Sound
<1> QED BY <1>1, BaseHolds, PTL

-----------------------------------------------------------------------------
(***************************************************************************)
(* Nothing is lost.                                                        *)
(***************************************************************************)
\* Every event stays where it is kept, or moves on.
Keeps ==
    /\ done \subseteq done'
    /\ \A m \in queue \cup archive : m.events \subseteq done' \/ \E n \in queue' \cup archive' : m.events \subseteq n.events

LEMMA KeptStays == ASSUME Keeps, NEW e, Kept(e) PROVE Kept(e)'
BY DEF Keeps, Kept

LEMMA StayingKeeps ==
    ASSUME queue \subseteq queue', archive \subseteq archive', done \subseteq done' PROVE Keeps
BY DEF Keeps

LEMMA SettlesKeeps ==
    ASSUME ConsumerInv, NEW p \in Processes, NEW s \in QueueStreams, Settles(p, s) PROVE Keeps
<1>1. ASSUME NEW h \in work[p][s].active, Ack(p, s, h) PROVE Keeps
  <2>1. Sound(work[p][s]) BY DEF ConsumerInv
  <2>2. \A m \in queue : m.id = h.id => m.events \subseteq done BY <1>1, <2>1 DEF Sound, Ack, Working
  <2> QED BY <1>1, <2>2 DEF Ack, Keeps
<1>2. ASSUME NEW h \in work[p][s].active, ArchiveMoves(p, s, h) PROVE Keeps
  <2>1. done' = done /\ archive \subseteq archive' BY <1>2 DEF ArchiveMoves
  <2>2. ASSUME NEW m \in queue PROVE \E n \in queue' \cup archive' : m.events \subseteq n.events
    <3>1. CASE m.id # h.id BY <1>2, <3>1 DEF ArchiveMoves
    <3>2. CASE m.id = h.id
      <4>1. PICK n : n = [id |-> m.id, stream |-> m.stream, events |-> m.events, bad |-> m.bad,
                          attempts |-> h.count, reported |-> FALSE]
        OBVIOUS
      <4>2. n \in archive' BY <1>2, <3>2, <4>1 DEF ArchiveMoves
      <4> QED BY <4>1, <4>2
    <3> QED BY <3>1, <3>2
  <2> QED BY <2>1, <2>2 DEF Keeps
<1>3. ASSUME NEW h \in work[p][s].active, ArchiveStamps(p, s, h) PROVE Keeps
  <2>1. done' = done /\ queue' = queue BY <1>3 DEF ArchiveStamps
  <2>2. \A m \in archive : [m EXCEPT !.reported = TRUE].events = m.events
    BY DEF ConsumerInv, ConsumerShape, LetterShape
  <2>3. \A m \in archive : \E n \in archive' : m.events = n.events BY <1>3, <2>2 DEF ArchiveStamps
  <2> QED BY <2>1, <2>3 DEF Keeps
<1> QED BY <1>1, <1>2, <1>3 DEF Settles, Consumer

LEMMA ConsumeKeeps == ASSUME ConsumerInv, Consume PROVE Keeps
<1>1. ASSUME Consumer(LeaseLapses) PROVE Keeps
  <2>1. PICK m \in queue : Lapse(m) BY <1>1 DEF Consumer, LeaseLapses
  <2>2. [m EXCEPT !.leased = FALSE].events = m.events BY DEF ConsumerInv, ConsumerShape, MessageShape
  <2>3. done' = done /\ archive' = archive BY <1>1 DEF Consumer, LeaseLapses
  <2> QED BY <2>1, <2>2, <2>3 DEF Lapse, Keeps
<1>2. ASSUME NEW p \in Processes, Consumer(Spawn(p)) \/ Consumer(Ends(p)) PROVE Keeps
  BY <1>2, StayingKeeps DEF Consumer, Spawn, Ends
<1>3. ASSUME NEW p \in Processes, NEW s \in QueueStreams, Consumer(ReadEmpty(p, s)) PROVE Keeps
  BY <1>3, StayingKeeps DEF Consumer, ReadEmpty
<1>4. ASSUME NEW p \in Processes, NEW s \in QueueStreams, Consumer(ReadBatch(p, s)) PROVE Keeps
  <2>1. /\ queue' = (queue \ Oldest(s)) \cup Leased(Oldest(s))
        /\ done' = done /\ archive' = archive
    BY <1>4 DEF Consumer, ReadBatch
  <2>2. ASSUME NEW m \in queue PROVE \E n \in queue' : m.events \subseteq n.events
    <3>1. CASE m \in Oldest(s)
      <4>1. PICK n : n = [m EXCEPT !.leased = TRUE, !.count = @ + 1] OBVIOUS
      <4>2. n.events = m.events BY <4>1 DEF ConsumerInv, ConsumerShape, MessageShape
      <4>3. n \in Leased(Oldest(s)) BY <3>1, <4>1 DEF Leased
      <4> QED BY <2>1, <4>2, <4>3
    <3>2. CASE m \notin Oldest(s) BY <2>1, <3>2
    <3> QED BY <3>1, <3>2
  <2> QED BY <2>1, <2>2 DEF Keeps
<1>5. ASSUME NEW p \in Processes, NEW s \in QueueStreams, Consumer(StartCallback(p, s)) \/ CallbackEnds(p, s) PROVE Keeps
  BY <1>5, StayingKeeps DEF Consumer, StartCallback, CallbackEnds, CallbackReturns, CallbackThrows
<1> QED BY <1>1, <1>2, <1>3, <1>4, <1>5, SettlesKeeps DEF Consume, Reads

LEMMA TroublesKeeps == ASSUME ConsumerInv, Troubles PROVE Keeps
<1>1. ASSUME ClientTrouble(GoOffline) \/ ClientTrouble(ConnectionLost) \/ ClientTrouble(ClientRestarts) \/ IngestRefuses
      PROVE  Keeps
  BY <1>1, StayingKeeps DEF ClientTrouble, IngestRefuses, consumerVars
<1>2. ASSUME RenewalLost PROVE Keeps
  <2>1. PICK m \in queue : Lapse(m) BY <1>2 DEF RenewalLost, RenewalFails
  <2>2. [m EXCEPT !.leased = FALSE].events = m.events BY DEF ConsumerInv, ConsumerShape, MessageShape
  <2>3. done' = done /\ archive' = archive BY <1>2 DEF RenewalLost, RenewalFails
  <2> QED BY <2>1, <2>2, <2>3 DEF Lapse, Keeps
<1>3. ASSUME NEW s \in QueueStreams, ConsumerTrouble(Corrupt(s)) PROVE Keeps
  BY <1>3, StayingKeeps DEF ConsumerTrouble, Corrupt
<1>4. ASSUME ConsumerTrouble(RequeueDeadLetter) PROVE Keeps
  <2>1. PICK l \in archive : /\ archive' = archive \ {l}
                             /\ queue' = queue \cup {Message(issued + 1, l.stream, l.events, FALSE)}
    BY <1>4 DEF ConsumerTrouble, RequeueDeadLetter
  <2>2. Message(issued + 1, l.stream, l.events, FALSE).events = l.events BY DEF Message
  <2>3. done' = done BY <1>4 DEF ConsumerTrouble, RequeueDeadLetter
  <2> QED BY <2>1, <2>2, <2>3 DEF Keeps
<1>5. ASSUME NEW p \in Processes, ConsumerTrouble(Stop(p)) \/ ConsumerTrouble(Dies(p)) PROVE Keeps
  BY <1>5, StayingKeeps DEF ConsumerTrouble, Stop, Dies
<1>6. ASSUME NEW p \in Processes, NEW s \in QueueStreams, NEW h \in work[p][s].active,
             ConsumerTrouble(AckFails(p, s, h)) \/ ConsumerTrouble(ArchiveFails(p, s, h))
      PROVE  Keeps
  BY <1>6, StayingKeeps DEF ConsumerTrouble, AckFails, ArchiveFails
<1> QED BY <1>1, <1>2, <1>3, <1>4, <1>5, <1>6 DEF Troubles

LEMMA NextKeeps == ASSUME Base, [Next]_vars PROVE Keeps
<1>1. ASSUME NEW ACTION A, Client(A) PROVE Keeps BY <1>1, StayingKeeps DEF Client, consumerVars
<1>2. Flush => Keeps BY <1>1 DEF Flush
<1>3. ASSUME NEW batch \in SUBSET Events, EnqueueBatch(batch), UNCHANGED <<archive, done>> PROVE Keeps
  BY <1>3, StayingKeeps, EnqueueAdds DEF Base, ConsumerInv, ConsumerShape
<1>4. Ingest => Keeps BY <1>3 DEF Ingest, Base, OutboxInv, OutboxShape
<1>5. IngestOrphan => Keeps BY <1>3 DEF IngestOrphan, Base, OutboxInv, OutboxShape
<1>6. Register \/ UNCHANGED vars => Keeps BY StayingKeeps DEF Register, vars, consumerVars
<1>7. Consume => Keeps BY ConsumeKeeps DEF Base
<1>8. Troubles => Keeps BY TroublesKeeps DEF Base
<1> QED BY <1>1, <1>2, <1>4, <1>5, <1>6, <1>7, <1>8 DEF Next

LEMMA HonouredStays ==
    ASSUME NEW acks, Honoured(acks), Keeps PROVE Honoured(acks)'
<1>1. \A e \in DOMAIN acks : acks[e] = "acked" => Kept(e)' BY KeptStays DEF Honoured
<1> QED BY <1>1 DEF Honoured

\* A step that gives up no row a verdict does not allow it to.
LEMMA FatesStep ==
    ASSUME Fates, Keeps, Honoured(pass.acks)', Honoured(exchange.acks)',
           \A e \in Events : row'[e] \in {"stamped", "deleted"} =>
              \/ row[e] \in {"stamped", "deleted"}
              \/ e \in DOMAIN pass.acks /\ pass.acks[e] \in {"acked", "refused", "rejected"}
    PROVE  Fates'
<1>1. \A e \in Events : row'[e] \in {"stamped", "deleted"} /\ e \notin Invalid \cup Refused => Kept(e)
  BY DEF Fates, NothingLost, Honoured
<1>2. NothingLost' BY <1>1, KeptStays DEF NothingLost
<1> QED BY <1>2 DEF Fates

\* The verdicts of one request.
LEMMA IngestHonours == ASSUME Base, Ingest PROVE Honoured(exchange.acks)'
<1>1. pass.batch \in SUBSET Events /\ issued \in Nat BY DEF Base, OutboxInv, OutboxShape, ConsumerInv, ConsumerShape
<1>2. exchange'.acks = [e \in pass.batch |-> Verdict(e)] BY DEF Ingest
<1>3. \A e \in pass.batch : Verdict(e) = "acked" => \E m \in queue' : e \in m.events
  BY <1>1, EnqueueAdds DEF Ingest
<1>4. \A e \in pass.batch : Verdict(e) \in {"refused", "rejected"} => e \in Invalid \cup Refused BY DEF Verdict
<1>5. \A e \in pass.batch : Verdict(e) = "acked" => Kept(e)' BY <1>3 DEF Kept
<1>6. DOMAIN exchange'.acks = pass.batch /\ \A e \in pass.batch : exchange'.acks[e] = Verdict(e) BY <1>2
<1> QED BY <1>4, <1>5, <1>6 DEF Honoured

LEMMA FatesHold ==
    ASSUME Base, Fates, [Next]_vars PROVE Fates'
<1>1. Keeps BY NextKeeps
<1>2. Honoured(NoAcks)' BY NoAcksShape DEF Honoured
<1>3. PICK acks : acks = pass.acks OBVIOUS
<1>4. PICK answer : answer = exchange.acks OBVIOUS
<1>5. Honoured(acks)' /\ Honoured(answer)' BY <1>1, <1>3, <1>4, HonouredStays DEF Fates
<1>6. ASSUME UNCHANGED <<row, pass, exchange>> PROVE Fates' BY <1>1, <1>3, <1>4, <1>5, <1>6, FatesStep
<1>7. ASSUME Resting' \/ Posted',
             \A e \in Events : row'[e] = row[e] \/ (row[e] = "stamped" /\ row'[e] = "deleted")
      PROVE  Fates'
  <2>1. pass'.acks = NoAcks /\ exchange'.acks = NoAcks BY <1>7, NoPassShape DEF Resting, Posted
  <2> QED BY <1>1, <1>2, <1>7, <2>1, FatesStep
<1>8. ASSUME Begins \/ Signals PROVE Fates' BY <1>6, <1>7, <1>8 DEF Begins, Signals
<1>9. ASSUME GivesUp PROVE Fates' BY <1>7, <1>9 DEF GivesUp
<1>10. ASSUME NEW e \in Events, Client(AppendEvent(e)) PROVE Fates'
  <2>1. \A d \in Events : row'[d] = IF d = e THEN "pending" ELSE row[d]
    BY <1>10 DEF Client, AppendEvent, Base, OutboxInv, OutboxShape, Rows
  <2>2. UNCHANGED <<pass, exchange>> BY <1>10 DEF Client, AppendEvent
  <2> QED BY <1>1, <1>3, <1>4, <1>5, <2>1, <2>2, FatesStep
<1>11. ASSUME Flush PROVE Fates'
  <2>1. ASSUME Client(PostAnswered) PROVE Fates'
    <3>1. pass'.acks = answer /\ exchange'.acks = NoAcks /\ row' = row
      BY <1>4, <2>1, NoPassShape DEF Client, PostAnswered, Base, OutboxInv, OutboxShape
    <3> QED BY <1>1, <1>2, <1>5, <3>1, FatesStep
  <2>2. ASSUME Client(SettleDefers) PROVE Fates'
    <3>1. pass'.acks = acks /\ exchange' = exchange /\ row' = row
      BY <1>3, <2>2 DEF Client, SettleDefers, Base, OutboxInv, OutboxShape
    <3> QED BY <1>1, <1>4, <1>5, <3>1, FatesStep
  <2>3. ASSUME Client(SettleDeletes) PROVE Fates'
    <3>1. pass'.acks = acks /\ exchange' = exchange
      BY <1>3, <2>3 DEF Client, SettleDeletes, Base, OutboxInv, OutboxShape
    <3>2. \A e \in Events : row'[e] = IF e \in Deletable THEN "deleted" ELSE row[e]
      BY <2>3 DEF Client, SettleDeletes
    <3>3. \A e \in Deletable : e \in DOMAIN pass.acks /\ pass.acks[e] \in {"acked", "refused", "rejected"}
      BY DEF Deletable, With
    <3> QED BY <1>1, <1>4, <1>5, <3>1, <3>2, <3>3, FatesStep
  <2>4. ASSUME Client(SettleStamps) PROVE Fates'
    <3>1. pass'.acks = acks /\ exchange' = exchange
      BY <1>3, <2>4 DEF Client, SettleStamps, Base, OutboxInv, OutboxShape
    <3>2. \A e \in Events : row'[e] = IF RetainsAcked /\ e \in With({"acked"}) THEN "stamped" ELSE row[e]
      BY <2>4 DEF Client, SettleStamps, Stamped
    <3>3. \A e \in With({"acked"}) : e \in DOMAIN pass.acks /\ pass.acks[e] \in {"acked", "refused", "rejected"}
      BY DEF With
    <3> QED BY <1>1, <1>4, <1>5, <3>1, <3>2, <3>3, FatesStep
  <2>5. ASSUME Client(Tick) \/ Client(GoOnline) \/ Client(NextSlice) \/ Client(RetryBecomesDue) PROVE Fates'
    BY <1>8, <2>5, TickKind, GoOnlineKind, NextSliceKind, SignalKinds DEF Base, Client
  <2>6. ASSUME Client(PostAnsweredBadly) PROVE Fates'
    BY <1>9, <2>6, PostFailsKind DEF Base, Client, PostAnsweredBadly
  <2> QED BY <1>11, <2>1, <2>2, <2>3, <2>4, <2>5, <2>6 DEF Flush
<1>12. ASSUME Ingest PROVE Fates'
  <2>1. UNCHANGED <<row, pass>> BY <1>12 DEF Ingest
  <2> QED BY <1>1, <1>3, <1>5, <1>12, <2>1, IngestHonours, FatesStep
<1>13. ASSUME IngestOrphan \/ Register \/ UNCHANGED vars PROVE Fates'
  BY <1>6, <1>13 DEF IngestOrphan, Register, vars, outboxVars
<1>14. ASSUME Consume PROVE Fates' BY <1>6, <1>14, ConsumeElsewhere
<1>15. ASSUME Troubles PROVE Fates'
  <2>1. ASSUME ClientTrouble(GoOffline) PROVE Fates' BY <1>8, <2>1, SignalKinds DEF Base, ClientTrouble
  <2>2. ASSUME ClientTrouble(ConnectionLost) \/ ClientTrouble(ClientRestarts) PROVE Fates'
    BY <1>9, <2>2, PostFailsKind, ClientRestartsKind DEF Base, ClientTrouble, ConnectionLost
  <2>3. ASSUME IngestRefuses PROVE Fates'
    <3>1. UNCHANGED <<row, pass>> /\ exchange'.acks = NoAcks BY <2>3 DEF IngestRefuses, NoExchange
    <3> QED BY <1>1, <1>2, <1>3, <1>5, <3>1, FatesStep
  <2>4. ASSUME ConsumerTroubles PROVE Fates' BY <1>6, <2>4 DEF ConsumerTroubles
  <2> QED BY <1>15, <2>1, <2>2, <2>3, <2>4, TroublesKind
<1> QED BY <1>10, <1>11, <1>12, <1>13, <1>14, <1>15 DEF Next

\* No event is lost: once the client has given up its row, the event is in the
\* queue, in the dead letters, or a callback has returned for it, unless the server
\* turned it down (settleAcks, "retry, never discard"), through every lost request
\* and answer, restart, crash and dead-letter.
THEOREM NothingLostTheorem == Spec => []NothingLost
<1>1. Init => Fates
  <2> SUFFICES ASSUME Init PROVE Fates OBVIOUS
  <2>1. pass.acks = NoAcks /\ exchange.acks = NoAcks BY NoPassShape DEF Init, OutboxInit
  <2>2. Honoured(NoAcks) BY NoAcksShape DEF Honoured
  <2>3. NothingLost BY DEF Init, OutboxInit, NothingLost
  <2> QED BY <2>1, <2>2, <2>3 DEF Fates
<1>2. Base /\ Fates /\ [Next]_vars => Fates' BY FatesHold
<1>3. Fates => NothingLost BY DEF Fates
<1> QED BY <1>1, <1>2, <1>3, BaseHolds, PTL DEF Spec

-----------------------------------------------------------------------------
(***************************************************************************)
(* What an event can still cost.                                           *)
(***************************************************************************)
LEMMA CountTypes ==
    ASSUME OutboxInv, NEW e \in Events
    PROVE  copies[e] \in Nat /\ troubles \in Nat /\ IsFiniteSet(Stray(e)) /\ Cardinality(Stray(e)) \in Nat /\ Due(e) \in {0, 1}
<1>1. IsFiniteSet(Stray(e)) BY FS_Subset DEF Stray, OutboxInv, OutboxShape
<1>2. Cardinality(Stray(e)) \in Nat BY <1>1, FS_CardinalityType
<1> QED BY <1>1, <1>2 DEF OutboxInv, OutboxShape, Due

\* A step that posts nothing and leaves no more to be posted.
LEMMA AccountedStep ==
    ASSUME OutboxInv, OutboxInv', Accounted, copies' = copies, orphans' = orphans,
           \/ troubles' = troubles /\ \A e \in Events : Due(e)' <= Due(e)
           \/ troubles' = troubles + 1
    PROVE  Accounted'
<1> SUFFICES ASSUME NEW e \in Events
             PROVE  copies'[e] + Cardinality(Stray(e)') + Due(e)' <= 1 + troubles'
  BY DEF Accounted
<1>1. Stray(e)' = Stray(e) BY DEF Stray
<1>2. copies[e] \in Nat /\ troubles \in Nat /\ Cardinality(Stray(e)) \in Nat /\ Due(e) \in {0, 1} BY CountTypes
<1>3. Due(e)' \in {0, 1} BY DEF Due
<1>4. copies[e] + Cardinality(Stray(e)) + Due(e) <= 1 + troubles BY DEF Accounted
<1> QED BY <1>1, <1>2, <1>3, <1>4

LEMMA DueStays ==
    ASSUME NEW e, Due(e)' = 1 => row[e] \in {"none", "pending"} /\ ~Acked(e) PROVE Due(e)' <= Due(e)
BY DEF Due

LEMMA NoneAcked ==
    ASSUME OutboxInv, pass.pc \in {"idle", "next"} \/ exchange.state \in {"sent", "failed"}, NEW e PROVE ~Acked(e)
BY NoAcksShape DEF OutboxInv, OnePass, Acked

LEMMA SettleStampsDue ==
    ASSUME OutboxInv, SettleStamps, NEW e \in Events PROVE Due(e)' <= Due(e)
<1> SUFFICES ASSUME Due(e)' = 1 PROVE row[e] \in {"none", "pending"} /\ ~Acked(e) BY DueStays
<1>1. row'[e] \in {"none", "pending"} BY DEF Due
<1>2. row'[e] = IF RetainsAcked /\ e \in With({"acked"}) THEN "stamped" ELSE row[e] BY DEF SettleStamps, Stamped
<1>3. pass.pc = "stamp" /\ exchange.acks = NoAcks BY DEF SettleStamps, OutboxInv, OnePass
<1>4. row[e] \in {"none", "pending"} /\ ~(RetainsAcked /\ e \in With({"acked"})) BY <1>1, <1>2
<1>5. e \notin With({"acked"}) BY <1>3, <1>4 DEF OutboxInv, DeletedFirst
<1>6. ~Acked(e) BY <1>3, <1>5, NoAcksShape DEF Acked, With
<1> QED BY <1>4, <1>6

LEMMA SettleDeletesDue ==
    ASSUME OutboxInv, SettleDeletes, NEW e \in Events PROVE Due(e)' <= Due(e)
<1> SUFFICES ASSUME Due(e)' = 1 PROVE row[e] \in {"none", "pending"} /\ ~Acked(e) BY DueStays
<1>1. row'[e] \in {"none", "pending"} /\ ~Acked(e)' BY DEF Due
<1>2. row'[e] = IF e \in Deletable THEN "deleted" ELSE row[e] BY DEF SettleDeletes
<1>3. /\ pass.pc = "delete" /\ pass'.pc = "stamp" /\ pass'.acks = pass.acks
      /\ exchange' = exchange
  BY DEF SettleDeletes, OutboxInv, OutboxShape
<1>4. ~Acked(e) BY <1>1, <1>3 DEF Acked
<1> QED BY <1>1, <1>2, <1>4

LEMMA AnswerDue ==
    ASSUME OutboxInv, PostAnswered \/ SettleDefers, NEW e \in Events PROVE Due(e)' <= Due(e)
<1> SUFFICES ASSUME Due(e)' = 1 PROVE row[e] \in {"none", "pending"} /\ ~Acked(e) BY DueStays
<1>1. row'[e] \in {"none", "pending"} /\ ~Acked(e)' /\ row' = row BY DEF Due, PostAnswered, SettleDefers
<1>2. CASE PostAnswered
  <2>1. pass.pc = "posting" /\ pass'.pc = "defer" /\ pass'.acks = exchange.acks
    BY <1>2 DEF PostAnswered, OutboxInv, OutboxShape
  <2> QED BY <1>1, <2>1 DEF Acked
<1>3. CASE SettleDefers
  <2>1. pass.pc = "defer" /\ pass'.pc = "delete" /\ pass'.acks = pass.acks /\ exchange' = exchange
    BY <1>3 DEF SettleDefers, OutboxInv, OutboxShape
  <2> QED BY <1>1, <2>1 DEF Acked
<1> QED BY <1>2, <1>3

LEMMA GivesUpAccounted ==
    ASSUME OutboxInv, OutboxInv', Accounted, GivesUp, copies' = copies,
           troubles' = troubles + 1 \/ (troubles' = troubles /\ exchange.state = "failed")
    PROVE  Accounted'
<1>1. \A e \in Events : exchange.state \in {"sent", "failed"} => Due(e)' <= Due(e)
  <2> SUFFICES ASSUME NEW e \in Events, exchange.state \in {"sent", "failed"}, Due(e)' = 1
               PROVE  row[e] \in {"none", "pending"} /\ ~Acked(e)
    BY DueStays
  <2> QED BY NoneAcked DEF Due, GivesUp
<1>2. CASE orphans' = orphans BY <1>1, <1>2, AccountedStep
<1>3. CASE exchange.state = "sent" /\ orphans' = orphans \cup {pass.batch} /\ troubles' = troubles + 1
  <2> SUFFICES ASSUME NEW e \in Events
               PROVE  copies'[e] + Cardinality(Stray(e)') + Due(e)' <= 1 + troubles'
    BY DEF Accounted
  <2>1. copies[e] \in Nat /\ troubles \in Nat /\ IsFiniteSet(Stray(e)) /\ Cardinality(Stray(e)) \in Nat /\ Due(e) \in {0, 1}
    BY CountTypes
  <2>2. Due(e)' \in {0, 1} /\ Due(e)' <= Due(e) BY <1>1, <1>3 DEF Due
  <2>3. Stray(e)' = Stray(e) \/ Stray(e)' = Stray(e) \cup {pass.batch} BY <1>3 DEF Stray
  <2>4. Cardinality(Stray(e)') \in Nat /\ Cardinality(Stray(e)') <= Cardinality(Stray(e)) + 1
    BY <2>1, <2>3, FS_AddElement
  <2>5. copies[e] + Cardinality(Stray(e)) + Due(e) <= 1 + troubles BY DEF Accounted
  <2> QED BY <1>3, <2>1, <2>2, <2>4, <2>5
<1> QED BY <1>2, <1>3 DEF GivesUp

LEMMA IngestAccounted == ASSUME OutboxInv, OutboxInv', Accounted, Ingest PROVE Accounted'
<1> SUFFICES ASSUME NEW e \in Events
             PROVE  copies'[e] + Cardinality(Stray(e)') + Due(e)' <= 1 + troubles'
  BY DEF Accounted
<1>1. copies[e] \in Nat /\ troubles \in Nat /\ Cardinality(Stray(e)) \in Nat /\ Due(e) \in {0, 1} BY CountTypes
<1>2. copies[e] + Cardinality(Stray(e)) + Due(e) <= 1 + troubles BY DEF Accounted
<1>3. UNCHANGED <<row, pass, orphans, troubles>> BY DEF Ingest
<1>4. Stray(e)' = Stray(e) BY <1>3 DEF Stray
<1>5. pass.batch \in SUBSET Events BY DEF OutboxInv, OutboxShape
<1>6. copies'[e] = copies[e] + IF e \in pass.batch /\ Verdict(e) = "acked" THEN 1 ELSE 0
  BY <1>5, EnqueueCounts DEF Ingest
<1>7. exchange.state = "sent" /\ exchange'.acks = [d \in pass.batch |-> Verdict(d)] BY DEF Ingest
<1>8. ~Acked(e) BY <1>7, NoneAcked
<1>9. CASE e \in pass.batch /\ Verdict(e) = "acked"
  <2>1. row[e] = "pending" BY <1>7, <1>9 DEF OutboxInv, OnePass
  <2>2. Due(e) = 1 BY <1>8, <2>1 DEF Due
  <2>3. e \in DOMAIN exchange'.acks /\ exchange'.acks[e] = "acked" BY <1>7, <1>9
  <2>4. Acked(e)' BY <2>3 DEF Acked
  <2>5. Due(e)' = 0 BY <2>4 DEF Due
  <2> QED BY <1>1, <1>2, <1>3, <1>4, <1>6, <1>9, <2>2, <2>5
<1>10. CASE ~(e \in pass.batch /\ Verdict(e) = "acked")
  <2>1. Due(e)' <= Due(e) /\ Due(e)' \in {0, 1} BY <1>3, <1>8 DEF Due
  <2> QED BY <1>1, <1>2, <1>3, <1>4, <1>6, <1>10, <2>1
<1> QED BY <1>9, <1>10

LEMMA IngestOrphanAccounted == ASSUME OutboxInv, OutboxInv', Accounted, IngestOrphan PROVE Accounted'
<1> SUFFICES ASSUME NEW e \in Events
             PROVE  copies'[e] + Cardinality(Stray(e)') + Due(e)' <= 1 + troubles'
  BY DEF Accounted
<1>1. copies[e] \in Nat /\ troubles \in Nat /\ IsFiniteSet(Stray(e)) /\ Cardinality(Stray(e)) \in Nat /\ Due(e) \in {0, 1}
  BY CountTypes
<1>2. copies[e] + Cardinality(Stray(e)) + Due(e) <= 1 + troubles BY DEF Accounted
<1>3. UNCHANGED <<row, pass, exchange, troubles>> BY DEF IngestOrphan
<1>4. Due(e)' = Due(e) BY <1>3 DEF Due, Acked
<1>5. PICK batch \in orphans : EnqueueBatch(batch) /\ orphans' = orphans \ {batch} BY DEF IngestOrphan
<1>6. batch \in SUBSET Events BY DEF OutboxInv, OutboxShape
<1>7. copies'[e] = copies[e] + IF e \in batch /\ Verdict(e) = "acked" THEN 1 ELSE 0
  BY <1>5, <1>6, EnqueueCounts
<1>8. Stray(e)' = Stray(e) \ {batch} BY <1>5 DEF Stray
<1>9. batch \in Stray(e) <=> e \in batch BY DEF Stray
<1>10. Cardinality(Stray(e)') = IF e \in batch THEN Cardinality(Stray(e)) - 1 ELSE Cardinality(Stray(e))
  BY <1>1, <1>8, <1>9, FS_RemoveElement
<1> QED BY <1>1, <1>2, <1>3, <1>4, <1>7, <1>10

LEMMA AccountedHolds ==
    ASSUME Base, Base', Accounted, [Next]_vars PROVE Accounted'
<1> USE DEF Base
<1>1. ASSUME UNCHANGED <<copies, orphans, troubles, row, pass, exchange>> PROVE Accounted'
  <2>1. \A e \in Events : Due(e)' <= Due(e) BY <1>1 DEF Due, Acked
  <2> QED BY <1>1, <2>1, AccountedStep
<1>2. ASSUME UNCHANGED <<copies, orphans>>, troubles' = troubles + 1 PROVE Accounted' BY <1>2, AccountedStep
<1>3. ASSUME NEW ACTION A, Client(A) PROVE UNCHANGED <<copies, troubles>> BY <1>3 DEF Client
<1>4. ASSUME UNCHANGED <<copies, orphans, troubles>>, Begins \/ Signals PROVE Accounted'
  <2>1. \A e \in Events : Due(e)' <= Due(e)
    <3>1. CASE Signals BY <3>1 DEF Signals, Due, Acked
    <3>2. CASE Begins
      <4> SUFFICES ASSUME NEW e \in Events, Due(e)' = 1 PROVE row[e] \in {"none", "pending"} /\ ~Acked(e)
        BY DueStays
      <4> QED BY <3>2, NoneAcked DEF Begins, Due
    <3> QED BY <1>4, <3>1, <3>2
  <2> QED BY <1>4, <2>1, AccountedStep
<1>5. ASSUME NEW e \in Events, Client(AppendEvent(e)) PROVE Accounted'
  <2>1. \A d \in Events : row'[d] = IF d = e THEN "pending" ELSE row[d]
    BY <1>5 DEF Client, AppendEvent, OutboxInv, OutboxShape, Rows
  <2>2. UNCHANGED <<pass, exchange, orphans, copies, troubles>> /\ row[e] = "none" BY <1>5 DEF Client, AppendEvent
  <2>3. \A d \in Events : Due(d)' <= Due(d) BY <2>1, <2>2 DEF Due, Acked
  <2> QED BY <2>2, <2>3, AccountedStep
<1>6. ASSUME Flush PROVE Accounted'
  <2>1. ASSUME Client(Tick) \/ Client(GoOnline) \/ Client(NextSlice) \/ Client(RetryBecomesDue) PROVE Accounted'
    BY <1>4, <2>1, TickKind, GoOnlineKind, NextSliceKind, SignalKinds DEF Client
  <2>2. ASSUME Client(PostAnsweredBadly) PROVE Accounted'
    BY <2>2, PostFailsKind, GivesUpAccounted DEF Client, PostAnsweredBadly
  <2>3. ASSUME Client(PostAnswered) \/ Client(SettleDefers) PROVE Accounted'
    <3>1. UNCHANGED <<copies, orphans, troubles>> BY <2>3 DEF Client, PostAnswered, SettleDefers
    <3> QED BY <2>3, <3>1, AnswerDue, AccountedStep DEF Client
  <2>4. ASSUME Client(SettleDeletes) PROVE Accounted'
    <3>1. UNCHANGED <<copies, orphans, troubles>> BY <2>4 DEF Client, SettleDeletes
    <3> QED BY <2>4, <3>1, SettleDeletesDue, AccountedStep DEF Client
  <2>5. ASSUME Client(SettleStamps) PROVE Accounted'
    <3>1. UNCHANGED <<copies, orphans, troubles>> BY <2>5 DEF Client, SettleStamps
    <3> QED BY <2>5, <3>1, SettleStampsDue, AccountedStep DEF Client
  <2> QED BY <1>6, <2>1, <2>2, <2>3, <2>4, <2>5 DEF Flush
<1>7. ASSUME Ingest PROVE Accounted' BY <1>7, IngestAccounted
<1>8. ASSUME IngestOrphan PROVE Accounted' BY <1>8, IngestOrphanAccounted
<1>9. ASSUME Register \/ UNCHANGED vars PROVE Accounted' BY <1>1, <1>9 DEF Register, vars, outboxVars
<1>10. ASSUME Consume PROVE Accounted' BY <1>1, <1>10, ConsumeElsewhere
<1>11. ASSUME Troubles PROVE Accounted'
  <2>1. ASSUME ClientTrouble(GoOffline) PROVE Accounted'
    BY <1>2, <2>1 DEF ClientTrouble, Trouble, GoOffline
  <2>2. ASSUME ClientTrouble(ConnectionLost) \/ ClientTrouble(ClientRestarts) PROVE Accounted'
    <3>1. GivesUp BY <2>2, PostFailsKind, ClientRestartsKind DEF ClientTrouble, ConnectionLost
    <3>2. copies' = copies /\ troubles' = troubles + 1 BY <2>2 DEF ClientTrouble, Trouble
    <3> QED BY <3>1, <3>2, GivesUpAccounted
  <2>3. ASSUME IngestRefuses /\ Trouble PROVE Accounted' BY <1>2, <2>3 DEF IngestRefuses, Trouble
  <2>4. ASSUME ConsumerTroubles PROVE Accounted' BY <1>2, <2>4 DEF ConsumerTroubles, Trouble
  <2> QED BY <1>11, <2>1, <2>2, <2>3, <2>4, TroublesKind
<1> QED BY <1>5, <1>6, <1>7, <1>8, <1>9, <1>10, <1>11 DEF Next

\* An event is enqueued more than once only after something failed, and no more
\* often than things failed: a pass posts only pending rows, a row that was acked is
\* stamped or deleted before the next slice, and passes never overlap.
THEOREM DuplicatesTheorem == Spec => []DuplicatesNeedTrouble
<1>1. Init => Accounted
  <2> SUFFICES ASSUME Init, NEW e \in Events PROVE copies[e] + Cardinality(Stray(e)) + Due(e) <= 1 + troubles
    BY DEF Accounted
  <2>1. copies[e] = 0 /\ troubles = 0 /\ orphans = {} BY DEF Init, OutboxInit
  <2>2. Stray(e) = {} BY <2>1 DEF Stray
  <2>3. Cardinality(Stray(e)) = 0 BY <2>2, FS_EmptySet
  <2> QED BY <2>1, <2>3 DEF Due
<1>2. Base /\ Base' /\ Accounted /\ [Next]_vars => Accounted' BY AccountedHolds
<1>3. Base /\ Accounted => DuplicatesNeedTrouble
  <2> SUFFICES ASSUME Base, Accounted, NEW e \in Events PROVE copies[e] <= 1 + troubles BY DEF DuplicatesNeedTrouble
  <2>1. copies[e] \in Nat /\ troubles \in Nat /\ Cardinality(Stray(e)) \in Nat /\ Due(e) \in {0, 1}
    BY CountTypes DEF Base
  <2>2. copies[e] + Cardinality(Stray(e)) + Due(e) <= 1 + troubles BY DEF Accounted
  <2> QED BY <2>1, <2>2
<1> QED BY <1>1, <1>2, <1>3, BaseHolds, PTL DEF Spec
=============================================================================
