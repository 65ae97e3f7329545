------------------------- MODULE RepackedStoreProofs -------------------------
(***************************************************************************)
(* Proofs about RepackedStore and the reducer of VfsState, for every       *)
(* number of names, descriptors, calls, generations and troubles.          *)
(*                                                                         *)
(* What recovery would replay is told as a chain of places in the log:     *)
(* each place is a state, an offset and a sequence number, and each step   *)
(* takes the one frame in turn.  Two chains of a log agree, so the chain   *)
(* that the commits leave behind is the one replay follows.                *)
(***************************************************************************)
EXTENDS RepackedStore, FiniteSetTheorems, SequenceTheorems, WellFoundedInduction, TLAPS

-----------------------------------------------------------------------------
(***************************************************************************)
(* Types.                                                                  *)
(***************************************************************************)
MetaNames == {"a", "b"}
Labels == Names \cup {"/"}
Node == [kind : {"dir", "file", "link"}, parent : Nat, name : Labels, size : Nat,
         extents : Seq(Nat), owner : Labels]
NodeMaps == UNION {[D -> Node] : D \in SUBSET (Nat \ {0})}
Quarantines == UNION {[X -> Nat] : X \in SUBSET Nat}

\* What the log needs of a state: extents fit sizes, what is available lies in the arena.
Fits(s) ==
    /\ \A i \in DOMAIN s.nodes : Len(s.nodes[i].extents) = CountFor(s.nodes[i].size)
    /\ s.avail \subseteq 0 .. s.total - 1

States == {s \in [gen : Nat, next : Nat \ {0}, active : MetaNames, retained : [MetaNames -> Nat],
                  nodes : NodeMaps, total : Nat, avail : SUBSET Nat, quar : Quarantines] : Fits(s)}

Records ==
    [kind : {"create"}, what : {"dir", "file", "link"}, parent : Nat, name : Labels, id : Nat,
     size : Nat, extents : Seq(Nat)]
    \cup [kind : {"remove"}, what : {"dir", "file"}, parent : Nat, name : Labels]
    \cup [kind : {"resize"}, operation : {"write", "truncate"}, id : Nat, size : Nat, extents : Seq(Nat)]
    \cup [kind : {"rename"}, parent : Nat, name : Labels, newParent : Nat, newName : Labels]
    \cup [kind : {"reserve"}, extents : Seq(Nat)]
    \cup [kind : {"attributes"}, id : Nat]

\* The reducer leaves alone which file and generation a state belongs to.
SameStore(s, t) == s.gen = t.gen /\ s.active = t.active /\ s.retained = t.retained

-----------------------------------------------------------------------------
(***************************************************************************)
(* Numbers.                                                                *)
(***************************************************************************)
LEMMA SmallestOf ==
    ASSUME NEW S \in SUBSET Nat, S # {}
    PROVE  \E n \in S : \A m \in S : n <= m
<1> DEFINE R == {p \in Nat \X Nat : p[1] < p[2]}
<1>1. IsWellFoundedOn(R, Nat)
  BY NatLessThanWellFounded DEF OpToRel
<1> HIDE DEF R
<1>2. PICK n \in S : \A m \in S : ~(<<m, n>> \in R)
  BY <1>1, WFMin
<1>3. ASSUME NEW m \in S PROVE n <= m
  <2>1. n \in Nat /\ m \in Nat
    OBVIOUS
  <2>2. ~(<<m, n>> \in R)
    BY <1>2
  <2>3. ~(m < n)
    BY <2>1, <2>2 DEF R
  <2> QED BY <2>1, <2>3
<1> QED BY <1>3

LEMMA SetInduction ==
    ASSUME NEW S, 0 \in S, \A n \in Nat : n \in S => n + 1 \in S
    PROVE  Nat \subseteq S
<1> DEFINE T == Nat \ S
<1>1. ASSUME T # {} PROVE FALSE
  <2>1. PICK n \in T : \A m \in T : n <= m
    BY <1>1, SmallestOf
  <2>2. n # 0 /\ n - 1 \in Nat /\ n - 1 \notin T
    BY <2>1
  <2>3. (n - 1) + 1 \in S
    BY <2>2
  <2> QED BY <2>1, <2>3
<1> QED BY <1>1


\* extentCountForSize grows with the size.
LEMMA Quotients ==
    ASSUME NEW a \in Nat, NEW b \in Nat, a <= b
    PROVE  /\ a \div ExtentSize \in Nat /\ b \div ExtentSize \in Nat
           /\ a \div ExtentSize <= b \div ExtentSize
<1> DEFINE n == ExtentSize
           p == a \div n
           q == b \div n
<1>0. n \in Nat /\ n > 0
  BY ExtentAssumption
<1>1. /\ p \in Int /\ n * p <= a /\ a < n * p + n
      /\ q \in Int /\ n * q <= b /\ b < n * q + n
  BY <1>0
<1> HIDE DEF p, q, n
<1>2. ASSUME NEW x \in Int, NEW c \in Nat, c < n * x + n PROVE x >= 0
  <2>1. CASE x < 0
    <3>1. n * x + n = n * (x + 1) /\ x + 1 <= 0
      BY <1>0, <2>1
    <3>2. n * (x + 1) <= 0
      BY <1>0, <3>1
    <3> QED BY <1>0, <1>2, <3>1, <3>2
  <2> QED BY <2>1
<1>3. p >= 0 /\ q >= 0
  BY <1>1, <1>2
<1>4. CASE p > q
  <2>1. n * p >= n * (q + 1)
    BY <1>0, <1>1, <1>4
  <2>2. n * (q + 1) = n * q + n
    BY <1>0, <1>1
  <2>3. n * p \in Int /\ n * q \in Int
    BY <1>0, <1>1
  <2> QED BY <1>0, <1>1, <2>1, <2>2, <2>3
<1> QED BY <1>1, <1>3, <1>4 DEF p, q, n

LEMMA Counts ==
    ASSUME NEW m \in Nat, NEW n \in Nat
    PROVE  /\ CountFor(m) \in Nat
           /\ m <= n => CountFor(m) <= CountFor(n)
<1>1. m + ExtentSize - 1 \in Nat /\ n + ExtentSize - 1 \in Nat
  BY ExtentAssumption
<1>2. m + ExtentSize - 1 <= m + ExtentSize - 1
  BY <1>1
<1>3. m <= n => m + ExtentSize - 1 <= n + ExtentSize - 1
  BY ExtentAssumption
<1> QED BY <1>1, <1>2, <1>3, Quotients DEF CountFor

-----------------------------------------------------------------------------
(***************************************************************************)
(* The allocator.                                                          *)
(***************************************************************************)
\* There are as many greatest elements as one asks for.
LEMMA GreatestExist ==
    ASSUME NEW S \in SUBSET Nat, IsFiniteSet(S), NEW k \in Nat, k <= Cardinality(S)
    PROVE  Greatest(S, k) \in SUBSET S /\ Cardinality(Greatest(S, k)) = k
<1> DEFINE Good(T, j) == Cardinality(T) = j /\ \A x \in T, y \in S \ T : y < x
           D == {j \in Nat : j <= Cardinality(S) => \E T \in SUBSET S : Good(T, j)}
<1>1. 0 \in D
  <2>1. Good({}, 0)
    BY FS_EmptySet
  <2> QED BY <2>1
<1>2. ASSUME NEW j \in Nat, j \in D PROVE j + 1 \in D
  <2> SUFFICES ASSUME j + 1 <= Cardinality(S) PROVE \E T \in SUBSET S : Good(T, j + 1)
    OBVIOUS
  <2>0. Cardinality(S) \in Nat
    BY FS_CardinalityType
  <2>1. PICK T \in SUBSET S : Good(T, j)
    BY <1>2, <2>0
  <2>2. IsFiniteSet(T)
    BY FS_Subset
  <2>3. S \ T # {}
    <3>1. T # S
      BY <2>0, <2>1
    <3> QED BY <3>1
  <2> DEFINE U == {u \in Nat : \A y \in S \ T : y <= u}
  <2>4. U # {}
    <3> DEFINE Bounded(n) == \A P \in SUBSET S :
                   Cardinality(P) = n => \E u \in Nat : \A y \in P : y <= u
               B == {n \in Nat : Bounded(n)}
    <3>1. 0 \in B
      <4> SUFFICES ASSUME NEW P \in SUBSET S, Cardinality(P) = 0
                   PROVE  \E u \in Nat : \A y \in P : y <= u
        OBVIOUS
      <4>1. IsFiniteSet(P)
        BY FS_Subset
      <4>2. P = {}
        BY <4>1, FS_EmptySet
      <4>3. \A y \in P : y <= 0
        BY <4>2
      <4> QED BY <4>3
    <3>2. ASSUME NEW n \in Nat, n \in B PROVE Bounded(n + 1)
      <4> SUFFICES ASSUME NEW P \in SUBSET S, Cardinality(P) = n + 1
                   PROVE  \E u \in Nat : \A y \in P : y <= u
        OBVIOUS
      <4>1. IsFiniteSet(P)
        BY FS_Subset
      <4>2. P # {}
        <5>1. Cardinality({}) # n + 1
          BY FS_EmptySet
        <5> QED BY <5>1
      <4>3. PICK p \in P : TRUE
        BY <4>2
      <4>4. Cardinality(P \ {p}) = n /\ P \ {p} \in SUBSET S
        <5>1. Cardinality(P \ {p}) = Cardinality(P) - 1
          BY <4>1, <4>3, FS_RemoveElement
        <5> QED BY <5>1
      <4>5. PICK u \in Nat : \A y \in P \ {p} : y <= u
        BY <3>2, <4>4
      <4>6. p \in Nat
        OBVIOUS
      <4>7. CASE p <= u
        BY <4>5, <4>6, <4>7
      <4>8. CASE ~(p <= u)
        <5>1. \A y \in P : y \in Nat /\ y <= p
          BY <4>5, <4>6, <4>8
        <5> QED BY <4>6, <5>1
      <4> QED BY <4>7, <4>8
    <3>3. \A n \in Nat : n \in B => n + 1 \in B
      <4> HIDE DEF Bounded
      <4> QED BY <3>2
    <3> HIDE DEF B
    <3>4. Nat \subseteq B
      BY <3>1, <3>3, SetInduction
    <3>5. IsFiniteSet(S \ T) /\ S \ T \in SUBSET S
      BY FS_Subset
    <3>6. Cardinality(S \ T) \in Nat
      BY <3>5, FS_CardinalityType
    <3>7. \E u \in Nat : \A y \in S \ T : y <= u
      BY <3>4, <3>5, <3>6 DEF B
    <3> QED BY <3>7
  <2>5. PICK u \in U : \A v \in U : u <= v
    <3>1. U \in SUBSET Nat
      OBVIOUS
    <3> HIDE DEF U
    <3> QED BY <2>4, <3>1, SmallestOf
  <2>6. u \in S \ T
    <3> SUFFICES ASSUME u \notin S \ T PROVE FALSE
      OBVIOUS
    <3>1. \A y \in S \ T : y \in Nat /\ y <= u /\ y # u
      BY <2>5
    <3>2. u # 0
      <4>1. PICK y \in S \ T : TRUE
        BY <2>3
      <4> QED BY <3>1, <4>1
    <3>3. u - 1 \in U
      BY <3>1, <3>2, <2>5
    <3> QED BY <2>5, <3>3
  <2>7. Cardinality(T \cup {u}) = j + 1
    BY <2>1, <2>2, <2>6, FS_AddElement
  <2>8. \A x \in T \cup {u}, y \in S \ (T \cup {u}) : y < x
    <3> SUFFICES ASSUME NEW x \in T \cup {u}, NEW y \in S \ (T \cup {u}) PROVE y < x
      OBVIOUS
    <3>1. CASE x \in T
      BY <2>1, <3>1
    <3>2. CASE x = u
      <4>1. y \in Nat /\ u \in Nat /\ y <= u /\ y # u
        BY <2>5
      <4> QED BY <3>2, <4>1
    <3> QED BY <3>1, <3>2
  <2>9. T \cup {u} \in SUBSET S
    BY <2>6
  <2>10. Good(T \cup {u}, j + 1)
    BY <2>7, <2>8
  <2> QED BY <2>9, <2>10
<1>3. \A j \in Nat : j \in D => j + 1 \in D
  BY <1>2
<1> HIDE DEF D
<1>4. Nat \subseteq D
  BY <1>1, <1>3, SetInduction
<1>5. \E T \in SUBSET S : Good(T, k)
  BY <1>4 DEF D
<1>6. Greatest(S, k) \in SUBSET S /\ Good(Greatest(S, k), k)
  BY <1>5 DEF Greatest
<1> QED BY <1>6

\* SetToSeq lists a finite set.
LEMMA Listed ==
    ASSUME NEW S, IsFiniteSet(S)
    PROVE  SetToSeq(S) \in Seq(S)
<1>1. Cardinality(S) \in Nat /\ ExistsBijection(1 .. Cardinality(S), S)
  BY FS_CardinalityType
<1>2. \E g \in [1 .. Cardinality(S) -> S] : IsInjective(g)
  BY <1>1 DEF ExistsBijection, Bijection, Injection
<1>3. SetToSeq(S) \in [1 .. Cardinality(S) -> S]
  BY <1>2 DEF SetToSeq
<1> HIDE DEF SetToSeq
<1> QED BY <1>1, <1>3

\* A plan for extents is a sequence of them.
LEMMA ChosenType ==
    ASSUME NEW s \in States, NEW count \in Nat
    PROVE  ChooseExtents(s, count) \in Seq(Nat)
<1>1. s.total \in Nat /\ s.avail \in SUBSET Nat /\ s.avail \subseteq 0 .. s.total - 1
  BY DEF States, Fits
<1>2. IsFiniteSet(s.avail)
  <2>1. IsFiniteSet(0 .. s.total - 1)
    BY <1>1, FS_Interval
  <2> QED BY <1>1, <2>1, FS_Subset
<1>3. Cardinality(s.avail) \in Nat
  BY <1>2, FS_CardinalityType
<1> DEFINE k == IF count < Cardinality(s.avail) THEN count ELSE Cardinality(s.avail)
           new == [j \in 1..(count - k) |-> s.total + j - 1]
<1>4. k \in Nat /\ k <= Cardinality(s.avail) /\ count - k \in Nat
  BY <1>3
<1>5. new \in Seq(Nat)
  <2>1. \A j \in 1 .. (count - k) : s.total + j - 1 \in Nat
    BY <1>1, <1>4
  <2> HIDE DEF k
  <2> QED BY <1>4, <2>1
<1>6. ChooseExtents(s, count) = SetToSeq(Greatest(s.avail, k)) \o new
  BY DEF ChooseExtents
<1> HIDE DEF k, new
<1>7. Greatest(s.avail, k) \in SUBSET s.avail
  BY <1>1, <1>2, <1>4, GreatestExist
<1>8. IsFiniteSet(Greatest(s.avail, k))
  BY <1>2, <1>7, FS_Subset
<1>9. SetToSeq(Greatest(s.avail, k)) \in Seq(Greatest(s.avail, k))
  BY <1>8, Listed
<1> DEFINE old == SetToSeq(Greatest(s.avail, k))
           G == Greatest(s.avail, k)
<1>11. G \subseteq Nat /\ old \in Seq(G)
  BY <1>1, <1>7, <1>9
<1> HIDE DEF old, G
<1>10. old \in Seq(Nat)
  BY <1>11, SeqMonotonic
<1> QED BY <1>5, <1>6, <1>10 DEF old

-----------------------------------------------------------------------------
(***************************************************************************)
(* The reducer.                                                            *)
(***************************************************************************)
LEMMA StateFacts ==
    ASSUME NEW s \in States
    PROVE  /\ s.gen \in Nat /\ s.next \in Nat \ {0} /\ s.active \in MetaNames
           /\ s.retained \in [MetaNames -> Nat] /\ s.total \in Nat /\ s.avail \in SUBSET Nat
           /\ s.nodes \in [DOMAIN s.nodes -> Node] /\ DOMAIN s.nodes \subseteq Nat \ {0}
           /\ s.quar \in [DOMAIN s.quar -> Nat] /\ DOMAIN s.quar \subseteq Nat
           /\ \A i \in DOMAIN s.nodes : /\ s.nodes[i].extents \in Seq(Nat) /\ s.nodes[i].size \in Nat
                                        /\ Len(s.nodes[i].extents) = CountFor(s.nodes[i].size)
           /\ s.avail \subseteq 0 .. s.total - 1
<1>1. \E D \in SUBSET (Nat \ {0}) : s.nodes \in [D -> Node]
  BY DEF States, NodeMaps
<1>2. \E X \in SUBSET Nat : s.quar \in [X -> Nat]
  BY DEF States, Quarantines
<1>3. s.nodes \in [DOMAIN s.nodes -> Node] /\ DOMAIN s.nodes \subseteq Nat \ {0}
  BY <1>1
<1>4. s.quar \in [DOMAIN s.quar -> Nat] /\ DOMAIN s.quar \subseteq Nat
  BY <1>2
<1>5. \A i \in DOMAIN s.nodes : s.nodes[i].extents \in Seq(Nat) /\ s.nodes[i].size \in Nat
  BY <1>3 DEF Node
<1> QED BY <1>3, <1>4, <1>5 DEF States, Fits

\* What is read of a state is what it was built from.
LEMMA BuildState ==
    ASSUME NEW s,
           s = [gen |-> s.gen, next |-> s.next, active |-> s.active, retained |-> s.retained,
                nodes |-> s.nodes, total |-> s.total, avail |-> s.avail, quar |-> s.quar],
           s.gen \in Nat, s.next \in Nat \ {0}, s.active \in MetaNames, s.retained \in [MetaNames -> Nat],
           NEW D \in SUBSET (Nat \ {0}), s.nodes \in [D -> Node], s.total \in Nat, s.avail \in SUBSET Nat,
           NEW X \in SUBSET Nat, s.quar \in [X -> Nat],
           \A i \in D : Len(s.nodes[i].extents) = CountFor(s.nodes[i].size),
           s.avail \subseteq 0 .. s.total - 1
    PROVE  s \in States
<1>1. s.nodes \in NodeMaps
  BY DEF NodeMaps
<1>2. s.quar \in Quarantines
  BY DEF Quarantines
<1>3. s \in [gen : Nat, next : Nat \ {0}, active : MetaNames, retained : [MetaNames -> Nat],
                  nodes : NodeMaps, total : Nat, avail : SUBSET Nat, quar : Quarantines]
  BY <1>1, <1>2
<1>4. Fits(s)
  BY DEF Fits
<1> QED BY <1>3, <1>4 DEF States

Shape(s) == s = [gen |-> s.gen, next |-> s.next, active |-> s.active, retained |-> s.retained,
                 nodes |-> s.nodes, total |-> s.total, avail |-> s.avail, quar |-> s.quar]

LEMMA StateShape == ASSUME NEW s \in States PROVE Shape(s)
  BY DEF States, Shape

\* Sets of extents.
LEMMA ExtentSet ==
    ASSUME NEW xs \in Seq(Nat)
    PROVE  /\ IsFiniteSet(ToSet(xs)) /\ ToSet(xs) \subseteq Nat
           /\ \A s \in States : Fresh(s, xs) \subseteq ToSet(xs) /\ IsFiniteSet(Fresh(s, xs))
                                /\ Cardinality(Fresh(s, xs)) \in Nat
<1>1. ToSet(xs) = Range(xs)
  BY DEF ToSet, Range
<1>2. IsFiniteSet(ToSet(xs))
  <2>1. xs \in [1 .. Len(xs) -> Nat] /\ Len(xs) \in Nat
    OBVIOUS
  <2>2. IsFiniteSet(1 .. Len(xs))
    BY <2>1, FS_Interval
  <2>3. xs \in Surjection(1 .. Len(xs), ToSet(xs))
    BY <2>1 DEF Surjection, ToSet
  <2> QED BY <2>2, <2>3, FS_Surjection
<1>3. ToSet(xs) \subseteq Nat
  BY DEF ToSet
<1>4. ASSUME NEW s \in States
      PROVE  /\ Fresh(s, xs) \subseteq ToSet(xs) /\ IsFiniteSet(Fresh(s, xs))
             /\ Cardinality(Fresh(s, xs)) \in Nat
  <2>1. Fresh(s, xs) \in SUBSET ToSet(xs)
    BY DEF Fresh
  <2> QED BY <1>2, <2>1, FS_Subset, FS_CardinalityType
<1> QED BY <1>2, <1>3, <1>4

LEMMA AllocateKeeps ==
    ASSUME NEW s \in States, NEW xs \in Seq(Nat)
    PROVE  /\ Allocate(s, xs) \in States
           /\ Allocate(s, xs) = [s EXCEPT !.avail = s.avail \ ToSet(xs), !.total = s.total + Cardinality(Fresh(s, xs))]
           /\ SameStore(Allocate(s, xs), s) /\ Allocate(s, xs).nodes = s.nodes
           /\ Allocate(s, xs).next = s.next
           /\ Allocate(s, xs).quar = s.quar
           /\ Allocate(s, xs).avail = s.avail \ ToSet(xs)
           /\ Allocate(s, xs).total = s.total + Cardinality(Fresh(s, xs))
<1> DEFINE t == Allocate(s, xs)
           n == Cardinality(Fresh(s, xs))
<1>1. n \in Nat
  BY ExtentSet
<1>2. t = [s EXCEPT !.avail = s.avail \ ToSet(xs), !.total = s.total + n]
  BY DEF Allocate
<1> HIDE DEF n
<1>3. /\ Shape(t) /\ SameStore(t, s) /\ t.nodes = s.nodes /\ t.next = s.next /\ t.quar = s.quar
      /\ t.avail = s.avail \ ToSet(xs) /\ t.total = s.total + n
  BY <1>2, StateShape DEF Shape, SameStore
<1> HIDE DEF t
<1>4. t.total \in Nat /\ t.avail \in SUBSET Nat /\ t.avail \subseteq 0 .. t.total - 1
  BY <1>1, <1>3, StateFacts
<1>5. t \in States
  BY <1>3, <1>4, StateFacts, BuildState DEF Shape, SameStore
<1> QED BY <1>2, <1>3, <1>5 DEF t, n

LEMMA QuarantineKeeps ==
    ASSUME NEW s \in States, NEW X \in SUBSET Nat
    PROVE  /\ Quarantine(s, X) \in States
           /\ SameStore(Quarantine(s, X), s) /\ Quarantine(s, X).nodes = s.nodes
           /\ Quarantine(s, X).avail = s.avail /\ Quarantine(s, X).total = s.total
           /\ Quarantine(s, X).next = s.next
           /\ X = {} => Quarantine(s, X) = s
<1> DEFINE t == Quarantine(s, X)
           q == [x \in DOMAIN s.quar \cup X |-> IF x \in X THEN 0 ELSE s.quar[x]]
<1>1. t = [s EXCEPT !.quar = q]
  BY DEF Quarantine
<1>2. q \in [DOMAIN s.quar \cup X -> Nat] /\ DOMAIN s.quar \cup X \in SUBSET Nat
  BY StateFacts
<1>3. X = {} => q = s.quar
  BY StateFacts
<1> HIDE DEF q
<1>4. /\ Shape(t) /\ SameStore(t, s) /\ t.nodes = s.nodes /\ t.next = s.next /\ t.quar = q
      /\ t.avail = s.avail /\ t.total = s.total
  BY <1>1, StateShape DEF Shape, SameStore
<1> HIDE DEF t
<1>5. t \in States
  BY <1>2, <1>4, StateFacts, BuildState DEF Shape, SameStore
<1>6. X = {} => t = s
  BY <1>3, <1>4, StateShape DEF Shape, SameStore
<1> QED BY <1>4, <1>5, <1>6 DEF t

LEMMA RemovedKeeps ==
    ASSUME NEW s \in States, NEW i \in DOMAIN s.nodes
    PROVE  /\ Removed(s, i) \in States /\ SameStore(Removed(s, i), s)
           /\ Removed(s, i).nodes = [j \in DOMAIN s.nodes \ {i} |-> s.nodes[j]]
<1> DEFINE t == Without(s, i)
           m == [j \in DOMAIN s.nodes \ {i} |-> s.nodes[j]]
<1>1. t = [s EXCEPT !.nodes = m]
  BY DEF Without
<1>2. m \in [DOMAIN s.nodes \ {i} -> Node] /\ DOMAIN s.nodes \ {i} \in SUBSET (Nat \ {0})
      /\ \A j \in DOMAIN s.nodes \ {i} : m[j] = s.nodes[j]
  BY StateFacts
<1> HIDE DEF m
<1>3. /\ Shape(t) /\ SameStore(t, s) /\ t.nodes = m /\ t.next = s.next /\ t.quar = s.quar
      /\ t.avail = s.avail /\ t.total = s.total
  BY <1>1, StateShape DEF Shape, SameStore
<1> HIDE DEF t
<1>4. \A j \in DOMAIN s.nodes \ {i} : Len(t.nodes[j].extents) = CountFor(t.nodes[j].size)
  BY <1>2, <1>3, StateFacts
<1>5. t \in States
  BY <1>2, <1>3, <1>4, StateFacts, BuildState DEF Shape, SameStore
<1>6. ToSet(s.nodes[i].extents) \in SUBSET Nat
  BY StateFacts, ExtentSet
<1>7. Removed(s, i) = Quarantine(t, ToSet(s.nodes[i].extents))
  BY DEF Removed, t
<1> QED BY <1>3, <1>5, <1>6, <1>7, QuarantineKeeps DEF SameStore, m

\* Replacing nodes by nodes whose extents fit.
LEMMA NodesKept ==
    ASSUME NEW s \in States, NEW D \in SUBSET (Nat \ {0}), NEW m \in [D -> Node],
           \A j \in D : Len(m[j].extents) = CountFor(m[j].size)
    PROVE  /\ [s EXCEPT !.nodes = m] \in States /\ SameStore([s EXCEPT !.nodes = m], s)
           /\ [s EXCEPT !.nodes = m].nodes = m /\ [s EXCEPT !.nodes = m].next = s.next
<1> DEFINE u == [s EXCEPT !.nodes = m]
<1>2. /\ Shape(u) /\ SameStore(u, s) /\ u.nodes = m /\ u.next = s.next /\ u.quar = s.quar
      /\ u.avail = s.avail /\ u.total = s.total
  BY StateShape DEF Shape, SameStore
<1> HIDE DEF u
<1>4. u \in States
  BY <1>2, StateFacts, BuildState DEF Shape, SameStore
<1> QED BY <1>2, <1>4 DEF u

LEMMA NextKept ==
    ASSUME NEW s \in States, NEW n \in Nat \ {0}
    PROVE  [s EXCEPT !.next = n] \in States /\ SameStore([s EXCEPT !.next = n], s)
<1> DEFINE u == [s EXCEPT !.next = n]
<1>1. /\ Shape(u) /\ SameStore(u, s) /\ u.nodes = s.nodes /\ u.next = n /\ u.quar = s.quar
      /\ u.avail = s.avail /\ u.total = s.total
  BY StateShape DEF Shape, SameStore
<1> HIDE DEF u
<1>2. u.next \in Nat \ {0}
  BY <1>1
<1>3. u \in States
  BY <1>1, <1>2, StateFacts, BuildState DEF Shape, SameStore
<1> QED BY <1>1, <1>3 DEF u

LEMMA CreateKeeps ==
    ASSUME NEW s \in States, NEW r \in Records, r.kind = "create", Admits(s, r)
    PROVE  ApplyCreate(s, r) \in States /\ SameStore(ApplyCreate(s, r), s)
<1> DEFINE node == [kind |-> r.what, parent |-> r.parent, name |-> r.name, size |-> r.size,
                    extents |-> r.extents, owner |-> r.name]
           a == Allocate(s, r.extents)
           m == [j \in DOMAIN s.nodes \cup {r.id} |-> IF j = r.id THEN node ELSE s.nodes[j]]
<1>1. /\ r.what \in {"dir", "file", "link"} /\ r.parent \in Nat /\ r.name \in Labels
      /\ r.size \in Nat /\ r.extents \in Seq(Nat)
  BY DEF Records
<1>2. r.id = s.next /\ Len(r.extents) = CountFor(r.size)
  BY DEF Admits, AdmitsCreate
<1>3. node \in Node /\ node.extents = r.extents /\ node.size = r.size
  BY <1>1 DEF Node
<1>4. /\ a \in States /\ SameStore(a, s) /\ a.nodes = s.nodes /\ a.next = s.next
  BY <1>1, AllocateKeeps
<1>5. ApplyCreate(s, r) = [a EXCEPT !.next = a.next + 1, !.nodes = m]
  BY <1>4 DEF ApplyCreate
<1> HIDE DEF a, node
<1> DEFINE D == DOMAIN s.nodes \cup {r.id}
<1>6. D \in SUBSET (Nat \ {0}) /\ m \in [D -> Node]
  BY <1>2, <1>3, StateFacts
<1>7. \A j \in D : Len(m[j].extents) = CountFor(m[j].size)
  BY <1>2, <1>3, StateFacts
<1>8. a.next + 1 \in Nat \ {0}
  BY <1>4, StateFacts
<1> HIDE DEF m, D
<1> DEFINE b == [a EXCEPT !.nodes = m]
<1>9. b \in States /\ SameStore(b, a)
  BY <1>4, <1>6, <1>7, NodesKept
<1>10. ApplyCreate(s, r) = [b EXCEPT !.next = a.next + 1]
  BY <1>4, <1>5, StateShape DEF Shape
<1> HIDE DEF b
<1> QED BY <1>4, <1>8, <1>9, <1>10, NextKept DEF SameStore

\* What a resize leaves of a file's extents, and what it frees.
LEMMA ResizeParts ==
    ASSUME NEW s \in States, NEW r \in Records, r.kind = "resize", Admits(s, r)
    PROVE  LET old == s.nodes[r.id].extents
               kept == SubSeq(old, 1, IF CountFor(r.size) < Len(old) THEN CountFor(r.size) ELSE Len(old))
           IN  /\ r.id \in DOMAIN s.nodes /\ s.nodes[r.id].kind = "file"
               /\ r.size \in Nat /\ r.extents \in Seq(Nat)
               /\ old \in Seq(Nat) /\ kept \in Seq(Nat) /\ kept \o r.extents \in Seq(Nat)
               /\ Len(kept \o r.extents) = CountFor(r.size)
               /\ r.size >= s.nodes[r.id].size => kept = old
<1> DEFINE old == s.nodes[r.id].extents
           n == IF CountFor(r.size) < Len(old) THEN CountFor(r.size) ELSE Len(old)
           kept == SubSeq(old, 1, n)
<1>1. /\ r.size \in Nat /\ r.extents \in Seq(Nat) /\ r.id \in Nat
  BY DEF Records
<1>2. /\ r.id \in Files(s)
      /\ Len(r.extents) = IF CountFor(r.size) - Len(old) > 0 THEN CountFor(r.size) - Len(old) ELSE 0
  BY DEF Admits, AdmitsResize
<1>3. r.id \in DOMAIN s.nodes /\ s.nodes[r.id].kind = "file"
  BY <1>2 DEF Files
<1>4. old \in Seq(Nat) /\ s.nodes[r.id].size \in Nat /\ Len(old) = CountFor(s.nodes[r.id].size)
  BY <1>3, StateFacts
<1>5. CountFor(r.size) \in Nat /\ (r.size >= s.nodes[r.id].size => CountFor(r.size) >= Len(old))
  BY <1>1, <1>4, Counts
<1> HIDE DEF old
<1>6. Len(old) \in Nat /\ n \in 0 .. Len(old)
  BY <1>4, <1>5
<1>7. kept \in Seq(Nat) /\ Len(kept) = n
  BY <1>4, <1>6
<1>8. Len(kept \o r.extents) = CountFor(r.size)
  <2>1. Len(kept \o r.extents) = n + Len(r.extents)
    BY <1>1, <1>7
  <2> HIDE DEF kept
  <2> QED BY <1>2, <1>5, <1>6, <2>1
<1>9. r.size >= s.nodes[r.id].size => kept = old
  <2> SUFFICES ASSUME r.size >= s.nodes[r.id].size PROVE kept = old
    OBVIOUS
  <2>1. n = Len(old)
    BY <1>5, <1>6
  <2> HIDE DEF n
  <2> QED BY <1>4, <2>1
<1>10. kept \o r.extents \in Seq(Nat)
  BY <1>1, <1>7
<1> QED BY <1>1, <1>3, <1>4, <1>7, <1>8, <1>9, <1>10 DEF old

LEMMA ResizeKeeps ==
    ASSUME NEW s \in States, NEW r \in Records, r.kind = "resize", Admits(s, r)
    PROVE  ApplyResize(s, r) \in States /\ SameStore(ApplyResize(s, r), s)
<1> DEFINE old == s.nodes[r.id].extents
           kept == SubSeq(old, 1, IF CountFor(r.size) < Len(old) THEN CountFor(r.size) ELSE Len(old))
           a == Allocate(s, r.extents)
           node == [s.nodes[r.id] EXCEPT !.size = r.size, !.extents = kept \o r.extents]
           m == [s.nodes EXCEPT ![r.id] = node]
           b == [a EXCEPT !.nodes = m]
<1>1. /\ r.id \in DOMAIN s.nodes /\ r.size \in Nat /\ r.extents \in Seq(Nat)
      /\ old \in Seq(Nat) /\ kept \o r.extents \in Seq(Nat)
      /\ Len(kept \o r.extents) = CountFor(r.size)
  BY ResizeParts
<1> DEFINE xs == kept \o r.extents
<1>2. xs \in Seq(Nat) /\ Len(xs) = CountFor(r.size)
  BY <1>1
<1>3. ApplyResize(s, r) = Quarantine([a EXCEPT !.nodes[r.id].size = r.size, !.nodes[r.id].extents = xs],
                                     ToSet(old) \ ToSet(kept))
  BY DEF ApplyResize
<1> DEFINE freed == ToSet(old) \ ToSet(kept)
<1>4. freed \in SUBSET Nat
  BY <1>1, ExtentSet
<1> HIDE DEF xs, freed, old, kept
<1>5. a \in States /\ SameStore(a, s) /\ a.nodes = s.nodes
  BY <1>1, AllocateKeeps
<1>6. s.nodes \in [DOMAIN s.nodes -> Node] /\ DOMAIN s.nodes \in SUBSET (Nat \ {0})
  BY StateFacts
<1>7. [a EXCEPT !.nodes[r.id].size = r.size, !.nodes[r.id].extents = xs]
        = [a EXCEPT !.nodes = [s.nodes EXCEPT ![r.id] = [s.nodes[r.id] EXCEPT !.size = r.size, !.extents = xs]]]
  BY <1>1, <1>5, <1>6, StateShape DEF Shape
<1>8. node \in Node /\ node.size = r.size /\ node.extents = xs
  BY <1>1, <1>2, <1>6 DEF Node, xs
<1>9. ApplyResize(s, r) = Quarantine(b, freed)
  BY <1>3, <1>7 DEF xs, freed, kept, old
<1> HIDE DEF a, node
<1>10. m \in [DOMAIN s.nodes -> Node]
  BY <1>6, <1>8
<1>11. \A j \in DOMAIN s.nodes : Len(m[j].extents) = CountFor(m[j].size)
  BY <1>2, <1>6, <1>8, StateFacts
<1> HIDE DEF m
<1>12. b \in States /\ SameStore(b, a)
  BY <1>5, <1>6, <1>10, <1>11, NodesKept, StateFacts
<1> HIDE DEF b
<1> QED BY <1>4, <1>5, <1>9, <1>12, QuarantineKeeps DEF SameStore

LEMMA RenameKeeps ==
    ASSUME NEW s \in States, NEW r \in Records, r.kind = "rename", Admits(s, r)
    PROVE  ApplyRename(s, r) \in States /\ SameStore(ApplyRename(s, r), s)
<1> DEFINE i == CHOOSE k \in Entry(s, r.parent, r.name) : TRUE
           over == Entry(s, r.newParent, r.newName)
           t == IF over = {} THEN s ELSE Removed(s, CHOOSE j \in over : TRUE)
<1>1. r.newParent \in Nat /\ r.newName \in Labels
  BY DEF Records
<1>2. Entry(s, r.parent, r.name) # {} /\ <<r.parent, r.name>> # <<r.newParent, r.newName>>
  BY DEF Admits, AdmitsRename
<1>3. /\ i \in DOMAIN s.nodes /\ s.nodes[i].parent = r.parent /\ s.nodes[i].name = r.name
  BY <1>2 DEF Entry, Children
<1>4. \A j \in over : j \in DOMAIN s.nodes /\ s.nodes[j].parent = r.newParent /\ s.nodes[j].name = r.newName
  BY DEF Entry, Children
<1>5. t \in States /\ SameStore(t, s) /\ i \in DOMAIN t.nodes
  <2>1. CASE over = {}
    BY <1>3, <2>1 DEF SameStore
  <2>2. CASE over # {}
    <3>1. (CHOOSE j \in over : TRUE) \in over
      BY <2>2
    <3> DEFINE j == CHOOSE j \in over : TRUE
    <3>2. j \in DOMAIN s.nodes /\ j # i /\ t = Removed(s, j)
      BY <1>2, <1>3, <1>4, <2>2, <3>1
    <3> HIDE DEF j, over, i, t
    <3> QED BY <1>3, <3>2, RemovedKeeps
  <2> QED BY <2>1, <2>2
<1>6. ApplyRename(s, r) = [t EXCEPT !.nodes[i].parent = r.newParent, !.nodes[i].name = r.newName]
  BY DEF ApplyRename
<1> HIDE DEF i, over, t
<1> DEFINE node == [t.nodes[i] EXCEPT !.parent = r.newParent, !.name = r.newName]
           m == [t.nodes EXCEPT ![i] = node]
<1>7. t.nodes \in [DOMAIN t.nodes -> Node] /\ DOMAIN t.nodes \in SUBSET (Nat \ {0})
  BY <1>5, StateFacts
<1>8. node \in Node /\ node.size = t.nodes[i].size /\ node.extents = t.nodes[i].extents
  BY <1>1, <1>5, <1>7 DEF Node
<1>9. [t EXCEPT !.nodes[i].parent = r.newParent, !.nodes[i].name = r.newName] = [t EXCEPT !.nodes = m]
  BY <1>5, <1>7, StateShape DEF Shape
<1> HIDE DEF node
<1>10. m \in [DOMAIN t.nodes -> Node]
  BY <1>7, <1>8
<1>11. \A j \in DOMAIN t.nodes : Len(m[j].extents) = CountFor(m[j].size)
  BY <1>5, <1>7, <1>8, StateFacts
<1>13. ApplyRename(s, r) = [t EXCEPT !.nodes = m]
  BY <1>6, <1>9
<1> HIDE DEF m
<1>12. ApplyRename(s, r) \in States /\ SameStore(ApplyRename(s, r), t)
  <2>1. [t EXCEPT !.nodes = m] \in States /\ SameStore([t EXCEPT !.nodes = m], t)
    BY <1>5, <1>7, <1>10, <1>11, NodesKept
  <2> QED BY <1>13, <2>1
<1> QED BY <1>5, <1>12 DEF SameStore

\* Whatever record is admitted, the reducer gives a state of the same store.
LEMMA ApplyKeeps ==
    ASSUME NEW s \in States, NEW r \in Records, Admits(s, r)
    PROVE  Apply(s, r) \in States /\ SameStore(Apply(s, r), s)
<1>1. r.kind \in {"create", "remove", "resize", "rename", "reserve", "attributes"}
  BY DEF Records
<1>2. CASE r.kind = "create"
  BY <1>2, CreateKeeps DEF Apply
<1>3. CASE r.kind = "remove"
  <2>1. Entry(s, r.parent, r.name) # {}
    BY <1>3 DEF Admits, AdmitsRemoval
  <2>2. (CHOOSE i \in Entry(s, r.parent, r.name) : TRUE) \in DOMAIN s.nodes
    BY <2>1 DEF Entry, Children
  <2>3. Apply(s, r) = Removed(s, CHOOSE i \in Entry(s, r.parent, r.name) : TRUE)
    BY <1>3 DEF Apply
  <2> QED BY <2>2, <2>3, RemovedKeeps
<1>4. CASE r.kind = "resize"
  BY <1>4, ResizeKeeps DEF Apply
<1>5. CASE r.kind = "rename"
  BY <1>5, RenameKeeps DEF Apply
<1>6. CASE r.kind = "reserve"
  <2>1. r.extents \in Seq(Nat)
    BY <1>6 DEF Records
  <2>2. ToSet(r.extents) \in SUBSET Nat
    BY <2>1, ExtentSet
  <2>3. Apply(s, r) = Quarantine(Allocate(s, r.extents), ToSet(r.extents))
    BY <1>6 DEF Apply, ApplyReserve
  <2>4. Allocate(s, r.extents) \in States /\ SameStore(Allocate(s, r.extents), s)
    BY <2>1, AllocateKeeps
  <2> QED BY <2>2, <2>3, <2>4, QuarantineKeeps DEF SameStore
<1>7. CASE r.kind = "attributes"
  BY <1>7 DEF Apply, SameStore
<1> QED BY <1>1, <1>2, <1>3, <1>4, <1>5, <1>6, <1>7

-----------------------------------------------------------------------------
(***************************************************************************)
(* Two growing writes to a file are one: #deferResize merges the records.  *)
(***************************************************************************)
LEMMA ToSetConcat ==
    ASSUME NEW xs \in Seq(Nat), NEW ys \in Seq(Nat)
    PROVE  ToSet(xs \o ys) = ToSet(xs) \cup ToSet(ys)
<1>1. ToSet(xs \o ys) = Range(xs \o ys) /\ ToSet(xs) = Range(xs) /\ ToSet(ys) = Range(ys)
  BY DEF ToSet, Range
<1> QED BY <1>1, RangeConcatenation

\* Two assignments in a row are one.
LEMMA AssignedTwice ==
    ASSUME NEW s \in States, NEW xs \in Seq(Nat), NEW ys \in Seq(Nat), Assignable(s, xs),
           Assignable(Allocate(s, xs), ys)
    PROVE  /\ Assignable(s, xs \o ys)
           /\ Allocate(s, xs \o ys) = Allocate(Allocate(s, xs), ys)
<1> DEFINE t == Allocate(s, xs)
           F == Fresh(s, xs)
           G == Fresh(t, ys)
           m == Cardinality(F)
           n == Cardinality(G)
           X == ToSet(xs)
           Y == ToSet(ys)
<1>1. /\ t \in States /\ t.avail = s.avail \ X /\ t.total = s.total + m
      /\ t = [s EXCEPT !.avail = s.avail \ X, !.total = s.total + m]
  BY AllocateKeeps
<1>2. IsFiniteSet(X) /\ IsFiniteSet(Y) /\ X \subseteq Nat /\ Y \subseteq Nat /\ m \in Nat /\ n \in Nat
  BY <1>1, ExtentSet
<1>3. s.total \in Nat /\ s.avail \subseteq 0 .. s.total - 1
  BY StateFacts
<1>4. /\ Cardinality(X) = Len(xs) /\ X \ F \subseteq s.avail
      /\ F = s.total .. s.total + m - 1 /\ s.total + m <= MaxExtents
      /\ F = {x \in X : x >= s.total}
  BY DEF Assignable, Fresh
<1>5. /\ Cardinality(Y) = Len(ys) /\ Y \ G \subseteq t.avail
      /\ G = t.total .. t.total + n - 1 /\ t.total + n <= MaxExtents
      /\ G = {x \in Y : x >= t.total}
  BY DEF Assignable, Fresh
<1> DEFINE Z == ToSet(xs \o ys)
           H == Fresh(s, xs \o ys)
<1>6. Z = X \cup Y /\ H = {x \in Z : x >= s.total} /\ xs \o ys \in Seq(Nat)
  BY ToSetConcat DEF Fresh
<1>6a. Allocate(s, xs \o ys) = [s EXCEPT !.avail = s.avail \ Z, !.total = s.total + Cardinality(H)]
  BY <1>6, AllocateKeeps
<1>6b. Allocate(t, ys) = [t EXCEPT !.avail = t.avail \ Y, !.total = t.total + n]
  BY <1>1, AllocateKeeps
<1>6c. Len(xs \o ys) = Len(xs) + Len(ys)
  OBVIOUS
<1>6d. Assignable(s, xs \o ys) <=> /\ Cardinality(Z) = Len(xs \o ys)
                                   /\ Z \ H \subseteq s.avail
                                   /\ H = s.total .. (s.total + Cardinality(H) - 1)
                                   /\ s.total + Cardinality(H) <= MaxExtents
  BY DEF Assignable
<1>6e. Shape(s)
  BY StateShape
<1> HIDE DEF t, F, G, m, n, X, Y, Z, H
<1>7. X \cap Y = {}
  <2> SUFFICES ASSUME NEW x \in X, x \in Y PROVE FALSE
    OBVIOUS
  <2>1. x \in Nat /\ x < s.total + m
    <3>1. CASE x \in F
      BY <1>2, <1>3, <1>4, <3>1
    <3>2. CASE x \notin F
      BY <1>2, <1>3, <1>4, <3>2
    <3> QED BY <3>1, <3>2
  <2>2. x \notin G
    BY <1>1, <1>2, <1>3, <1>5, <2>1
  <2> QED BY <1>1, <1>5, <2>2
<1>8. Cardinality(Z) = Len(xs \o ys)
  <2>1. Cardinality(X \cap Y) = 0
    BY <1>7, FS_EmptySet
  <2>2. Cardinality(X \cup Y) = Cardinality(X) + Cardinality(Y) - Cardinality(X \cap Y)
    BY <1>2, FS_Union
  <2>3. Len(xs) \in Nat /\ Len(ys) \in Nat
    OBVIOUS
  <2> QED BY <1>4, <1>5, <1>6, <1>6c, <2>1, <2>2, <2>3
<1>9. H = F \cup G
  <2>1. ASSUME NEW x \in H PROVE x \in F \cup G
    <3>1. CASE x \in X
      BY <1>4, <1>6, <2>1, <3>1
    <3>2. CASE x \in Y /\ x \notin G
      BY <1>1, <1>3, <1>5, <1>6, <2>1, <3>2
    <3> QED BY <1>6, <2>1, <3>1, <3>2
  <2>2. ASSUME NEW x \in F PROVE x \in H
    BY <1>4, <1>6
  <2>3. ASSUME NEW x \in G PROVE x \in H
    BY <1>1, <1>2, <1>3, <1>5, <1>6
  <2> QED BY <2>1, <2>2, <2>3
<1>10. H = s.total .. s.total + (m + n) - 1
  <2>1. F = s.total .. s.total + m - 1 /\ G = s.total + m .. s.total + m + n - 1
    BY <1>1, <1>4, <1>5
  <2>2. s.total \in Nat /\ m \in Nat /\ n \in Nat
    BY <1>2, <1>3
  <2> QED BY <1>9, <2>1, <2>2
<1>11. Cardinality(H) = m + n
  <2> DEFINE e == s.total + (m + n) - 1
  <2>1. e \in Int /\ s.total \in Int
    BY <1>2, <1>3
  <2>2. Cardinality(s.total .. e) = IF s.total > e THEN 0 ELSE e - s.total + 1
    <3> HIDE DEF e
    <3> QED BY <2>1, FS_Interval
  <2> QED BY <1>2, <1>3, <1>10, <2>2
<1>12. Z \ H \subseteq s.avail
  BY <1>1, <1>4, <1>5, <1>6, <1>9
<1>13. Assignable(s, xs \o ys)
  <2>1. t.total + n = s.total + (m + n)
    BY <1>1, <1>2, <1>3
  <2> QED BY <1>5, <1>6d, <1>8, <1>10, <1>11, <1>12, <2>1
<1>14. Allocate(s, xs \o ys) = Allocate(t, ys)
  <2>1. s.avail \ Z = t.avail \ Y
    BY <1>1, <1>6
  <2>2. s.total + Cardinality(H) = t.total + n
    BY <1>1, <1>2, <1>3, <1>11
  <2> DEFINE v == s.avail \ Z
             w == s.total + Cardinality(H)
  <2>3. Allocate(s, xs \o ys) = [s EXCEPT !.avail = v, !.total = w]
    BY <1>6a
  <2>4. Allocate(t, ys) = [t EXCEPT !.avail = v, !.total = w]
    BY <1>6b, <2>1, <2>2
  <2>5. t = [s EXCEPT !.avail = s.avail \ X, !.total = s.total + m]
    BY <1>1
  <2> HIDE DEF v, w
  <2> QED BY <1>6e, <2>3, <2>4, <2>5 DEF Shape
<1> QED BY <1>13, <1>14 DEF t

Sized(n, size, extents) == [n EXCEPT !.size = size, !.extents = extents]

\* A resize that does not shrink: nothing is freed.
LEMMA GrowingResize ==
    ASSUME NEW s \in States, NEW r \in Records, r.kind = "resize", Admits(s, r),
           r.size >= s.nodes[r.id].size
    PROVE  /\ r.id \in DOMAIN s.nodes
           /\ ApplyResize(s, r)
                = [Allocate(s, r.extents) EXCEPT
                      !.nodes = [s.nodes EXCEPT ![r.id] =
                          Sized(s.nodes[r.id], r.size, s.nodes[r.id].extents \o r.extents)]]
           /\ ApplyResize(s, r) \in States
<1> DEFINE old == s.nodes[r.id].extents
           kept == SubSeq(old, 1, IF CountFor(r.size) < Len(old) THEN CountFor(r.size) ELSE Len(old))
           a == Allocate(s, r.extents)
           xs == old \o r.extents
           b == [a EXCEPT !.nodes = [s.nodes EXCEPT ![r.id] = Sized(s.nodes[r.id], r.size, xs)]]
<1>1. r.id \in DOMAIN s.nodes /\ kept = old /\ r.extents \in Seq(Nat)
  BY ResizeParts
<1>2. ApplyResize(s, r) = Quarantine([a EXCEPT !.nodes[r.id].size = r.size, !.nodes[r.id].extents = kept \o r.extents],
                                     ToSet(old) \ ToSet(kept))
  BY DEF ApplyResize
<1> HIDE DEF kept
<1>3. ApplyResize(s, r) = Quarantine([a EXCEPT !.nodes[r.id].size = r.size, !.nodes[r.id].extents = xs], {})
  BY <1>1, <1>2
<1>4. a \in States /\ a.nodes = s.nodes /\ Shape(a)
  BY <1>1, AllocateKeeps, StateShape
<1>5. s.nodes \in [DOMAIN s.nodes -> Node]
  BY StateFacts
<1> HIDE DEF a, xs
<1>6. [a EXCEPT !.nodes[r.id].size = r.size, !.nodes[r.id].extents = xs] = b
  BY <1>1, <1>4, <1>5 DEF Shape, Sized
<1>7. Shape(b) /\ b.quar = a.quar
  BY <1>4 DEF Shape
<1>8. b.quar = [x \in DOMAIN b.quar |-> b.quar[x]]
  BY <1>4, <1>7, StateFacts
<1> HIDE DEF b
<1>9. Quarantine(b, {}) = [b EXCEPT !.quar = [x \in DOMAIN b.quar |-> b.quar[x]]]
  <2>1. [x \in DOMAIN b.quar \cup {} |-> IF x \in {} THEN 0 ELSE b.quar[x]] = [x \in DOMAIN b.quar |-> b.quar[x]]
    OBVIOUS
  <2> QED BY <2>1 DEF Quarantine
<1>10. Quarantine(b, {}) = b
  BY <1>7, <1>8, <1>9 DEF Shape
<1>11. ApplyResize(s, r) = b
  BY <1>3, <1>6, <1>10
<1>12. ApplyResize(s, r) \in States
  BY ResizeKeeps
<1> QED BY <1>1, <1>11, <1>12 DEF b, a, xs

LEMMA ConcatThree ==
    ASSUME NEW x \in Seq(Nat), NEW y \in Seq(Nat), NEW z \in Seq(Nat)
    PROVE  (x \o y) \o z = x \o (y \o z)
  OBVIOUS

\* A node with another size and other extents.
NodeFields == {"kind", "parent", "name", "size", "extents", "owner"}
LEMMA ResizedNode ==
    ASSUME NEW n, DOMAIN n = NodeFields, NEW b, NEW es, NEW m, m = Sized(n, b, es)
    PROVE  /\ m = [kind |-> n.kind, parent |-> n.parent, name |-> n.name, size |-> b,
                   extents |-> es, owner |-> n.owner]
           /\ DOMAIN m = NodeFields /\ m.size = b /\ m.extents = es
           /\ m.kind = n.kind /\ m.parent = n.parent /\ m.name = n.name /\ m.owner = n.owner
<1>1. DOMAIN m = DOMAIN n
  BY DEF Sized
<1>2. m.kind = n.kind /\ m.parent = n.parent /\ m.name = n.name /\ m.owner = n.owner /\ m.size = b /\ m.extents = es
  BY DEF NodeFields, Sized
<1>3. m = [x \in DOMAIN m |-> m[x]]
  BY DEF Sized
<1>4. m = [kind |-> n.kind, parent |-> n.parent, name |-> n.name, size |-> b,
           extents |-> es, owner |-> n.owner]
  <2>1. DOMAIN m = {"kind", "parent", "name", "size", "extents", "owner"}
    BY <1>1 DEF NodeFields
  <2>2. m = [x \in {"kind", "parent", "name", "size", "extents", "owner"} |-> m[x]]
    BY <1>3, <2>1
  <2> HIDE <1>1, <1>3
  <2> QED BY <1>2, <2>2
<1> QED BY <1>1, <1>2, <1>4

LEMMA ResizedTwice ==
    ASSUME NEW n, DOMAIN n = NodeFields, NEW b, NEW es, NEW m, m = Sized(n, b, es),
           NEW c, NEW zs
    PROVE  Sized(m, c, zs) = Sized(n, c, zs)
<1> DEFINE p == Sized(m, c, zs)
           q == Sized(n, c, zs)
<1>1. /\ DOMAIN m = NodeFields
      /\ m.kind = n.kind /\ m.parent = n.parent /\ m.name = n.name /\ m.owner = n.owner
  BY ResizedNode
<1>2. p = [kind |-> m.kind, parent |-> m.parent, name |-> m.name, size |-> c, extents |-> zs, owner |-> m.owner]
  <2>1. p = Sized(m, c, zs)
    OBVIOUS
  <2> HIDE DEF p
  <2> QED BY <1>1, <2>1, ResizedNode
<1>3. q = [kind |-> n.kind, parent |-> n.parent, name |-> n.name, size |-> c, extents |-> zs, owner |-> n.owner]
  <2>1. q = Sized(n, c, zs)
    OBVIOUS
  <2> HIDE DEF q
  <2> QED BY <2>1, ResizedNode
<1> HIDE DEF p, q
<1>4. p = q
  BY <1>1, <1>2, <1>3
<1> QED BY <1>4 DEF p, q

\* A node that grows twice.
LEMMA GrownNode ==
    ASSUME NEW n \in Node, NEW b \in Nat, NEW c \in Nat, NEW xs \in Seq(Nat), NEW ys \in Seq(Nat),
           NEW m, m = Sized(n, b, n.extents \o xs)
    PROVE  /\ m.size = b /\ m.extents = n.extents \o xs
           /\ Sized(m, c, m.extents \o ys)
                = Sized(n, c, n.extents \o (xs \o ys))
<1>1. n.extents \in Seq(Nat) /\ DOMAIN n = NodeFields
  BY DEF Node, NodeFields
<1>2. (n.extents \o xs) \o ys = n.extents \o (xs \o ys)
  BY <1>1, ConcatThree
<1> DEFINE es == n.extents \o xs
           zs == n.extents \o (xs \o ys)
<1>3. m = Sized(n, b, es)
  OBVIOUS
<1>4. es \o ys = zs
  BY <1>2
<1> HIDE DEF es, zs
<1>5. m.size = b /\ m.extents = es
  BY <1>1, <1>3, ResizedNode
<1>6. Sized(m, c, zs) = Sized(n, c, zs)
  BY <1>1, <1>3, ResizedTwice
<1>7. m.extents \o ys = zs
  BY <1>4, <1>5
<1> QED BY <1>5, <1>6, <1>7 DEF es, zs

\* The extents of two growing writes are those of one.
LEMMA GrownCounts ==
    ASSUME NEW a \in Nat, NEW b \in Nat, NEW c \in Nat, a <= b, b <= c, NEW l \in Nat, NEW x \in Nat, NEW y \in Nat,
           l = CountFor(a),
           x = IF CountFor(b) - l > 0 THEN CountFor(b) - l ELSE 0,
           y = IF CountFor(c) - (l + x) > 0 THEN CountFor(c) - (l + x) ELSE 0
    PROVE  x + y = IF CountFor(c) - l > 0 THEN CountFor(c) - l ELSE 0
<1>1. /\ CountFor(a) \in Nat /\ CountFor(b) \in Nat /\ CountFor(c) \in Nat
      /\ CountFor(a) <= CountFor(b) /\ CountFor(b) <= CountFor(c)
  BY Counts
<1> QED BY <1>1

\* A state differs from another in its nodes only.
LEMMA SameButNodes ==
    ASSUME NEW a, NEW t, NEW m, NEW k, Shape(a), t = [a EXCEPT !.nodes = k], NEW v, NEW w
    PROVE  [[a EXCEPT !.avail = v, !.total = w] EXCEPT !.nodes = m]
             = [[t EXCEPT !.avail = v, !.total = w] EXCEPT !.nodes = m]
  BY DEF Shape

\* Joining a growing write to the pending one changes nothing of what the two give.
LEMMA MergedResize ==
    ASSUME NEW s \in States, NEW p \in Records, NEW r \in Records,
           p.kind = "resize", p.operation = "write", Admits(s, p), p.size > s.nodes[p.id].size,
           r.kind = "resize", r.operation = "write", r.id = p.id, Admits(Apply(s, p), r),
           r.size > Apply(s, p).nodes[r.id].size
    PROVE  LET q == [r EXCEPT !.extents = p.extents \o r.extents]
           IN  /\ q \in Records /\ q.kind = "resize" /\ q.operation = "write" /\ q.id = r.id
               /\ Admits(s, q) /\ q.size > s.nodes[q.id].size
               /\ Apply(s, q) = Apply(Apply(s, p), r)
<1> DEFINE q == [r EXCEPT !.extents = p.extents \o r.extents]
           i == r.id
           t == Apply(s, p)
           n == s.nodes[i]
           xs == p.extents \o r.extents
           a == Allocate(s, p.extents)
           np == Sized(n, p.size, n.extents \o p.extents)
<1>1. /\ p.size \in Nat /\ p.extents \in Seq(Nat) /\ p.id \in Nat
      /\ r.size \in Nat /\ r.extents \in Seq(Nat) /\ r.id \in Nat
      /\ r \in [kind : {"resize"}, operation : {"write", "truncate"}, id : Nat, size : Nat, extents : Seq(Nat)]
  BY DEF Records
<1>2. xs \in Seq(Nat) /\ Len(xs) = Len(p.extents) + Len(r.extents)
  BY <1>1
<1>3. /\ q \in Records /\ q.kind = "resize" /\ q.operation = "write" /\ q.id = i
      /\ q.size = r.size /\ q.extents = xs
  <2> HIDE DEF xs
  <2>1. q \in [kind : {"resize"}, operation : {"write", "truncate"}, id : Nat, size : Nat, extents : Seq(Nat)]
        /\ q.kind = "resize" /\ q.operation = "write" /\ q.id = i /\ q.size = r.size /\ q.extents = xs
    BY <1>1, <1>2 DEF xs
  <2> QED BY <2>1 DEF Records
<1>4. t = ApplyResize(s, p) /\ Apply(t, r) = ApplyResize(t, r) /\ Apply(s, q) = ApplyResize(s, q)
  BY <1>3 DEF Apply
<1>5. /\ i \in DOMAIN s.nodes /\ n \in Node /\ n.size \in Nat /\ n.extents \in Seq(Nat)
      /\ Len(n.extents) \in Nat /\ Len(p.extents) \in Nat /\ Len(r.extents) \in Nat
      /\ Len(n.extents) = CountFor(n.size) /\ s.nodes \in [DOMAIN s.nodes -> Node]
  BY <1>1, ResizeParts, StateFacts
<1>6. t = [a EXCEPT !.nodes = [s.nodes EXCEPT ![i] = np]] /\ t \in States
  <2>1. p.size >= s.nodes[p.id].size
    BY <1>1, <1>5
  <2> QED BY <1>4, <2>1, GrowingResize
<1>7. /\ Shape(a) /\ a.nodes = s.nodes /\ a \in States
  BY <1>1, AllocateKeeps, StateShape
<1>8. /\ np.size = p.size /\ np.extents = n.extents \o p.extents
      /\ Sized(np, r.size, np.extents \o r.extents)
           = Sized(n, r.size, n.extents \o xs)
      /\ Len(np.extents) = Len(n.extents) + Len(p.extents)
  <2> DEFINE b == p.size
             c == r.size
             ps == p.extents
             rs == r.extents
  <2>1. /\ n \in Node /\ b \in Nat /\ c \in Nat /\ ps \in Seq(Nat) /\ rs \in Seq(Nat)
        /\ n.extents \in Seq(Nat) /\ np = Sized(n, b, n.extents \o ps)
    BY <1>1, <1>5
  <2> HIDE DEF n, np, b, c, ps, rs
  <2>2. /\ np.size = b /\ np.extents = n.extents \o ps
        /\ Sized(np, c, np.extents \o rs) = Sized(n, c, n.extents \o (ps \o rs))
    <3>1. DOMAIN n = NodeFields
      BY <2>1 DEF Node, NodeFields
    <3>2. np.size = b /\ np.extents = n.extents \o ps
      <4> DEFINE es == n.extents \o ps
      <4>1. np = Sized(n, b, es)
        BY <2>1
      <4> HIDE DEF es
      <4>2. np.size = b /\ np.extents = es
        BY ONLY <3>1, <4>1, ResizedNode
      <4> QED BY <4>2 DEF es
    <3>3. Sized(np, c, np.extents \o rs) = Sized(n, c, n.extents \o (ps \o rs))
      BY <2>1, GrownNode
    <3> QED BY <3>2, <3>3
  <2>3. Len(n.extents \o ps) = Len(n.extents) + Len(ps)
    BY <2>1
  <2> QED BY <2>2, <2>3 DEF b, c, ps, rs
<1> HIDE DEF a, np, n, q, xs, t
<1>9. /\ t.avail = a.avail /\ t.total = a.total /\ t.nodes = [s.nodes EXCEPT ![i] = np]
      /\ t.nodes[i] = np
  BY <1>5, <1>6, <1>7 DEF Shape
<1>9a. n = s.nodes[r.id] /\ n = s.nodes[p.id] /\ q.id = r.id /\ a = Allocate(s, p.extents) /\ t = Apply(s, p)
  BY <1>3 DEF n, a, t
<1>9b. n.size < p.size /\ p.size < r.size
  BY <1>8, <1>9, <1>9a
<1>10. /\ Assignable(s, p.extents) /\ Assignable(t, r.extents)
       /\ Len(p.extents) = IF CountFor(p.size) - Len(n.extents) > 0 THEN CountFor(p.size) - Len(n.extents) ELSE 0
       /\ Len(r.extents) = IF CountFor(r.size) - Len(np.extents) > 0 THEN CountFor(r.size) - Len(np.extents) ELSE 0
       /\ i \in Files(s)
  <2>1. AdmitsResize(s, p) /\ AdmitsResize(t, r)
    BY <1>9a DEF Admits
  <2> QED BY <2>1, <1>9, <1>9a DEF AdmitsResize
<1> DEFINE v == t.avail \ ToSet(r.extents)
           w == t.total + Cardinality(Fresh(t, r.extents))
<1>11. /\ Assignable(a, r.extents) /\ Allocate(a, r.extents) = [a EXCEPT !.avail = v, !.total = w]
       /\ Allocate(t, r.extents) = [t EXCEPT !.avail = v, !.total = w]
  <2>1. Fresh(a, r.extents) = Fresh(t, r.extents)
    BY <1>9 DEF Fresh
  <2>2. Assignable(a, r.extents)
    BY <1>9, <1>10, <2>1 DEF Assignable
  <2>3. Allocate(t, r.extents) = [t EXCEPT !.avail = v, !.total = w]
    BY <1>1, <1>6, AllocateKeeps
  <2>4. Allocate(a, r.extents) = [a EXCEPT !.avail = a.avail \ ToSet(r.extents), !.total = a.total + Cardinality(Fresh(a, r.extents))]
    BY <1>1, <1>7, AllocateKeeps
  <2>5. a.avail \ ToSet(r.extents) = v /\ a.total + Cardinality(Fresh(a, r.extents)) = w
    BY <1>9, <2>1
  <2> HIDE DEF v, w
  <2> QED BY <2>2, <2>3, <2>4, <2>5
<1> HIDE DEF v, w
<1>12. Assignable(s, xs) /\ Allocate(s, xs) = Allocate(a, r.extents)
  BY <1>1, <1>9a, <1>10, <1>11, AssignedTwice DEF xs
<1>13. q.size > n.size /\ n.size <= p.size /\ p.size <= r.size
  <2>1. n.size \in Nat /\ p.size \in Nat /\ r.size \in Nat /\ q.size = r.size
    BY <1>1, <1>3, <1>5
  <2> QED BY <1>9b, <2>1
<1>14. Len(xs) = IF CountFor(q.size) - Len(n.extents) > 0 THEN CountFor(q.size) - Len(n.extents) ELSE 0
  <2>1. Len(r.extents) = IF CountFor(r.size) - (Len(n.extents) + Len(p.extents)) > 0
                         THEN CountFor(r.size) - (Len(n.extents) + Len(p.extents)) ELSE 0
    <3>1. Len(np.extents) = Len(n.extents) + Len(p.extents)
      BY <1>8
    <3>2. Len(r.extents) = IF CountFor(r.size) - Len(np.extents) > 0 THEN CountFor(r.size) - Len(np.extents) ELSE 0
      BY <1>10
    <3> QED BY <3>1, <3>2, Zenon
  <2>2. Len(p.extents) + Len(r.extents)
          = IF CountFor(r.size) - Len(n.extents) > 0 THEN CountFor(r.size) - Len(n.extents) ELSE 0
    <3>1. /\ n.size \in Nat /\ p.size \in Nat /\ r.size \in Nat /\ n.size <= p.size /\ p.size <= r.size
          /\ Len(n.extents) \in Nat /\ Len(p.extents) \in Nat /\ Len(r.extents) \in Nat
          /\ Len(n.extents) = CountFor(n.size)
      BY <1>1, <1>5, <1>13
    <3>2. Len(p.extents) = IF CountFor(p.size) - Len(n.extents) > 0 THEN CountFor(p.size) - Len(n.extents) ELSE 0
      BY <1>10
    <3> QED BY <2>1, <3>1, <3>2, GrownCounts
  <2> QED BY <1>2, <1>3, <2>2
<1>15. Admits(s, q)
  <2>1. AdmitsResize(s, q)
    BY <1>3, <1>9a, <1>10, <1>12, <1>14 DEF AdmitsResize
  <2> QED BY <1>3, <2>1 DEF Admits
<1> DEFINE nq == Sized(n, r.size, n.extents \o xs)
           m == [s.nodes EXCEPT ![i] = nq]
<1>16. ApplyResize(s, q) = [Allocate(s, xs) EXCEPT !.nodes = m]
  <2>1. q.size >= s.nodes[q.id].size
    BY <1>1, <1>3, <1>5, <1>9a, <1>13
  <2>2. ApplyResize(s, q) = [Allocate(s, q.extents) EXCEPT
             !.nodes = [s.nodes EXCEPT ![q.id] =
                           Sized(s.nodes[q.id], q.size, s.nodes[q.id].extents \o q.extents)]]
    BY <1>3, <1>15, <2>1, GrowingResize
  <2> QED BY <1>3, <1>9a, <2>2
<1>17. ApplyResize(t, r) = [Allocate(t, r.extents) EXCEPT !.nodes = m]
  <2>1. r.size >= t.nodes[r.id].size
    BY <1>1, <1>8, <1>9, <1>13
  <2>2. Admits(t, r)
    BY <1>9a
  <2>3. ApplyResize(t, r) = [Allocate(t, r.extents) EXCEPT
             !.nodes = [t.nodes EXCEPT ![r.id] =
                           Sized(t.nodes[r.id], r.size, t.nodes[r.id].extents \o r.extents)]]
    BY <1>6, <2>1, <2>2, GrowingResize
  <2>4. [t.nodes EXCEPT ![i] = nq] = m
    <3> HIDE DEF nq
    <3> QED BY <1>5, <1>9
  <2> HIDE DEF m
  <2> QED BY <1>8, <1>9, <2>3, <2>4
<1> HIDE DEF nq, m
<1>18. ApplyResize(s, q) = ApplyResize(t, r)
  <2> DEFINE k == [s.nodes EXCEPT ![i] = np]
  <2>2. t = [a EXCEPT !.nodes = k]
    BY <1>6
  <2> HIDE DEF k
  <2>3. [[a EXCEPT !.avail = v, !.total = w] EXCEPT !.nodes = m]
          = [[t EXCEPT !.avail = v, !.total = w] EXCEPT !.nodes = m]
    BY <1>7, <2>2, SameButNodes
  <2> QED BY <1>11, <1>12, <1>16, <1>17, <2>3
<1>19. q.size > s.nodes[q.id].size
  BY <1>9a, <1>13
<1> QED BY <1>3, <1>4, <1>9a, <1>15, <1>18, <1>19 DEF q

-----------------------------------------------------------------------------
(***************************************************************************)
(* Frames, logs and files.                                                 *)
(***************************************************************************)
Frames == [at : Nat, gen : Nat, seq : Nat, rec : Records]
Apart(L) == \A f, g \in L : f # g => End(f) <= g.at \/ End(g) <= f.at
Logs == {L \in SUBSET Frames : IsFiniteSet(L) /\ Apart(L)}
Bases == [ok : BOOLEAN, state : States]
Effects == [op : {"frame"}, frame : Frames] \cup [op : {"cut"}, at : Nat]
           \cup [op : {"reset"}] \cup [op : {"base"}, state : States]
MetaFiles == [base : Bases, log : Logs, pending : Seq(Effects)]
MetaFile(base, L, pending) == [base |-> base, log |-> L, pending |-> pending]

LEMMA FrameTakesRoom ==
    ASSUME NEW f \in Frames
    PROVE  f.at \in Nat /\ End(f) \in Nat /\ f.at < End(f) /\ f.seq \in Nat /\ f.gen \in Nat /\ f.rec \in Records
<1>1. f.at \in Nat /\ f.rec \in Records /\ f.seq \in Nat /\ f.gen \in Nat
  BY DEF Frames
<1>2. f.rec.kind \in {"create", "resize", "reserve", "remove", "rename", "attributes"}
      /\ (f.rec.kind \in {"create", "resize", "reserve"} => f.rec.extents \in Seq(Nat))
  BY <1>1 DEF Records
<1>3. Width(f.rec) \in Nat /\ Width(f.rec) > 0
  <2>1. f.rec.kind \in {"create", "resize", "reserve"} => Len(f.rec.extents) \in Nat
    BY <1>2
  <2>2. CASE f.rec.kind \in {"create", "resize"}
    BY <2>1, <2>2 DEF Width
  <2>3. CASE f.rec.kind = "reserve"
    BY <2>1, <2>3 DEF Width
  <2>4. CASE f.rec.kind \notin {"create", "resize", "reserve"}
    BY <2>4 DEF Width
  <2> QED BY <2>2, <2>3, <2>4
<1> QED BY <1>1, <1>3 DEF End

LEMMA InitialIsAState == InitialState \in States
<1>1. InitialState.nodes \in [{Root} -> Node]
  BY DEF InitialState, Node, Labels, Root
<1>2. CountFor(0) = 0
  BY ExtentAssumption DEF CountFor
<1>3. /\ InitialState.gen = 1 /\ InitialState.next = 2 /\ InitialState.active = "a"
      /\ InitialState.retained \in [MetaNames -> Nat] /\ InitialState.total = 0 /\ InitialState.avail = {}
      /\ InitialState.quar \in [{} -> Nat] /\ {Root} \in SUBSET (Nat \ {0})
  BY DEF InitialState, MetaNames, Root
<1>4. \A i \in {Root} : Len(InitialState.nodes[i].extents) = CountFor(InitialState.nodes[i].size)
  BY <1>2 DEF InitialState, Root
<1>5. Shape(InitialState)
  BY DEF InitialState, Shape
<1>6. InitialState.avail \subseteq 0 .. InitialState.total - 1
  BY <1>3
<1>7. /\ InitialState.gen \in Nat /\ InitialState.next \in Nat \ {0} /\ InitialState.active \in MetaNames
      /\ InitialState.total \in Nat /\ InitialState.avail \in SUBSET Nat
  BY <1>3 DEF MetaNames
<1> DEFINE s == InitialState
<1>8. s = [gen |-> s.gen, next |-> s.next, active |-> s.active, retained |-> s.retained,
           nodes |-> s.nodes, total |-> s.total, avail |-> s.avail, quar |-> s.quar]
  BY <1>5 DEF Shape
<1> HIDE DEF s
<1>9. s \in States
  <2> USE DEF s
  <2>1. {} \in SUBSET Nat
    OBVIOUS
  <2> HIDE DEF s
  <2> QED BY <1>1, <1>3, <1>4, <1>6, <1>7, <1>8, <2>1, BuildState DEF s
<1> QED BY <1>9 DEF s

LEMMA FileFacts ==
    ASSUME NEW file \in MetaFiles
    PROVE  /\ file.base \in Bases /\ file.log \in Logs /\ file.pending \in Seq(Effects)
           /\ file = MetaFile(file.base, file.log, file.pending)
  BY DEF MetaFiles, MetaFile

LEMMA EmptyIsAFile == EmptyFile \in MetaFiles /\ NoBase \in Bases /\ {} \in Logs
<1>1. NoBase \in Bases
  BY InitialIsAState DEF NoBase, Bases
<1>2. {} \in Logs
  BY FS_EmptySet DEF Logs, Apart
<1> QED BY <1>1, <1>2 DEF EmptyFile, MetaFiles

LEMMA SmallerLog ==
    ASSUME NEW L \in Logs, NEW M \in SUBSET L
    PROVE  M \in Logs
  BY FS_Subset DEF Logs, Apart

LEMMA ClearedLog ==
    ASSUME NEW L \in Logs, NEW f \in Frames
    PROVE  Clear(L, f) \in Logs /\ Clear(L, f) \cup {f} \in Logs
<1>1. Clear(L, f) \in SUBSET L
  BY DEF Clear
<1>2. Clear(L, f) \in Logs
  BY <1>1, SmallerLog
<1>3. IsFiniteSet(Clear(L, f) \cup {f})
  BY <1>2, FS_AddElement DEF Logs
<1>4. Apart(Clear(L, f) \cup {f})
  BY <1>2 DEF Logs, Apart, Clear
<1> QED BY <1>2, <1>3, <1>4 DEF Logs

\* An effect on a file leaves the rest of the file alone.
EffectBase(base, e, outcome) ==
    IF outcome = "absent" THEN base
    ELSE IF e.op = "reset" THEN NoBase
    ELSE IF e.op = "base" THEN IF outcome = "torn" THEN NoBase ELSE Base(e.state)
    ELSE base
EffectLog(L, e, outcome) ==
    IF outcome = "absent" THEN L
    ELSE IF e.op = "frame" THEN Clear(L, e.frame) \cup IF outcome = "torn" THEN {} ELSE {e.frame}
    ELSE IF e.op = "cut" THEN {g \in L : End(g) <= e.at}
    ELSE IF e.op = "reset" THEN {}
    ELSE L

LEMMA EffectIs ==
    ASSUME NEW base, NEW L, NEW pending, NEW e \in Effects, NEW outcome
    PROVE  Effect(MetaFile(base, L, pending), e, outcome)
             = MetaFile(EffectBase(base, e, outcome), EffectLog(L, e, outcome), pending)
<1>1. e.op \in {"frame", "cut", "reset", "base"}
  BY DEF Effects
<1>2. CASE outcome = "absent"
  BY <1>2 DEF Effect, EffectBase, EffectLog
<1>3. CASE outcome # "absent" /\ e.op = "frame"
  BY <1>3 DEF Effect, EffectBase, EffectLog, MetaFile
<1>4. CASE outcome # "absent" /\ e.op = "cut"
  BY <1>4 DEF Effect, EffectBase, EffectLog, MetaFile
<1>5. CASE outcome # "absent" /\ e.op = "reset"
  BY <1>5 DEF Effect, EffectBase, EffectLog, MetaFile
<1>6. CASE outcome # "absent" /\ e.op = "base"
  BY <1>6 DEF Effect, EffectBase, EffectLog, MetaFile
<1> QED BY <1>1, <1>2, <1>3, <1>4, <1>5, <1>6

LEMMA EffectTypes ==
    ASSUME NEW base \in Bases, NEW L \in Logs, NEW e \in Effects, NEW outcome
    PROVE  EffectBase(base, e, outcome) \in Bases /\ EffectLog(L, e, outcome) \in Logs
<1>1. e.op \in {"frame", "cut", "reset", "base"}
      /\ (e.op = "frame" => e.frame \in Frames) /\ (e.op = "base" => e.state \in States)
  BY DEF Effects
<1>2. EffectBase(base, e, outcome) \in Bases
  <2>1. e.op = "base" => Base(e.state) \in Bases
    BY <1>1 DEF Base, Bases
  <2> QED BY <1>1, <2>1, EmptyIsAFile DEF EffectBase
<1>3. EffectLog(L, e, outcome) \in Logs
  <2>1. e.op = "frame" => Clear(L, e.frame) \in Logs /\ Clear(L, e.frame) \cup {e.frame} \in Logs
    BY <1>1, ClearedLog
  <2>2. {g \in L : End(g) <= e.at} \in Logs
    BY SmallerLog
  <2>3. Clear(L, e.frame) \cup {} = Clear(L, e.frame)
    OBVIOUS
  <2> QED BY <1>1, <2>1, <2>2, <2>3, EmptyIsAFile DEF EffectLog
<1> QED BY <1>2, <1>3

-----------------------------------------------------------------------------
(***************************************************************************)
(* What a choice of outcomes leaves of a file.                             *)
(***************************************************************************)
\* A step taken n times.
Repeats(g, n, S, start, F) ==
    g \in [0 .. n -> S] /\ g[0] = start /\ \A k \in 1 .. n : g[k] = F[<<k, g[k - 1]>>]
LEMMA Iterated ==
    ASSUME NEW n \in Nat, NEW S, NEW start \in S, NEW F,
           \A k \in 1 .. n, v \in S : F[<<k, v>>] \in S
    PROVE  \E g : Repeats(g, n, S, start, F)
<1> DEFINE Runs(g, m) == g \in [0 .. m -> S] /\ g[0] = start /\ \A k \in 1 .. m : g[k] = F[<<k, g[k - 1]>>]
           D == {m \in Nat : m <= n => \E g : Runs(g, m)}
<1>1. 0 \in D
  <2>1. Runs([k \in 0 .. 0 |-> start], 0)
    OBVIOUS
  <2> QED BY <2>1
<1>2. ASSUME NEW m \in Nat, m \in D PROVE m + 1 \in D
  <2> SUFFICES ASSUME m + 1 <= n PROVE \E g : Runs(g, m + 1)
    OBVIOUS
  <2>1. PICK g : Runs(g, m)
    BY <1>2
  <2> DEFINE new == F[<<m + 1, g[m]>>]
             h == [k \in 0 .. m + 1 |-> IF k = m + 1 THEN new ELSE g[k]]
  <2>2. g[m] \in S /\ m + 1 \in 1 .. n
    BY <2>1
  <2>3. new \in S
    BY <2>2
  <2> HIDE DEF new
  <2>4. h \in [0 .. m + 1 -> S]
    BY <2>1, <2>3
  <2>5. h[0] = start
    BY <2>1
  <2>6. ASSUME NEW k \in 1 .. m + 1 PROVE h[k] = F[<<k, h[k - 1]>>]
    <3>1. CASE k = m + 1
      <4>1. h[k] = new /\ h[k - 1] = g[m] /\ k \in 0 .. m + 1
        BY <3>1
      <4> QED BY <3>1, <4>1 DEF new
    <3>2. CASE k # m + 1
      <4>1. k \in 1 .. m /\ h[k] = g[k] /\ h[k - 1] = g[k - 1]
        BY <3>2
      <4> QED BY <2>1, <4>1
    <3> QED BY <3>1, <3>2
  <2> HIDE DEF h
  <2>7. Runs(h, m + 1)
    BY <2>4, <2>5, <2>6
  <2> QED BY <2>7
<1>3. \A m \in Nat : m \in D => m + 1 \in D
  BY <1>2
<1> HIDE DEF D
<1>4. Nat \subseteq D
  BY <1>1, <1>3, SetInduction
<1>5. \E g : Runs(g, n)
  <2> HIDE DEF Runs
  <2> QED BY <1>4 DEF D
<1> QED BY <1>5 DEF Repeats

\* The effects of a file, one by one.
EffectRuns(file, outcome, g) ==
    LET n == Len(file.pending)
    IN  /\ g \in [0 .. n -> MetaFiles] /\ g[0] = file
        /\ \A k \in 1 .. n : g[k] = Effect(g[k - 1], file.pending[k], outcome[k])

LEMMA EffectKeeps ==
    ASSUME NEW file \in MetaFiles, NEW e \in Effects, NEW outcome
    PROVE  /\ Effect(file, e, outcome) \in MetaFiles
           /\ Effect(file, e, outcome)
                = MetaFile(EffectBase(file.base, e, outcome), EffectLog(file.log, e, outcome), file.pending)
<1>1. Effect(file, e, outcome)
        = MetaFile(EffectBase(file.base, e, outcome), EffectLog(file.log, e, outcome), file.pending)
  <2>1. file = MetaFile(file.base, file.log, file.pending)
    BY FileFacts
  <2>2. Effect(MetaFile(file.base, file.log, file.pending), e, outcome)
        = MetaFile(EffectBase(file.base, e, outcome), EffectLog(file.log, e, outcome), file.pending)
    BY EffectIs
  <2> QED BY <2>1, <2>2
<1>2. EffectBase(file.base, e, outcome) \in Bases /\ EffectLog(file.log, e, outcome) \in Logs
  BY FileFacts, EffectTypes
<1> QED BY <1>1, <1>2, FileFacts DEF MetaFile, MetaFiles

LEMMA LeftRuns ==
    ASSUME NEW file \in MetaFiles, NEW outcome
    PROVE  \E g : /\ EffectRuns(file, outcome, g)
                  /\ Left(file, outcome) = [g[Len(file.pending)] EXCEPT !.pending = <<>>]
<1> DEFINE p == file.pending
           n == Len(p)
           E(g) == g = [k \in 0 .. n |-> IF k = 0 THEN file ELSE Effect(g[k - 1], p[k], outcome[k])]
           F == [q \in (1 .. n) \X MetaFiles |-> Effect(q[2], p[q[1]], outcome[q[1]])]
<1>1. n \in Nat /\ \A k \in 1 .. n : p[k] \in Effects
  BY FileFacts
<1>2. Left(file, outcome) = [(CHOOSE g : E(g))[n] EXCEPT !.pending = <<>>]
  BY DEF Left
<1> HIDE DEF n, p
<1>3. \A k \in 1 .. n, v \in MetaFiles : F[<<k, v>>] = Effect(v, p[k], outcome[k])
  OBVIOUS
<1>4. \A k \in 1 .. n, v \in MetaFiles : Effect(v, p[k], outcome[k]) \in MetaFiles
  BY <1>1, EffectKeeps
<1> HIDE DEF F
<1>5. PICK g \in [0 .. n -> MetaFiles] : g[0] = file /\ \A k \in 1 .. n : g[k] = F[<<k, g[k - 1]>>]
  <2>1. \A k \in 1 .. n, v \in MetaFiles : F[<<k, v>>] \in MetaFiles
    BY <1>3, <1>4
  <2> HIDE DEF E
  <2>2. \E g : Repeats(g, n, MetaFiles, file, F)
    BY <1>1, <2>1, Iterated
  <2> QED BY <2>2 DEF Repeats
<1>6. \A k \in 1 .. n : k - 1 \in 0 .. n /\ k \in 0 .. n /\ k # 0
  BY <1>1
<1>7. \A k \in 1 .. n : g[k] = Effect(g[k - 1], p[k], outcome[k])
  BY <1>3, <1>5, <1>6
<1>8. E(g)
  <2>1. \A k \in 0 .. n : k # 0 => k \in 1 .. n
    BY <1>1
  <2>2. \A k \in 0 .. n : g[k] = IF k = 0 THEN file ELSE Effect(g[k - 1], p[k], outcome[k])
    BY <1>5, <1>7, <2>1
  <2> QED BY <1>5, <2>2
<1> DEFINE it == CHOOSE h : E(h)
<1>9. E(it)
  <2> HIDE DEF E
  <2> QED BY <1>8
<1> HIDE DEF it
<1>10. it[0] = file
  <2>1. 0 \in 0 .. n
    BY <1>1
  <2> QED BY <1>9, <2>1
<1>11. ASSUME NEW k \in 1 .. n PROVE it[k] = Effect(it[k - 1], p[k], outcome[k])
  BY <1>6, <1>9
<1>12. it \in [0 .. n -> MetaFiles]
  <2> DEFINE D == {k \in Nat : k <= n => it[k] \in MetaFiles}
  <2>1. 0 \in D
    BY <1>10
  <2>2. ASSUME NEW k \in Nat, k \in D PROVE k + 1 \in D
    <3> SUFFICES ASSUME k + 1 <= n PROVE it[k + 1] \in MetaFiles
      OBVIOUS
    <3>1. k + 1 \in 1 .. n /\ (k + 1) - 1 = k /\ it[k] \in MetaFiles
      BY <1>1, <2>2
    <3>2. it[k + 1] = Effect(it[k], p[k + 1], outcome[k + 1])
      BY <1>11, <3>1
    <3> QED BY <1>4, <3>1, <3>2
  <2>3. \A k \in Nat : k \in D => k + 1 \in D
    BY <2>2
  <2> HIDE DEF D
  <2>4. Nat \subseteq D
    BY <2>1, <2>3, SetInduction
  <2>5. \A k \in 0 .. n : it[k] \in MetaFiles
    BY <1>1, <2>4 DEF D
  <2>6. it = [k \in 0 .. n |-> it[k]]
    BY <1>9
  <2> QED BY <2>5, <2>6
<1> HIDE DEF E
<1>13. EffectRuns(file, outcome, it)
  BY <1>10, <1>11, <1>12 DEF EffectRuns, n, p
<1> QED BY <1>2, <1>13 DEF it, n, p

LEMMA LeftKeeps ==
    ASSUME NEW file \in MetaFiles, NEW outcome
    PROVE  Left(file, outcome) \in MetaFiles /\ Left(file, outcome).pending = <<>>
<1> DEFINE n == Len(file.pending)
<1>1. PICK g : EffectRuns(file, outcome, g) /\ Left(file, outcome) = [g[n] EXCEPT !.pending = <<>>]
  BY LeftRuns
<1>2. g[n] \in MetaFiles
  <2>1. n \in Nat
    BY FileFacts
  <2> QED BY <1>1, <2>1 DEF EffectRuns
<1>3. <<>> \in Seq(Effects)
  OBVIOUS
<1> QED BY <1>1, <1>2, <1>3 DEF MetaFiles

LEMMA WithPending ==
    ASSUME NEW file \in MetaFiles, NEW x
    PROVE  [file EXCEPT !.pending = x] = MetaFile(file.base, file.log, x)
<1>1. file = MetaFile(file.base, file.log, file.pending)
  BY FileFacts
<1> DEFINE b == file.base
           L == file.log
           p == file.pending
<1>2. [MetaFile(b, L, p) EXCEPT !.pending = x] = MetaFile(b, L, x)
  BY DEF MetaFile
<1> HIDE DEF b, L, p
<1>3. file = MetaFile(b, L, p)
  BY <1>1 DEF b, L, p
<1>4. [file EXCEPT !.pending = x] = MetaFile(b, L, x)
  BY <1>2, <1>3
<1> QED BY <1>4 DEF b, L

LEMMA MetaFileParts ==
    ASSUME NEW b, NEW L, NEW p
    PROVE  MetaFile(b, L, p).base = b /\ MetaFile(b, L, p).log = L /\ MetaFile(b, L, p).pending = p
  BY DEF MetaFile

LEMMA MetaFileType ==
    ASSUME NEW b \in Bases, NEW L \in Logs, NEW p \in Seq(Effects)
    PROVE  MetaFile(b, L, p) \in MetaFiles
  BY DEF MetaFile, MetaFiles

LEMMA ImageKeeps ==
    ASSUME NEW file \in MetaFiles
    PROVE  Image(file) \in MetaFiles /\ Image(file).pending = <<>>
  BY LeftKeeps DEF Image

\* Nothing unflushed: the file is what it is.
LEMMA ImageOfFlushed ==
    ASSUME NEW file \in MetaFiles, file.pending = <<>>
    PROVE  Image(file) = file
<1> DEFINE out == [k \in 1..Len(file.pending) |-> "full"]
<1>1. PICK g : EffectRuns(file, out, g) /\ Left(file, out) = [g[Len(file.pending)] EXCEPT !.pending = <<>>]
  BY LeftRuns
<1>2. g[0] = file /\ Len(file.pending) = 0
  BY <1>1 DEF EffectRuns
<1>3. [file EXCEPT !.pending = <<>>] = file
  <2>1. [file EXCEPT !.pending = <<>>] = MetaFile(file.base, file.log, <<>>)
    BY WithPending
  <2>2. file = MetaFile(file.base, file.log, file.pending)
    BY FileFacts
  <2> QED BY <2>1, <2>2
<1> QED BY <1>1, <1>2, <1>3 DEF Image

LEMMA ImageTwice ==
    ASSUME NEW file \in MetaFiles
    PROVE  Image(Image(file)) = Image(file)
  BY ImageKeeps, ImageOfFlushed

\* One more unflushed effect comes after the others.
LEMMA ImageAppend ==
    ASSUME NEW file \in MetaFiles, NEW e \in Effects
    PROVE  /\ [file EXCEPT !.pending = Append(file.pending, e)] \in MetaFiles
           /\ Image([file EXCEPT !.pending = Append(file.pending, e)]) = Effect(Image(file), e, "full")
<1> DEFINE p == file.pending
           q == Append(p, e)
           n == Len(p)
           more == MetaFile(file.base, file.log, q)
           out == [k \in 1 .. n |-> "full"]
           out2 == [k \in 1 .. Len(more.pending) |-> "full"]
<1>1. p \in Seq(Effects) /\ q \in Seq(Effects) /\ n \in Nat /\ Len(q) = n + 1 /\ q[n + 1] = e
      /\ \A k \in 1 .. n : q[k] = p[k] /\ p[k] \in Effects
  BY FileFacts
<1>2. more \in MetaFiles /\ more.pending = q
  <2>1. file.base \in Bases /\ file.log \in Logs /\ q \in Seq(Effects)
    BY <1>1, FileFacts
  <2> HIDE DEF q
  <2> QED BY <2>1, MetaFileType, MetaFileParts
<1>3. PICK g : EffectRuns(file, out, g) /\ Left(file, out) = [g[n] EXCEPT !.pending = <<>>]
  BY LeftRuns
<1>4. PICK h : EffectRuns(more, out2, h) /\ Left(more, out2) = [h[Len(more.pending)] EXCEPT !.pending = <<>>]
  <2> HIDE DEF more
  <2> QED BY <1>2, LeftRuns
<1>5. /\ g \in [0 .. n -> MetaFiles] /\ g[0] = file
      /\ \A k \in 1 .. n : g[k] = Effect(g[k - 1], p[k], "full")
  <2>1. \A k \in 1 .. n : out[k] = "full"
    OBVIOUS
  <2> HIDE DEF out
  <2> QED BY <1>3, <2>1 DEF EffectRuns
<1>6. /\ h \in [0 .. n + 1 -> MetaFiles] /\ h[0] = more
      /\ \A k \in 1 .. n + 1 : h[k] = Effect(h[k - 1], q[k], "full")
  <2>1. \A k \in 1 .. n + 1 : out2[k] = "full"
    BY <1>1, <1>2
  <2> HIDE DEF out2, more
  <2> QED BY <1>1, <1>2, <1>4, <2>1 DEF EffectRuns
<1>7. Image(file) = [g[n] EXCEPT !.pending = <<>>] /\ Image(more) = [h[n + 1] EXCEPT !.pending = <<>>]
  BY <1>1, <1>2, <1>3, <1>4 DEF Image
<1> HIDE DEF p, q, n, more, out, out2
<1> DEFINE D == {k \in Nat : k <= n => h[k] = MetaFile(g[k].base, g[k].log, q)}
<1>8. 0 \in D
  BY <1>5, <1>6 DEF more
<1>9. ASSUME NEW k \in Nat, k \in D PROVE k + 1 \in D
  <2> SUFFICES ASSUME k + 1 <= n PROVE h[k + 1] = MetaFile(g[k + 1].base, g[k + 1].log, q)
    OBVIOUS
  <2>1. k + 1 \in 1 .. n /\ k + 1 \in 1 .. n + 1 /\ (k + 1) - 1 = k /\ k \in 0 .. n /\ k <= n
    BY <1>1
  <2>2. g[k + 1] = Effect(g[k], p[k + 1], "full") /\ g[k] \in MetaFiles
    BY <1>5, <2>1
  <2>3. h[k + 1] = Effect(h[k], p[k + 1], "full")
    BY <1>1, <1>6, <2>1
  <2>4. h[k] = MetaFile(g[k].base, g[k].log, q)
    BY <1>9, <2>1
  <2>5. p[k + 1] \in Effects
    BY <1>1, <2>1
  <2>6. g[k + 1] = MetaFile(EffectBase(g[k].base, p[k + 1], "full"), EffectLog(g[k].log, p[k + 1], "full"), g[k].pending)
    BY <2>2, <2>5, EffectKeeps
  <2>7. h[k + 1] = MetaFile(EffectBase(g[k].base, p[k + 1], "full"), EffectLog(g[k].log, p[k + 1], "full"), q)
    BY <2>3, <2>4, <2>5, EffectIs
  <2> QED BY <2>6, <2>7, MetaFileParts
<1>10. \A k \in Nat : k \in D => k + 1 \in D
  BY <1>9
<1> HIDE DEF D
<1>11. Nat \subseteq D
  BY <1>8, <1>10, SetInduction
<1>12. h[n] = MetaFile(g[n].base, g[n].log, q) /\ g[n] \in MetaFiles
  BY <1>1, <1>5, <1>11 DEF D
<1>13. h[n + 1] = MetaFile(EffectBase(g[n].base, e, "full"), EffectLog(g[n].log, e, "full"), q) /\ h[n + 1] \in MetaFiles
  <2>1. h[n + 1] = Effect(h[n], e, "full") /\ h[n + 1] \in MetaFiles
    BY <1>1, <1>6
  <2> QED BY <1>12, <2>1, EffectIs
<1>14. Image(more) = MetaFile(EffectBase(g[n].base, e, "full"), EffectLog(g[n].log, e, "full"), <<>>)
  BY <1>7, <1>13, WithPending, MetaFileParts
<1>15. Image(file) = MetaFile(g[n].base, g[n].log, <<>>)
  BY <1>7, <1>12, WithPending
<1>16. Effect(Image(file), e, "full") = Image(more)
  BY <1>14, <1>15, EffectIs
<1>17. [file EXCEPT !.pending = Append(file.pending, e)] = more
  BY WithPending DEF more, q, p
<1> QED BY <1>2, <1>16, <1>17

\* Appended, a frame joins the log; no effect but a base changes the base.
LEMMA ImageOfFrame ==
    ASSUME NEW file \in MetaFiles, NEW f \in Frames, \A g \in Image(file).log : End(g) <= f.at,
           NEW new, new = [file EXCEPT !.pending = Append(file.pending, [op |-> "frame", frame |-> f])]
    PROVE  /\ new \in MetaFiles
           /\ Image(new).base = Image(file).base
           /\ Image(new).log = Image(file).log \cup {f}
<1> DEFINE e == [op |-> "frame", frame |-> f]
           F == Image(file)
<1>1. e \in Effects /\ e.op = "frame" /\ e.frame = f
  BY DEF Effects
<1>2. F \in MetaFiles /\ \A g \in F.log : End(g) <= f.at
  BY ImageKeeps
<1> HIDE DEF e, F
<1>3. new \in MetaFiles /\ Image(new) = Effect(F, e, "full")
  BY <1>1, ImageAppend DEF e, F
<1>4. Clear(F.log, f) = F.log
  BY <1>2 DEF Clear
<1>5. EffectBase(F.base, e, "full") = F.base /\ EffectLog(F.log, e, "full") = F.log \cup {f}
  BY <1>1, <1>4 DEF EffectBase, EffectLog
<1>6. Image(new) = MetaFile(F.base, F.log \cup {f}, F.pending)
  <2>1. Effect(F, e, "full") = MetaFile(EffectBase(F.base, e, "full"), EffectLog(F.log, e, "full"), F.pending)
    BY ONLY <1>1, <1>2, EffectKeeps
  <2> QED BY ONLY <1>3, <1>5, <2>1
<1>7. Image(new).base = F.base /\ Image(new).log = F.log \cup {f}
  <2> DEFINE M == Image(new)
             L == F.log \cup {f}
             b == F.base
             p == F.pending
  <2>1. M = MetaFile(b, L, p)
    BY <1>6
  <2> HIDE DEF M, L, b, p
  <2>2. M.base = b /\ M.log = L
    BY ONLY <2>1, MetaFileParts
  <2> QED BY <2>2 DEF M, L, b
<1> QED BY <1>3, <1>7 DEF F

-----------------------------------------------------------------------------
(***************************************************************************)
(* Replay: a chain of frames, each in its turn.                            *)
(***************************************************************************)
Places == [s : States, at : Nat, seq : Nat]
Start(s) == [s |-> s, at |-> 0, seq |-> 1]
After(r, f) == [s |-> Apply(r.s, f.rec), at |-> End(f), seq |-> r.seq + 1]
Chain(L, s, n, g) ==
    /\ g \in [0 .. n -> Places] /\ g[0] = Start(s)
    /\ \A k \in 1 .. n : \E f \in L : InTurn(g[k - 1], f) /\ g[k] = After(g[k - 1], f)
Stalled(L, r) == \A f \in L : ~InTurn(r, f)
Passed(L, n) == {f \in L : End(f) <= n}
Reaches(L, s, r) == \E n \in Nat : \E g : Chain(L, s, n, g) /\ g[n] = r

LEMMA AfterType ==
    ASSUME NEW r \in Places, NEW f \in Frames, InTurn(r, f)
    PROVE  /\ After(r, f) \in Places /\ SameStore(After(r, f).s, r.s)
           /\ After(r, f).at = End(f) /\ After(r, f).seq = r.seq + 1 /\ After(r, f).s = Apply(r.s, f.rec)
           /\ f.at = r.at /\ r.at < End(f)
<1>1. r.s \in States /\ r.at \in Nat /\ r.seq \in Nat
  BY DEF Places
<1>2. f.at \in Nat /\ End(f) \in Nat /\ f.at < End(f) /\ f.rec \in Records
  BY FrameTakesRoom
<1>3. f.at = r.at /\ Admits(r.s, f.rec)
  BY DEF InTurn
<1>4. Apply(r.s, f.rec) \in States /\ SameStore(Apply(r.s, f.rec), r.s)
  BY <1>1, <1>2, <1>3, ApplyKeeps
<1>5. After(r, f).s = Apply(r.s, f.rec) /\ After(r, f).at = End(f) /\ After(r, f).seq = r.seq + 1
  BY DEF After
<1>6. After(r, f) \in Places
  BY <1>1, <1>2, <1>4 DEF After, Places
<1> QED BY <1>2, <1>3, <1>4, <1>5, <1>6

\* Two frames of a log that begin at one place are one.
LEMMA OneFrameAt ==
    ASSUME NEW L \in Logs, NEW f \in L, NEW g \in L, f.at <= g.at, g.at < End(f)
    PROVE  f = g
<1>1. f \in Frames /\ g \in Frames /\ Apart(L)
  BY DEF Logs
<1>2. f.at \in Nat /\ g.at \in Nat /\ End(f) \in Nat /\ End(g) \in Nat /\ g.at < End(g)
  BY <1>1, FrameTakesRoom
<1>3. f # g => End(f) <= g.at \/ End(g) <= f.at
  BY <1>1 DEF Apart
<1> QED BY <1>2, <1>3

\* What one step passes: the frame it takes, and no other.
LEMMA StepPasses ==
    ASSUME NEW L \in Logs, NEW r \in Places, NEW f \in L, InTurn(r, f)
    PROVE  /\ Passed(L, End(f)) = Passed(L, r.at) \cup {f} /\ f \notin Passed(L, r.at)
           /\ \A h \in L : h.at < End(f) => h.at < r.at \/ h = f
<1>1. L \subseteq Frames
  BY DEF Logs
<1>2. f.at = r.at /\ r.at < End(f) /\ f.at \in Nat /\ End(f) \in Nat
  BY <1>1, AfterType, FrameTakesRoom
<1>3. ASSUME NEW h \in L, h.at < End(f) PROVE h.at < r.at \/ h = f
  <2>1. h.at \in Nat
    BY <1>1, FrameTakesRoom
  <2>2. CASE h.at < f.at
    BY <1>2, <2>2
  <2>3. CASE f.at <= h.at
    BY <1>3, <2>3, OneFrameAt
  <2> QED BY <1>2, <2>1, <2>2, <2>3
<1>4. ASSUME NEW h \in L, End(h) <= End(f) PROVE End(h) <= r.at \/ h = f
  <2>1. h.at \in Nat /\ End(h) \in Nat /\ h.at < End(h)
    BY <1>1, FrameTakesRoom
  <2>2. h.at < r.at \/ h = f
    BY <1>2, <1>3, <1>4, <2>1
  <2>3. CASE h # f
    <3>1. End(h) <= f.at \/ End(f) <= h.at
      BY <2>3 DEF Logs, Apart
    <3> QED BY <1>2, <1>4, <2>1, <3>1
  <2> QED BY <2>3
<1>5. ASSUME NEW h \in L, End(h) <= r.at PROVE End(h) <= End(f)
  <2>1. End(h) \in Nat
    BY <1>1, FrameTakesRoom
  <2>2. r.at \in Nat
    BY <1>2
  <2> QED BY <1>2, <1>5, <2>1, <2>2
<1>6. f \notin Passed(L, r.at)
  BY <1>2 DEF Passed
<1>7. Passed(L, End(f)) = Passed(L, r.at) \cup {f}
  BY <1>2, <1>4, <1>5 DEF Passed
<1> QED BY <1>3, <1>6, <1>7

LEMMA ChainTypes ==
    ASSUME NEW L \in Logs, NEW s, NEW n \in Nat, NEW g, Chain(L, s, n, g)
    PROVE  /\ \A k \in 0 .. n : g[k] \in Places
           /\ \A k \in 1 .. n : k - 1 \in 0 .. n /\ k \in 0 .. n
           /\ \A k \in 1 .. n : \E f \in L : /\ f \in Frames /\ InTurn(g[k - 1], f) /\ g[k] = After(g[k - 1], f)
                                             /\ g[k - 1] \in Places /\ g[k].at = End(f)
                                             /\ g[k - 1].at \in Nat /\ g[k - 1].at < g[k].at
<1>1. \A k \in 0 .. n : g[k] \in Places
  BY DEF Chain
<1>2. \A k \in 1 .. n : k - 1 \in 0 .. n /\ k \in 0 .. n
  OBVIOUS
<1>3. ASSUME NEW k \in 1 .. n
      PROVE  \E f \in L : /\ f \in Frames /\ InTurn(g[k - 1], f) /\ g[k] = After(g[k - 1], f)
                          /\ g[k - 1] \in Places /\ g[k].at = End(f)
                          /\ g[k - 1].at \in Nat /\ g[k - 1].at < g[k].at
  <2>1. PICK f \in L : InTurn(g[k - 1], f) /\ g[k] = After(g[k - 1], f)
    BY DEF Chain
  <2>2. f \in Frames /\ g[k - 1] \in Places
    BY <1>1, <1>2 DEF Logs
  <2>3. g[k].at = End(f) /\ g[k - 1].at < End(f) /\ g[k - 1].at = f.at
    BY <2>1, <2>2, AfterType
  <2>4. f.at \in Nat
    BY <2>2, FrameTakesRoom
  <2> QED BY <2>1, <2>2, <2>3, <2>4
<1> QED BY <1>1, <1>2, <1>3

\* A chain has passed as many frames as it took, and goes forward.
LEMMA ChainCounts ==
    ASSUME NEW L \in Logs, NEW s \in States, NEW n \in Nat, NEW g, Chain(L, s, n, g)
    PROVE  /\ \A k \in 0 .. n : Cardinality(Passed(L, g[k].at)) = k
           /\ \A k \in 0 .. n : \A j \in 0 .. k : g[j].at <= g[k].at
           /\ \A k \in 0 .. n : \A h \in L : h.at < g[k].at => End(h) <= g[k].at
           /\ \A k \in 0 .. n : SameStore(g[k].s, s)
           /\ n <= Cardinality(L)
<1> DEFINE Good(k) == /\ Cardinality(Passed(L, g[k].at)) = k
                      /\ \A j \in 0 .. k : g[j].at <= g[k].at
                      /\ \A h \in L : h.at < g[k].at => End(h) <= g[k].at
                      /\ SameStore(g[k].s, s)
           D == {k \in Nat : k <= n => Good(k)}
<1>1. L \subseteq Frames /\ IsFiniteSet(L)
  BY DEF Logs
<1>2. \A m : Passed(L, m) \in SUBSET L /\ IsFiniteSet(Passed(L, m))
  <2>1. \A m : Passed(L, m) \in SUBSET L
    BY DEF Passed
  <2> QED BY <1>1, <2>1, FS_Subset
<1>3. \A h \in L : h.at \in Nat /\ End(h) \in Nat /\ h.at < End(h)
  BY <1>1, FrameTakesRoom
<1>4. 0 \in D
  <2>1. g[0].at = 0 /\ g[0].s = s
    BY DEF Chain, Start
  <2>2. Passed(L, g[0].at) = {}
    BY <1>3, <2>1 DEF Passed
  <2>3. Cardinality(Passed(L, g[0].at)) = 0
    BY <2>2, FS_EmptySet
  <2>4. \A h \in L : ~(h.at < g[0].at)
    BY <1>3, <2>1
  <2>5. \A j \in 0 .. 0 : g[j].at <= g[0].at
    <3>1. \A j \in 0 .. 0 : j = 0
      OBVIOUS
    <3> QED BY <2>1, <3>1
  <2>6. SameStore(g[0].s, s)
    BY <2>1 DEF SameStore
  <2>7. Good(0)
    BY <2>3, <2>4, <2>5, <2>6
  <2> HIDE DEF Good
  <2> QED BY <2>7
<1>5. ASSUME NEW k \in Nat, k \in D PROVE k + 1 \in D
  <2> SUFFICES ASSUME k + 1 <= n PROVE Good(k + 1)
    <3> HIDE DEF Good
    <3> QED OBVIOUS
  <2>1. Good(k)
    <3> HIDE DEF Good
    <3>1. k <= n
      OBVIOUS
    <3> QED BY <1>5, <3>1
  <2>2. k + 1 \in 1 .. n /\ (k + 1) - 1 = k
    OBVIOUS
  <2>3. PICK f \in L : /\ f \in Frames /\ InTurn(g[k], f) /\ g[k + 1] = After(g[k], f)
                       /\ g[k] \in Places /\ g[k + 1].at = End(f)
                       /\ g[k].at \in Nat /\ g[k].at < g[k + 1].at
    <3>1. \A j \in 1 .. n : \E f \in L : /\ f \in Frames /\ InTurn(g[j - 1], f) /\ g[j] = After(g[j - 1], f)
                                         /\ g[j - 1] \in Places /\ g[j].at = End(f)
                                         /\ g[j - 1].at \in Nat /\ g[j - 1].at < g[j].at
      BY ChainTypes
    <3> QED BY <2>2, <3>1
  <2>4. /\ Passed(L, End(f)) = Passed(L, g[k].at) \cup {f} /\ f \notin Passed(L, g[k].at)
        /\ \A h \in L : h.at < End(f) => h.at < g[k].at \/ h = f
    BY <2>3, StepPasses
  <2>5. Cardinality(Passed(L, g[k + 1].at)) = k + 1
    <3>1. Cardinality(Passed(L, g[k].at) \cup {f}) = Cardinality(Passed(L, g[k].at)) + 1
      BY <1>2, <2>4, FS_AddElement
    <3> QED BY <2>1, <2>3, <2>4, <3>1
  <2>6. ASSUME NEW j \in 0 .. k + 1 PROVE g[j].at <= g[k + 1].at
    <3>1. CASE j = k + 1
      BY <1>3, <2>3, <3>1
    <3>2. CASE j # k + 1
      <4>1. j \in 0 .. k /\ j \in 0 .. n
        BY <3>2
      <4>2. g[j].at <= g[k].at
        BY <2>1, <4>1
      <4>3. g[j] \in Places /\ g[k + 1].at \in Nat
        BY <1>3, <2>3, <4>1, ChainTypes
      <4>4. g[j].at \in Nat
        BY <4>3 DEF Places
      <4> QED BY <2>3, <4>2, <4>3, <4>4
    <3> QED BY <3>1, <3>2
  <2>7. ASSUME NEW h \in L, h.at < g[k + 1].at PROVE End(h) <= g[k + 1].at
    <3>1. h.at < g[k].at \/ h = f
      BY <2>3, <2>4, <2>7
    <3>2. h = f => End(h) <= g[k + 1].at
      BY <1>3, <2>3
    <3>3. h.at < g[k].at => End(h) <= g[k].at
      BY <2>1
    <3>4. End(h) \in Nat /\ g[k + 1].at \in Nat
      BY <1>3, <2>3
    <3> QED BY <2>3, <3>1, <3>2, <3>3, <3>4
  <2>8. SameStore(g[k + 1].s, s)
    BY <2>1, <2>3, AfterType DEF SameStore
  <2> QED BY <2>5, <2>6, <2>7, <2>8
<1>6. \A k \in Nat : k \in D => k + 1 \in D
  BY <1>5
<1> HIDE DEF D
<1>7. Nat \subseteq D
  BY <1>4, <1>6, SetInduction
<1>8. \A k \in 0 .. n : Good(k)
  <2> HIDE DEF Good
  <2> QED BY <1>7 DEF D
<1>9. n <= Cardinality(L)
  <2>1. Cardinality(Passed(L, g[n].at)) = n
    BY <1>8
  <2>2. Cardinality(Passed(L, g[n].at)) <= Cardinality(L)
    BY <1>1, <1>2, FS_Subset
  <2> QED BY <2>1, <2>2
<1> QED BY <1>8, <1>9

LEMMA ReachStart ==
    ASSUME NEW L \in Logs, NEW s \in States
    PROVE  Reaches(L, s, Start(s))
<1> DEFINE g == [k \in 0 .. 0 |-> Start(s)]
<1>1. Start(s) \in Places
  BY DEF Start, Places
<1>2. Chain(L, s, 0, g) /\ g[0] = Start(s)
  BY <1>1 DEF Chain
<1> QED BY <1>2 DEF Reaches

LEMMA ReachNext ==
    ASSUME NEW L \in Logs, NEW M \in Logs, L \subseteq M, NEW s \in States, NEW r, Reaches(L, s, r),
           NEW f \in M, InTurn(r, f)
    PROVE  Reaches(M, s, After(r, f))
<1>0. PICK n \in Nat : \E g : Chain(L, s, n, g) /\ g[n] = r
  BY DEF Reaches
<1>1. PICK g : Chain(L, s, n, g) /\ g[n] = r
  BY <1>0
<1> DEFINE h == [k \in 0 .. n + 1 |-> IF k = n + 1 THEN After(r, f) ELSE g[k]]
<1>2. g \in [0 .. n -> Places] /\ n \in 0 .. n
  BY <1>1 DEF Chain
<1>3. After(r, f) \in Places
  <2>1. r \in Places /\ f \in Frames
    BY <1>1, <1>2 DEF Logs
  <2> QED BY <2>1, AfterType
<1>4. h \in [0 .. n + 1 -> Places]
  BY <1>2, <1>3
<1>5. h[0] = Start(s)
  BY <1>1 DEF Chain
<1>6. ASSUME NEW k \in 1 .. n + 1
      PROVE  \E e \in M : InTurn(h[k - 1], e) /\ h[k] = After(h[k - 1], e)
  <2>1. CASE k = n + 1
    <3>1. h[k] = After(r, f) /\ h[k - 1] = r
      BY <1>1, <2>1
    <3> QED BY <3>1
  <2>2. CASE k # n + 1
    <3>1. k \in 1 .. n /\ h[k] = g[k] /\ h[k - 1] = g[k - 1]
      BY <2>2
    <3>2. \E e \in L : InTurn(g[k - 1], e) /\ g[k] = After(g[k - 1], e)
      BY <1>1, <3>1 DEF Chain
    <3> QED BY <3>1, <3>2
  <2> QED BY <2>1, <2>2
<1>7. h[n + 1] = After(r, f) /\ n + 1 \in Nat
  OBVIOUS
<1> HIDE DEF h
<1>8. Chain(M, s, n + 1, h)
  BY <1>4, <1>5, <1>6 DEF Chain
<1> QED BY <1>7, <1>8 DEF Reaches

\* The frames a chain has passed are all it needs.
LEMMA ReachCut ==
    ASSUME NEW L \in Logs, NEW s \in States, NEW r, Reaches(L, s, r)
    PROVE  Passed(L, r.at) \in Logs /\ Reaches(Passed(L, r.at), s, r)
<1>0. PICK n \in Nat : \E g : Chain(L, s, n, g) /\ g[n] = r
  BY DEF Reaches
<1>1. PICK g : Chain(L, s, n, g) /\ g[n] = r
  BY <1>0
<1>2. Passed(L, r.at) \in Logs
  <2>1. Passed(L, r.at) \in SUBSET L
    BY DEF Passed
  <2> QED BY <2>1, SmallerLog
<1>3. ASSUME NEW k \in 1 .. n
      PROVE  \E f \in Passed(L, r.at) : InTurn(g[k - 1], f) /\ g[k] = After(g[k - 1], f)
  <2>1. PICK f \in L : InTurn(g[k - 1], f) /\ g[k] = After(g[k - 1], f) /\ g[k].at = End(f)
    <3>1. \A j \in 1 .. n : \E f \in L : /\ f \in Frames /\ InTurn(g[j - 1], f) /\ g[j] = After(g[j - 1], f)
                                         /\ g[j - 1] \in Places /\ g[j].at = End(f)
                                         /\ g[j - 1].at \in Nat /\ g[j - 1].at < g[j].at
      BY <1>1, ChainTypes
    <3> QED BY <3>1
  <2>2. n \in 0 .. n /\ k \in 0 .. n
    OBVIOUS
  <2>3. \A m \in 0 .. n : \A j \in 0 .. m : g[j].at <= g[m].at
    BY <1>1, ChainCounts
  <2>4. g[k].at <= r.at
    BY <1>1, <2>2, <2>3
  <2> QED BY <2>1, <2>4 DEF Passed
<1>4. Chain(Passed(L, r.at), s, n, g)
  BY <1>1, <1>3 DEF Chain
<1> QED BY <1>1, <1>2, <1>4 DEF Reaches

LEMMA ReachFacts ==
    ASSUME NEW L \in Logs, NEW s \in States, NEW r, Reaches(L, s, r)
    PROVE  /\ r \in Places /\ r.s \in States /\ r.at \in Nat /\ r.seq \in Nat /\ SameStore(r.s, s)
           /\ \A h \in L : h.at < r.at => End(h) <= r.at
<1>0. PICK n \in Nat : \E g : Chain(L, s, n, g) /\ g[n] = r
  BY DEF Reaches
<1>1. PICK g : Chain(L, s, n, g) /\ g[n] = r
  BY <1>0
<1>2. n \in 0 .. n
  OBVIOUS
<1>3. r \in Places
  BY <1>1, <1>2 DEF Chain
<1>4. /\ \A k \in 0 .. n : \A h \in L : h.at < g[k].at => End(h) <= g[k].at
      /\ \A k \in 0 .. n : SameStore(g[k].s, s)
  BY <1>1, ChainCounts
<1>5. r.s \in States /\ r.at \in Nat /\ r.seq \in Nat
  BY <1>3 DEF Places
<1> QED BY <1>1, <1>2, <1>3, <1>4, <1>5

\* Every log has a last place.
LEMMA ReachEnds ==
    ASSUME NEW L \in Logs, NEW s \in States
    PROVE  \E r : Reaches(L, s, r) /\ Stalled(L, r)
<1> SUFFICES ASSUME \A r : Reaches(L, s, r) => ~Stalled(L, r) PROVE FALSE
  OBVIOUS
<1> DEFINE Long(n) == \E g : Chain(L, s, n, g)
           D == {n \in Nat : Long(n)}
<1>1. 0 \in D
  <2> DEFINE g == [k \in 0 .. 0 |-> Start(s)]
  <2>1. Start(s) \in Places
    BY DEF Start, Places
  <2>2. Chain(L, s, 0, g)
    BY <2>1 DEF Chain
  <2> QED BY <2>2
<1>2. ASSUME NEW n \in Nat, n \in D PROVE n + 1 \in D
  <2>1. PICK g : Chain(L, s, n, g)
    BY <1>2
  <2> DEFINE r == g[n]
  <2>2. Reaches(L, s, r)
    BY <2>1 DEF Reaches
  <2>3. PICK f \in L : InTurn(r, f)
    BY <2>2 DEF Stalled
  <2> DEFINE h == [k \in 0 .. n + 1 |-> IF k = n + 1 THEN After(r, f) ELSE g[k]]
  <2>4. g \in [0 .. n -> Places] /\ n \in 0 .. n
    BY <2>1 DEF Chain
  <2>5. After(r, f) \in Places
    <3>1. r \in Places /\ f \in Frames
      BY <2>4 DEF Logs
    <3> QED BY <2>3, <3>1, AfterType
  <2>6. h \in [0 .. n + 1 -> Places]
    BY <2>4, <2>5
  <2>7. h[0] = Start(s)
    BY <2>1 DEF Chain
  <2>8. ASSUME NEW k \in 1 .. n + 1
        PROVE  \E e \in L : InTurn(h[k - 1], e) /\ h[k] = After(h[k - 1], e)
    <3>1. CASE k = n + 1
      <4>1. h[k] = After(r, f) /\ h[k - 1] = r
        BY <3>1
      <4> QED BY <2>3, <4>1
    <3>2. CASE k # n + 1
      <4>1. k \in 1 .. n /\ h[k] = g[k] /\ h[k - 1] = g[k - 1]
        BY <3>2
      <4>2. \E e \in L : InTurn(g[k - 1], e) /\ g[k] = After(g[k - 1], e)
        BY <2>1, <4>1 DEF Chain
      <4> QED BY <4>1, <4>2
    <3> QED BY <3>1, <3>2
  <2> HIDE DEF h
  <2>9. Chain(L, s, n + 1, h)
    BY <2>6, <2>7, <2>8 DEF Chain
  <2> QED BY <2>9
<1>3. \A n \in Nat : n \in D => n + 1 \in D
  BY <1>2
<1> HIDE DEF D
<1>4. Nat \subseteq D
  BY <1>1, <1>3, SetInduction
<1>5. Cardinality(L) \in Nat
  BY FS_CardinalityType DEF Logs
<1>6. PICK g : Chain(L, s, Cardinality(L) + 1, g)
  <2>1. Cardinality(L) + 1 \in D
    BY <1>4, <1>5
  <2> QED BY <2>1 DEF D
<1>7. Cardinality(L) + 1 <= Cardinality(L)
  <2>1. Cardinality(L) + 1 \in Nat
    BY <1>5
  <2> QED BY <1>6, <2>1, ChainCounts
<1> QED BY <1>5, <1>7

InTurnOf(L, r) == {f \in L : InTurn(r, f)}
StepOf(L, r) == IF InTurnOf(L, r) = {} THEN r ELSE After(r, CHOOSE g \in InTurnOf(L, r) : TRUE)

\* There is only one frame in turn.
LEMMA StepIs ==
    ASSUME NEW L \in Logs, NEW r \in Places
    PROVE  /\ \A f \in L : InTurn(r, f) => StepOf(L, r) = After(r, f)
           /\ Stalled(L, r) => StepOf(L, r) = r
<1>1. ASSUME NEW f \in L, InTurn(r, f) PROVE StepOf(L, r) = After(r, f)
  <2> DEFINE c == CHOOSE g \in InTurnOf(L, r) : TRUE
  <2>1. f \in InTurnOf(L, r)
    BY <1>1 DEF InTurnOf
  <2>2. c \in InTurnOf(L, r)
    BY <2>1
  <2>3. c \in L /\ InTurn(r, c)
    BY <2>2 DEF InTurnOf
  <2>4. StepOf(L, r) = After(r, c)
    BY <2>1 DEF StepOf
  <2> HIDE DEF c
  <2>5. f \in Frames /\ c \in Frames
    BY <2>3 DEF Logs
  <2>6. f.at = r.at /\ c.at = r.at /\ c.at < End(c) /\ c.at \in Nat /\ f.at \in Nat
    BY <1>1, <2>3, <2>5, FrameTakesRoom DEF InTurn
  <2>7. c = f
    BY <2>3, <2>6, OneFrameAt
  <2> QED BY <2>4, <2>7
<1>2. ASSUME Stalled(L, r) PROVE StepOf(L, r) = r
  BY <1>2 DEF Stalled, StepOf, InTurnOf
<1> QED BY <1>1, <1>2

\* Where a chain can go no further is where replay ends.
LEMMA ReachReplay ==
    ASSUME NEW file, file.log \in Logs, NEW s \in States, NEW r, Reaches(file.log, s, r), Stalled(file.log, r)
    PROVE  Replay(file, s) = r
<1> DEFINE L == file.log
           n == Cardinality(L)
           E(h) == h = [k \in 0 .. n |-> IF k = 0 THEN Start(s) ELSE StepOf(L, h[k - 1])]
<1>1. L \in Logs /\ n \in Nat
  <2>1. IsFiniteSet(L)
    BY DEF Logs
  <2> QED BY <2>1, FS_CardinalityType
<1>2. Replay(file, s) = (CHOOSE h : E(h))[n]
  BY DEF Replay, Start, StepOf, After, InTurnOf
<1>3. Reaches(L, s, r) /\ Stalled(L, r)
  OBVIOUS
<1> HIDE DEF L, n
<1>3a. PICK m \in Nat : \E g : Chain(L, s, m, g) /\ g[m] = r
  BY <1>3 DEF Reaches
<1>4. PICK g : Chain(L, s, m, g) /\ g[m] = r
  BY <1>3a
<1>5. m <= n /\ m \in 0 .. m /\ g \in [0 .. m -> Places] /\ g[0] = Start(s) /\ r \in Places
  <2>1. m <= n
    BY <1>1, <1>4, ChainCounts DEF n
  <2>2. g \in [0 .. m -> Places] /\ g[0] = Start(s) /\ m \in 0 .. m
    BY <1>4 DEF Chain
  <2> QED BY <1>4, <2>1, <2>2
<1> DEFINE h == [k \in 0 .. n |-> IF k <= m THEN g[k] ELSE r]
<1>6. ASSUME NEW k \in 1 .. n PROVE h[k] = StepOf(L, h[k - 1])
  <2>1. CASE k <= m
    <3>1. k \in 1 .. m /\ h[k] = g[k] /\ h[k - 1] = g[k - 1] /\ k - 1 \in 0 .. m
      BY <1>1, <2>1
    <3>2. \E f \in L : InTurn(g[k - 1], f) /\ g[k] = After(g[k - 1], f)
      BY <1>4, <3>1 DEF Chain
    <3>3. g[k - 1] \in Places
      BY <1>5, <3>1
    <3> QED BY <1>1, <3>1, <3>2, <3>3, StepIs
  <2>2. CASE ~(k <= m)
    <3>1. h[k] = r /\ k - 1 \in 0 .. n
      BY <1>1, <2>2
    <3>2. h[k - 1] = r
      <4>1. CASE k - 1 <= m
        <5>1. k - 1 = m
          BY <1>1, <2>2, <4>1
        <5> QED BY <1>4, <3>1, <4>1, <5>1
      <4>2. CASE ~(k - 1 <= m)
        BY <3>1, <4>2
      <4> QED BY <4>1, <4>2
    <3> QED BY <1>1, <1>3, <1>5, <3>1, <3>2, StepIs
  <2> QED BY <2>1, <2>2
<1>7. h[0] = Start(s) /\ h[n] = r
  <2>1. 0 \in 0 .. n /\ n \in 0 .. n /\ 0 <= m
    BY <1>1
  <2>2. n <= m => n = m
    BY <1>1, <1>5
  <2> QED BY <1>4, <1>5, <2>1, <2>2
<1>8. h = [k \in 0 .. n |-> h[k]]
  OBVIOUS
<1> HIDE DEF h
<1>9. E(h)
  <2>1. \A k \in 0 .. n : h[k] = IF k = 0 THEN Start(s) ELSE StepOf(L, h[k - 1])
    <3>1. \A k \in 0 .. n : k # 0 => k \in 1 .. n
      BY <1>1
    <3> QED BY <1>6, <1>7, <3>1
  <2> QED BY <1>8, <2>1
<1> DEFINE it == CHOOSE x : E(x)
<1>10. E(it)
  <2> HIDE DEF E
  <2> QED BY <1>9
<1> HIDE DEF it
<1> DEFINE D == {k \in Nat : k <= n => it[k] = h[k]}
<1>11. 0 \in D
  <2>1. 0 \in 0 .. n
    BY <1>1
  <2> QED BY <1>7, <1>10, <2>1
<1>12. ASSUME NEW k \in Nat, k \in D PROVE k + 1 \in D
  <2> SUFFICES ASSUME k + 1 <= n PROVE it[k + 1] = h[k + 1]
    OBVIOUS
  <2>1. k + 1 \in 0 .. n /\ k + 1 \in 1 .. n /\ k + 1 # 0 /\ (k + 1) - 1 = k /\ k <= n
    BY <1>1
  <2>2. it[k + 1] = StepOf(L, it[k])
    BY <1>10, <2>1
  <2>3. h[k + 1] = StepOf(L, h[k])
    BY <1>6, <2>1
  <2> QED BY <1>12, <2>1, <2>2, <2>3
<1>13. \A k \in Nat : k \in D => k + 1 \in D
  BY <1>12
<1> HIDE DEF D
<1>14. Nat \subseteq D
  BY <1>11, <1>13, SetInduction
<1>15. it[n] = h[n]
  BY <1>1, <1>14 DEF D
<1> HIDE DEF E
<1> QED BY <1>2, <1>7, <1>15 DEF it

-----------------------------------------------------------------------------
(***************************************************************************)
(* The live log.  Its file, as it stands, replays to a place; the pending  *)
(* resize, if there is one, leads from there to the live state.            *)
(***************************************************************************)
LogShape(lg) == lg = [end |-> lg.end, next |-> lg.next, pend |-> lg.pend, dirty |-> lg.dirty]
PendShape(p) == p = [id |-> p.id, rec |-> p.rec, seq |-> p.seq]
Waiting(lg, R, s) ==
    IF lg.pend.id = 0 THEN s = R.s /\ lg.next = R.seq
    ELSE /\ PendShape(lg.pend) /\ lg.pend.seq = R.seq /\ lg.next = R.seq + 1
         /\ lg.pend.rec \in Records /\ lg.pend.rec.id = lg.pend.id
         /\ lg.pend.rec.kind = "resize" /\ lg.pend.rec.operation = "write"
         /\ Admits(R.s, lg.pend.rec) /\ lg.pend.rec.size > R.s.nodes[lg.pend.rec.id].size
         /\ s = Apply(R.s, lg.pend.rec)
ReplaysTo(F, s0, R) == Reaches(F.log, s0, R) /\ \A f \in F.log : End(f) <= R.at
Follows(F, s0, lg, s) ==
    LogShape(lg) /\ \E R : ReplaysTo(F, s0, R) /\ R.at = lg.end /\ Waiting(lg, R, s)

DecodedBy(second, s) ==
    [s EXCEPT !.retained = [f \in {"a", "b"} |->
                IF f = s.active THEN s.gen ELSE IF second.seq > 0 /\ second.file = f THEN second.gen ELSE 0]]
Slots == [seq : Nat, file : MetaNames, gen : Nat]

LEMMA DecodedIs == \A s : Decoded(s) = DecodedBy(Second, s)
  BY DEF Decoded, DecodedBy

LEMMA DecodedType ==
    ASSUME NEW s \in States, NEW second \in Slots
    PROVE  /\ DecodedBy(second, s) \in States
           /\ DecodedBy(second, s).active = s.active /\ DecodedBy(second, s).gen = s.gen
           /\ \A t \in States : SameStore(t, DecodedBy(second, s)) => t = DecodedBy(second, t)
<1> DEFINE R(u) == [f \in {"a", "b"} |->
                IF f = u.active THEN u.gen ELSE IF second.seq > 0 /\ second.file = f THEN second.gen ELSE 0]
           d == DecodedBy(second, s)
<1>1. second.gen \in Nat /\ s.gen \in Nat
  BY StateFacts DEF Slots
<1>2. R(s) \in [MetaNames -> Nat]
  BY <1>1 DEF MetaNames
<1>3. d = [s EXCEPT !.retained = R(s)]
  BY DEF DecodedBy
<1>4. ASSUME NEW t \in States, SameStore(t, d) PROVE t = DecodedBy(second, t)
  <2>1. d.gen = s.gen /\ d.active = s.active /\ d.retained = R(s)
    BY StateShape DEF DecodedBy, Shape
  <2>2. t.gen = s.gen /\ t.active = s.active /\ t.retained = R(s)
    BY <1>4, <2>1 DEF SameStore
  <2>3. t.retained = R(t)
    BY <2>2
  <2>4. DecodedBy(second, t) = [t EXCEPT !.retained = R(t)]
    BY DEF DecodedBy
  <2> HIDE DEF R
  <2>5. [t EXCEPT !.retained = R(t)] = t
    BY <2>3, StateShape DEF Shape
  <2> QED BY <2>4, <2>5
<1> HIDE DEF R
<1>5. /\ Shape(d) /\ d.retained = R(s) /\ d.gen = s.gen /\ d.active = s.active /\ d.nodes = s.nodes
      /\ d.next = s.next /\ d.quar = s.quar /\ d.avail = s.avail /\ d.total = s.total
  BY <1>3, StateShape DEF Shape
<1> HIDE DEF d
<1>6. d.retained \in [MetaNames -> Nat]
  BY <1>2, <1>5
<1>7. d \in States
  BY <1>5, <1>6, StateFacts, BuildState DEF Shape
<1> QED BY <1>4, <1>5, <1>7 DEF d

\* Sequences of frames.
LEMMA ConcatAppend ==
    ASSUME NEW S, NEW q \in Seq(S), NEW as \in Seq(S), NEW e \in S
    PROVE  q \o <<e>> = Append(q, e) /\ q \o Append(as, e) = Append(q \o as, e)
<1> DEFINE one == <<e>>
           both == q \o as
<1>a. one \in Seq(S)
  OBVIOUS
<1>b. both \in Seq(S)
  BY ConcatProperties
<1>1. one \in Seq(S) /\ both \in Seq(S)
  BY <1>a, <1>b
<1>2. \A c \in Seq(S) : Append(c, e) = c \o one
  BY AppendIsConcat
<1> HIDE DEF one
<1>3. both \o one = q \o (as \o one)
  <2>1. \A t \in Seq(S), u \in Seq(S) : (q \o t) \o u = q \o (t \o u)
    BY ConcatAssociative
  <2> QED BY <1>1, <2>1
<1> HIDE DEF both
<1>4. Append(both, e) = both \o one /\ Append(q, e) = q \o one /\ Append(as, e) = as \o one
  BY <1>1, <1>2
<1> QED BY <1>3, <1>4 DEF one, both

FrameEffect(f) == [op |-> "frame", frame |-> f]
LEMMA AppendedFrames ==
    ASSUME NEW q \in Seq(Effects), NEW frames \in Seq(Frames), NEW f \in Frames
    PROVE  /\ q \o Appended(<<>>) = q
           /\ q \o Appended(<<f>>) = Append(q, FrameEffect(f))
           /\ q \o Appended(Append(frames, f)) = Append(q \o Appended(frames), FrameEffect(f))
           /\ Appended(frames) \in Seq(Effects)
<1>1. Appended(<<>>) = <<>>
  BY DEF Appended
<1>2. Appended(<<f>>) = <<FrameEffect(f)>>
  BY DEF Appended, FrameEffect
<1>3. \A g \in Frames : FrameEffect(g) \in Effects
  BY DEF Effects, FrameEffect
<1> DEFINE as == Appended(frames)
<1>4. as \in Seq(Effects) /\ Len(as) = Len(frames) /\ \A k \in 1 .. Len(frames) : as[k] = FrameEffect(frames[k])
  <2>1. as = [k \in 1 .. Len(frames) |-> FrameEffect(frames[k])] /\ Len(frames) \in Nat
    BY DEF Appended, FrameEffect
  <2>2. \A k \in 1 .. Len(frames) : FrameEffect(frames[k]) \in Effects
    BY <1>3
  <2> HIDE DEF as
  <2> QED BY <2>1, <2>2
<1>5. Appended(Append(frames, f)) = Append(as, FrameEffect(f))
  <2> DEFINE n == Len(frames)
             fs == Append(frames, f)
  <2>1. fs \in Seq(Frames) /\ Len(fs) = n + 1 /\ DOMAIN fs = 1 .. n + 1 /\ n \in Nat
        /\ fs[n + 1] = f /\ \A k \in 1 .. n : fs[k] = frames[k]
    OBVIOUS
  <2>2. Appended(fs) = [k \in 1 .. n + 1 |-> FrameEffect(fs[k])]
    BY <2>1 DEF Appended, FrameEffect
  <2> DEFINE x == FrameEffect(f)
             ys == Append(as, x)
  <2>3. Len(as) = n /\ \A k \in 1 .. n : as[k] = FrameEffect(fs[k])
    BY <1>4, <2>1
  <2>4. x \in Effects /\ x = FrameEffect(fs[n + 1])
    BY <1>3, <2>1
  <2> HIDE DEF as, n, fs, x
  <2>5. ys \in Seq(Effects) /\ DOMAIN ys = 1 .. n + 1 /\ ys[n + 1] = x /\ \A k \in 1 .. n : ys[k] = as[k]
    <3>1. as \in Seq(Effects) /\ n \in Nat /\ Len(as) = n
      BY <1>4, <2>1, <2>3
    <3>2. x \in Effects
      BY <2>4
    <3>3. ys \in Seq(Effects) /\ Len(ys) = n + 1 /\ ys[n + 1] = x /\ \A k \in 1 .. n : ys[k] = as[k]
      <4>1. \A q1 \in Seq(Effects), x1 \in Effects :
              /\ Append(q1, x1) \in Seq(Effects) /\ Len(Append(q1, x1)) = Len(q1) + 1
              /\ Append(q1, x1)[Len(q1) + 1] = x1 /\ \A k \in 1 .. Len(q1) : Append(q1, x1)[k] = q1[k]
        BY AppendProperties
      <4> QED BY ONLY <3>1, <3>2, <4>1 DEF ys
    <3> HIDE DEF ys
    <3>4. DOMAIN ys = 1 .. n + 1
      BY ONLY <3>3
    <3> QED BY ONLY <3>3, <3>4
  <2>6. \A k \in 1 .. n + 1 : ys[k] = FrameEffect(fs[k])
    <3>1. \A k \in 1 .. n + 1 : k = n + 1 \/ k \in 1 .. n
      BY <2>1
    <3> QED BY <2>3, <2>4, <2>5, <3>1
  <2>7. ys = [k \in 1 .. n + 1 |-> ys[k]]
    <3> HIDE DEF ys
    <3>1. ys = [k \in DOMAIN ys |-> ys[k]]
      BY ONLY <2>5
    <3> QED BY ONLY <2>5, <3>1
  <2> HIDE DEF ys
  <2>8. Appended(fs) = ys
    BY <2>2, <2>6, <2>7
  <2> QED BY <2>8 DEF ys, x, fs
<1> HIDE DEF as
<1>6. FrameEffect(f) \in Effects
  BY <1>3
<1>7. q \o <<>> = q
  OBVIOUS
<1> DEFINE e == FrameEffect(f)
<1>8. e \in Effects /\ as \in Seq(Effects)
  BY <1>4, <1>6
<1> HIDE DEF e
<1>9. q \o <<e>> = Append(q, e) /\ q \o Append(as, e) = Append(q \o as, e)
  <2>1. q \in Seq(Effects)
    OBVIOUS
  <2>2. \A as2 \in Seq(Effects), e2 \in Effects : q \o <<e2>> = Append(q, e2) /\ q \o Append(as2, e2) = Append(q \o as2, e2)
    BY ONLY <2>1, ConcatAppend
  <2> QED BY <1>8, <2>2
<1> QED BY <1>1, <1>2, <1>4, <1>5, <1>7, <1>9 DEF as, e

\* A frame in its turn goes to the end of the log.
LEMMA FrameAppended ==
    ASSUME NEW file \in MetaFiles, NEW s0 \in States, NEW R, ReplaysTo(Image(file), s0, R),
           NEW f \in Frames, InTurn(R, f),
           NEW new, new = [file EXCEPT !.pending = Append(file.pending, FrameEffect(f))]
    PROVE  /\ new \in MetaFiles /\ Image(new).base = Image(file).base
           /\ ReplaysTo(Image(new), s0, After(R, f))
<1> DEFINE L == Image(file).log
           M == Image(new).log
<1>1. L \in Logs /\ Reaches(L, s0, R) /\ \A g \in L : End(g) <= R.at
  BY ImageKeeps, FileFacts DEF ReplaysTo
<1>2. R \in Places /\ R.at \in Nat
  BY <1>1, ReachFacts
<1>3. f.at = R.at /\ R.at < End(f) /\ End(f) \in Nat /\ After(R, f).at = End(f)
  BY <1>2, AfterType, FrameTakesRoom
<1>4. new \in MetaFiles /\ Image(new).base = Image(file).base /\ M = L \cup {f}
  <2>1. \A g \in Image(file).log : End(g) <= f.at
    BY <1>1, <1>3
  <2>2. new = [file EXCEPT !.pending = Append(file.pending, [op |-> "frame", frame |-> f])]
    BY DEF FrameEffect
  <2> QED BY <2>1, <2>2, ImageOfFrame
<1>5. M \in Logs
  BY <1>4, ImageKeeps, FileFacts
<1> HIDE DEF L, M
<1>6. Reaches(M, s0, After(R, f))
  BY <1>1, <1>4, <1>5, ReachNext
<1>7. \A g \in M : End(g) <= After(R, f).at
  <2>1. \A g \in L : End(g) \in Nat
    <3>1. L \subseteq Frames
      BY <1>1 DEF Logs
    <3> QED BY <3>1, FrameTakesRoom
  <2> QED BY <1>1, <1>2, <1>3, <1>4, <2>1
<1> QED BY <1>4, <1>6, <1>7 DEF ReplaysTo, M

LEMMA WaitingFacts ==
    ASSUME NEW lg, NEW R \in Places, NEW s, Waiting(lg, R, s)
    PROVE  s \in States /\ SameStore(s, R.s)
<1>1. R.s \in States
  BY DEF Places
<1>2. CASE lg.pend.id = 0
  BY <1>1, <1>2 DEF Waiting, SameStore
<1>3. CASE lg.pend.id # 0
  <2>1. lg.pend.rec \in Records /\ Admits(R.s, lg.pend.rec) /\ s = Apply(R.s, lg.pend.rec)
    BY <1>3 DEF Waiting
  <2> QED BY <1>1, <2>1, ApplyKeeps
<1> QED BY <1>2, <1>3

\* What is due: nothing, or the frame of the pending resize, in its turn.
LEMMA DueIs ==
    ASSUME NEW R \in Places, Waiting(log, R, st), R.at = log.end
    PROVE  \/ /\ log.pend.id = 0 /\ Due = <<>> /\ EndAfter(Due) = R.at /\ st = R.s /\ log.next = R.seq
           \/ \E f \in Frames :
                 /\ log.pend.id # 0 /\ Due = <<f>> /\ EndAfter(Due) = End(f) /\ InTurn(R, f)
                 /\ st = After(R, f).s /\ log.next = After(R, f).seq
<1>1. CASE log.pend.id = 0
  BY <1>1 DEF Due, EndAfter, Waiting
<1>2. CASE log.pend.id # 0
  <2> DEFINE p == log.pend.rec
             f == Frame(p, log.end, log.pend.seq)
  <2>1. /\ log.pend.seq = R.seq /\ log.next = R.seq + 1 /\ p \in Records /\ Admits(R.s, p) /\ st = Apply(R.s, p)
    BY <1>2 DEF Waiting
  <2>2. st.gen = R.s.gen /\ st.gen \in Nat
    <3>1. st \in States /\ SameStore(st, R.s)
      BY WaitingFacts
    <3> QED BY <3>1, StateFacts DEF SameStore
  <2>3. R.at \in Nat /\ R.seq \in Nat
    BY DEF Places
  <2>4. f.at = log.end /\ f.gen = st.gen /\ f.seq = log.pend.seq /\ f.rec = p
    BY DEF Frame
  <2>5. f \in Frames
    BY <2>1, <2>2, <2>3 DEF Frame, Frames
  <2>6. Due = <<f>>
    BY <1>2 DEF Due
  <2> HIDE DEF f
  <2>7. EndAfter(Due) = End(f)
    BY <2>6 DEF EndAfter, Last
  <2>8. InTurn(R, f)
    BY <2>1, <2>2, <2>4 DEF InTurn
  <2>9. st = After(R, f).s /\ log.next = After(R, f).seq
    BY <2>1, <2>4 DEF After
  <2> QED BY <1>2, <2>5, <2>6, <2>7, <2>8, <2>9
<1> QED BY <1>1, <1>2

\* With what is due appended, the file replays to the live state.
LEMMA DueFlushed ==
    ASSUME NEW file \in MetaFiles, NEW s0 \in States, Follows(Image(file), s0, log, st),
           NEW new, new = [file EXCEPT !.pending = file.pending \o Appended(Due)]
    PROVE  /\ new \in MetaFiles /\ Image(new).base = Image(file).base
           /\ \E R \in Places : /\ ReplaysTo(Image(new), s0, R) /\ R.at = EndAfter(Due)
                                /\ R.s = st /\ R.seq = log.next
           /\ Due \in Seq(Frames) /\ st \in States /\ SameStore(st, s0)
<1>1. PICK R : ReplaysTo(Image(file), s0, R) /\ R.at = log.end /\ Waiting(log, R, st)
  BY DEF Follows
<1>2. R \in Places /\ SameStore(R.s, s0)
  <2>1. Image(file).log \in Logs
    BY ImageKeeps, FileFacts
  <2> QED BY <1>1, <2>1, ReachFacts DEF ReplaysTo
<1>3. st \in States /\ SameStore(st, s0)
  BY <1>1, <1>2, WaitingFacts DEF SameStore
<1>4. file.pending \in Seq(Effects)
  BY FileFacts
<1>5. CASE Due = <<>> /\ EndAfter(Due) = R.at /\ st = R.s /\ log.next = R.seq
  <2>1. file.pending \o Appended(Due) = file.pending
    <3>1. Appended(Due) = <<>>
      BY <1>5 DEF Appended
    <3> DEFINE q == file.pending
    <3>2. q \in Seq(Effects)
      BY <1>4
    <3> HIDE DEF q
    <3>3. q \o <<>> = q
      BY <3>2
    <3> QED BY <3>1, <3>3 DEF q
  <2>2. new = file
    BY <2>1, WithPending, FileFacts
  <2>3. Due \in Seq(Frames)
    BY <1>5
  <2> QED BY <1>1, <1>2, <1>3, <1>5, <2>2, <2>3
<1>6. CASE \E f \in Frames : Due = <<f>> /\ EndAfter(Due) = End(f) /\ InTurn(R, f)
                             /\ st = After(R, f).s /\ log.next = After(R, f).seq
  <2>1. PICK f \in Frames : Due = <<f>> /\ EndAfter(Due) = End(f) /\ InTurn(R, f)
                            /\ st = After(R, f).s /\ log.next = After(R, f).seq
    BY <1>6
  <2>2. file.pending \o Appended(Due) = Append(file.pending, FrameEffect(f))
    <3>1. \A q \in Seq(Effects) : q \o Appended(<<f>>) = Append(q, FrameEffect(f))
      <4>1. <<>> \in Seq(Frames)
        OBVIOUS
      <4> QED BY <4>1, AppendedFrames
    <3> QED BY <1>4, <2>1, <3>1
  <2>3. new = [file EXCEPT !.pending = Append(file.pending, FrameEffect(f))]
    BY <2>2
  <2>4. new \in MetaFiles /\ Image(new).base = Image(file).base /\ ReplaysTo(Image(new), s0, After(R, f))
    BY <1>1, <2>1, <2>3, FrameAppended
  <2>5. After(R, f) \in Places /\ After(R, f).at = End(f)
    BY <1>2, <2>1, AfterType
  <2>6. Due \in Seq(Frames)
    BY <2>1
  <2> QED BY <1>3, <2>1, <2>4, <2>5, <2>6
<1> QED BY <1>1, <1>2, <1>5, <1>6, DueIs

\* What a commit makes of the log's file and of the cursor.
Committed(r, file, new, lg) ==
    IF Deferrable(r) /\ log.pend.id = r.id
    THEN lg = [log EXCEPT !.pend.rec = Merged(r)] /\ new = file
    ELSE IF Deferrable(r)
    THEN /\ new = [file EXCEPT !.pending = file.pending \o Appended(Due)]
         /\ lg = [end |-> EndAfter(Due), next |-> log.next + 1, dirty |-> log.dirty \/ Due # <<>>,
                  pend |-> [id |-> r.id, rec |-> r, seq |-> log.next]]
    ELSE LET frames == Append(Due, Frame(r, EndAfter(Due), log.next))
         IN  /\ new = [file EXCEPT !.pending = file.pending \o Appended(frames)]
             /\ lg = [end |-> EndAfter(frames), next |-> log.next + 1, dirty |-> TRUE, pend |-> NoResize]

\* A commit leaves a file that replays to the live state it made.
LEMMA CommitFollows ==
    ASSUME NEW file \in MetaFiles, NEW s0 \in States, Follows(Image(file), s0, log, st),
           NEW r \in Records, Admits(st, r), NEW new, NEW lg, Committed(r, file, new, lg)
    PROVE  /\ new \in MetaFiles /\ Image(new).base = Image(file).base
           /\ Follows(Image(new), s0, lg, Apply(st, r))
           /\ Apply(st, r) \in States /\ SameStore(Apply(st, r), st)
<1>1. PICK R : ReplaysTo(Image(file), s0, R) /\ R.at = log.end /\ Waiting(log, R, st)
  BY DEF Follows
<1>2. R \in Places /\ R.s \in States
  <2>1. Image(file).log \in Logs
    BY ImageKeeps, FileFacts
  <2> QED BY <1>1, <2>1, ReachFacts DEF ReplaysTo
<1>3. st \in States
  BY <1>1, <1>2, WaitingFacts
<1>4. Apply(st, r) \in States /\ SameStore(Apply(st, r), st)
  BY <1>3, ApplyKeeps
<1>5. ASSUME Deferrable(r)
      PROVE  r.kind = "resize" /\ r.operation = "write" /\ r.size > st.nodes[r.id].size /\ r.id # 0
  <2>1. r.kind = "resize" /\ r.operation = "write" /\ r.size > st.nodes[r.id].size
    BY <1>5 DEF Deferrable
  <2>2. r.id \in DOMAIN st.nodes
    BY <2>1, <1>3, ResizeParts
  <2>3. DOMAIN st.nodes \subseteq Nat \ {0}
    BY <1>3, StateFacts
  <2> QED BY <2>1, <2>2, <2>3
<1> DEFINE mid == [file EXCEPT !.pending = file.pending \o Appended(Due)]
<1>6. /\ mid \in MetaFiles /\ Image(mid).base = Image(file).base
      /\ \E Q \in Places : ReplaysTo(Image(mid), s0, Q) /\ Q.at = EndAfter(Due) /\ Q.s = st /\ Q.seq = log.next
      /\ Due \in Seq(Frames)
  BY DueFlushed
<1>7. CASE Deferrable(r) /\ log.pend.id = r.id
  <2> DEFINE p == log.pend.rec
             q == Merged(r)
  <2>1. lg = [log EXCEPT !.pend.rec = q] /\ new = file
    BY <1>7 DEF Committed
  <2>2. log.pend.id # 0
    BY <1>5, <1>7
  <2>3. /\ PendShape(log.pend) /\ log.pend.seq = R.seq /\ log.next = R.seq + 1
        /\ p \in Records /\ p.id = log.pend.id /\ p.kind = "resize" /\ p.operation = "write"
        /\ Admits(R.s, p) /\ p.size > R.s.nodes[p.id].size /\ st = Apply(R.s, p)
    BY <1>1, <2>2 DEF Waiting
  <2>4. q = [r EXCEPT !.extents = p.extents \o r.extents]
    BY DEF Merged
  <2>5. /\ q \in Records /\ q.kind = "resize" /\ q.operation = "write" /\ q.id = r.id
        /\ Admits(R.s, q) /\ q.size > R.s.nodes[q.id].size
        /\ Apply(R.s, q) = Apply(st, r)
    <3> DEFINE s == R.s
    <3>1. /\ s \in States /\ p.kind = "resize" /\ p.operation = "write" /\ Admits(s, p)
          /\ p.size > s.nodes[p.id].size /\ p \in Records /\ st = Apply(s, p)
      BY <1>2, <2>3
    <3>2. /\ r.kind = "resize" /\ r.operation = "write" /\ r.id = p.id /\ Admits(Apply(s, p), r)
          /\ r.size > Apply(s, p).nodes[r.id].size
      BY <1>5, <1>7, <2>3
    <3> HIDE DEF s, p, q
    <3>3. LET z == [r EXCEPT !.extents = p.extents \o r.extents]
          IN  /\ z \in Records /\ z.kind = "resize" /\ z.operation = "write" /\ z.id = r.id
              /\ Admits(s, z) /\ z.size > s.nodes[z.id].size
              /\ Apply(s, z) = Apply(Apply(s, p), r)
      BY <3>1, <3>2, MergedResize
    <3> QED BY <2>4, <3>1, <3>3 DEF s
  <2>6. /\ lg.end = log.end /\ lg.next = log.next /\ lg.pend = [log.pend EXCEPT !.rec = q]
        /\ LogShape(lg)
    <3>1. log = [end |-> log.end, next |-> log.next, pend |-> log.pend, dirty |-> log.dirty]
      BY DEF Follows, LogShape
    <3> DEFINE pd == [log.pend EXCEPT !.rec = q]
    <3>2. lg = [log EXCEPT !.pend = pd]
      BY <2>1
    <3> HIDE DEF pd, q
    <3>3. lg = [end |-> log.end, next |-> log.next, pend |-> pd, dirty |-> log.dirty]
      BY <3>1, <3>2
    <3> QED BY <3>3 DEF LogShape, pd
  <2>7. lg.pend = [id |-> log.pend.id, rec |-> q, seq |-> log.pend.seq]
    <3> HIDE DEF q
    <3> QED BY <2>3, <2>6 DEF PendShape
  <2> HIDE DEF p, q
  <2>8. lg.pend.id = r.id /\ lg.pend.rec = q /\ lg.pend.seq = R.seq /\ PendShape(lg.pend) /\ lg.pend.id # 0
    BY <1>7, <2>2, <2>3, <2>7 DEF PendShape
  <2>9. Waiting(lg, R, Apply(st, r))
    BY <2>3, <2>5, <2>6, <2>8 DEF Waiting
  <2>10. Follows(Image(new), s0, lg, Apply(st, r))
    BY <1>1, <2>1, <2>6, <2>9 DEF Follows
  <2> QED BY <1>4, <2>1, <2>10
<1>8. CASE Deferrable(r) /\ log.pend.id # r.id
  <2>1. new = mid
    BY <1>8 DEF Committed
  <2> DEFINE pd == [id |-> r.id, rec |-> r, seq |-> log.next]
  <2>2. lg = [end |-> EndAfter(Due), next |-> log.next + 1, dirty |-> log.dirty \/ Due # <<>>, pend |-> pd]
    BY <1>8 DEF Committed
  <2>3. pd.id = r.id /\ pd.rec = r /\ pd.seq = log.next /\ PendShape(pd)
    BY DEF PendShape
  <2> HIDE DEF pd, mid
  <2>4. lg.end = EndAfter(Due) /\ lg.next = log.next + 1 /\ lg.pend = pd /\ LogShape(lg)
    BY <2>2 DEF LogShape
  <2>5. PICK Q \in Places : ReplaysTo(Image(mid), s0, Q) /\ Q.at = EndAfter(Due) /\ Q.s = st /\ Q.seq = log.next
    BY <1>6
  <2>6. Waiting(lg, Q, Apply(st, r))
    BY <1>5, <1>8, <2>3, <2>4, <2>5 DEF Waiting
  <2>7. Follows(Image(new), s0, lg, Apply(st, r))
    BY <2>1, <2>4, <2>5, <2>6 DEF Follows
  <2> QED BY <1>4, <1>6, <2>1, <2>7
<1>9. CASE ~Deferrable(r)
  <2> DEFINE f == Frame(r, EndAfter(Due), log.next)
             frames == Append(Due, f)
  <2>1. /\ new = [file EXCEPT !.pending = file.pending \o Appended(frames)]
        /\ lg = [end |-> EndAfter(frames), next |-> log.next + 1, dirty |-> TRUE, pend |-> NoResize]
    BY <1>9 DEF Committed
  <2>2. PICK Q \in Places : ReplaysTo(Image(mid), s0, Q) /\ Q.at = EndAfter(Due) /\ Q.s = st /\ Q.seq = log.next
    BY <1>6
  <2>3. Q.at \in Nat /\ Q.seq \in Nat /\ st.gen \in Nat
    BY <1>3, StateFacts DEF Places
  <2>4. f \in Frames /\ f.at = EndAfter(Due) /\ f.gen = st.gen /\ f.seq = log.next /\ f.rec = r
    BY <2>2, <2>3 DEF Frame, Frames
  <2> HIDE DEF f, mid
  <2>5. InTurn(Q, f)
    BY <2>2, <2>4 DEF InTurn
  <2>6. EndAfter(frames) = End(f)
    <3>1. frames \in Seq(Frames) /\ frames # <<>> /\ Len(frames) = Len(Due) + 1 /\ frames[Len(Due) + 1] = f
      BY <1>6, <2>4, AppendProperties
    <3> QED BY <3>1 DEF EndAfter, Last
  <2>7. file.pending \in Seq(Effects) /\ mid.pending = file.pending \o Appended(Due)
    BY FileFacts, WithPending, MetaFileParts DEF mid
  <2>8. file.pending \o Appended(frames) = Append(mid.pending, FrameEffect(f))
    <3>1. \A q \in Seq(Effects), d \in Seq(Frames) :
             q \o Appended(Append(d, f)) = Append(q \o Appended(d), FrameEffect(f))
      BY <2>4, AppendedFrames
    <3> QED BY <1>6, <2>7, <3>1
  <2>9. new = [mid EXCEPT !.pending = Append(mid.pending, FrameEffect(f))]
    <3>1. new = MetaFile(file.base, file.log, Append(mid.pending, FrameEffect(f)))
      BY <2>1, <2>8, WithPending
    <3>2. mid = MetaFile(file.base, file.log, mid.pending)
      BY <2>7, WithPending DEF mid
    <3>3. mid.base = file.base /\ mid.log = file.log
      BY <3>2, MetaFileParts
    <3>4. \A x : [mid EXCEPT !.pending = x] = MetaFile(mid.base, mid.log, x)
      BY <1>6, WithPending DEF mid
    <3> QED BY <3>1, <3>3, <3>4
  <2>10. /\ new \in MetaFiles /\ Image(new).base = Image(mid).base
         /\ ReplaysTo(Image(new), s0, After(Q, f))
    <3>1. mid \in MetaFiles
      BY <1>6 DEF mid
    <3> QED BY <2>2, <2>4, <2>5, <2>9, <3>1, FrameAppended
  <2>11. After(Q, f).at = End(f) /\ After(Q, f).seq = log.next + 1 /\ After(Q, f).s = Apply(st, r)
    BY <2>2, <2>4, <2>5, AfterType
  <2> HIDE DEF frames
  <2>12. LogShape(lg) /\ lg.end = End(f) /\ lg.next = log.next + 1 /\ lg.pend.id = 0
    BY <2>1, <2>6 DEF LogShape, NoResize
  <2>13. Follows(Image(new), s0, lg, Apply(st, r))
    BY <2>10, <2>11, <2>12 DEF Follows, Waiting
  <2> QED BY <1>4, <1>6, <2>10, <2>13 DEF mid
<1> QED BY <1>7, <1>8, <1>9

-----------------------------------------------------------------------------
(***************************************************************************)
(* The next generation, and the records the calls make.                    *)
(***************************************************************************)
LEMMA TrimmedIs ==
    ASSUME NEW total \in Nat, NEW free
    PROVE  /\ Trimmed(total, free) \in 0 .. total
           /\ Trimmed(total, free) .. (total - 1) \subseteq free
<1> DEFINE S == {t \in 0 .. total : t .. (total - 1) \subseteq free}
<1>1. S \in SUBSET Nat /\ total \in S
  OBVIOUS
<1>2. PICK t \in S : \A u \in S : t <= u
  BY <1>1, SmallestOf
<1>3. t \in 0 .. total /\ t .. (total - 1) \subseteq free
  OBVIOUS
<1>4. t > 0 => t - 1 \notin free
  <2> SUFFICES ASSUME t > 0, t - 1 \in free PROVE FALSE
    OBVIOUS
  <2>1. t - 1 \in 0 .. total
    BY <1>3
  <2>2. (t - 1) .. (total - 1) \subseteq free
    <3>1. \A x \in (t - 1) .. (total - 1) : x = t - 1 \/ x \in t .. (total - 1)
      BY <1>3
    <3> QED BY <1>3, <3>1
  <2>3. t - 1 \in S
    BY <2>1, <2>2
  <2> QED BY <1>2, <1>3, <2>3
<1> HIDE DEF S
<1> QED BY <1>3, <1>4 DEF Trimmed

\* A repack gives the next generation of the same tree, in the other file.
LEMMA ProjectKeeps ==
    ASSUME NEW s \in States, NEW pinned
    PROVE  LET p == ProjectRepack(s, pinned)
           IN  /\ p \in States /\ p.active = Other(s.active) /\ p.gen = s.gen + 1
               /\ p.retained = [s.retained EXCEPT ![Other(s.active)] = s.gen + 1]
<1> DEFINE p == ProjectRepack(s, pinned)
           rel == Released(s, pinned)
           free == s.avail \cup rel
           t == Trimmed(s.total, free)
           o == Other(s.active)
           quar == [x \in DOMAIN s.quar \ rel |->
                        IF x \in pinned THEN 0 ELSE IF s.quar[x] = 0 THEN s.gen + 1 ELSE s.quar[x]]
           avail == {x \in free : x < t}
           retained == [s.retained EXCEPT ![o] = s.gen + 1]
<1>1. /\ s.gen \in Nat /\ s.next \in Nat \ {0} /\ s.active \in MetaNames
      /\ s.retained \in [MetaNames -> Nat] /\ s.total \in Nat /\ s.avail \in SUBSET Nat
      /\ s.nodes \in [DOMAIN s.nodes -> Node] /\ DOMAIN s.nodes \subseteq Nat \ {0}
      /\ s.quar \in [DOMAIN s.quar -> Nat] /\ DOMAIN s.quar \subseteq Nat
      /\ \A i \in DOMAIN s.nodes : Len(s.nodes[i].extents) = CountFor(s.nodes[i].size)
  BY StateFacts
<1>2. rel \subseteq DOMAIN s.quar
  BY DEF Released
<1>3. t \in 0 .. s.total
  BY <1>1, TrimmedIs
<1>4. o \in MetaNames
  BY DEF Other, MetaNames
<1>5. retained \in [MetaNames -> Nat]
  BY <1>1, <1>4
<1>6. quar \in [DOMAIN s.quar \ rel -> Nat]
  BY <1>1
<1>7. avail \subseteq 0 .. t - 1 /\ avail \in SUBSET Nat
  BY <1>1, <1>2, <1>3
<1>8. p = [s EXCEPT !.gen = s.gen + 1, !.active = o, !.retained = retained, !.quar = quar,
                    !.avail = avail, !.total = t]
  BY DEF ProjectRepack
<1> HIDE DEF p, rel, free, t, o, quar, avail, retained
<1>9. /\ p = [gen |-> s.gen + 1, next |-> s.next, active |-> o, retained |-> retained, nodes |-> s.nodes,
              total |-> t, avail |-> avail, quar |-> quar]
  <2>1. Shape(s)
    BY StateShape
  <2>2. s = [gen |-> s.gen, next |-> s.next, active |-> s.active, retained |-> s.retained,
             nodes |-> s.nodes, total |-> s.total, avail |-> s.avail, quar |-> s.quar]
    BY <2>1 DEF Shape
  <2> QED BY ONLY <1>8, <2>2
<1>10. /\ Shape(p) /\ p.gen = s.gen + 1 /\ p.next = s.next /\ p.active = o /\ p.retained = retained
       /\ p.nodes = s.nodes /\ p.total = t /\ p.avail = avail /\ p.quar = quar
  BY <1>9 DEF Shape
<1>11. p \in States
  <2>1. p.gen \in Nat /\ p.total \in Nat /\ p.avail \subseteq 0 .. p.total - 1
    BY <1>1, <1>3, <1>7, <1>10
  <2>2. DOMAIN s.quar \ rel \in SUBSET Nat /\ DOMAIN s.nodes \in SUBSET (Nat \ {0})
    BY <1>1
  <2> QED BY <1>1, <1>4, <1>5, <1>6, <1>7, <1>10, <2>1, <2>2, BuildState DEF Shape
<1> QED BY <1>10, <1>11 DEF p, o, retained

LEMMA CreateType ==
    ASSUME NEW s \in States, NEW what \in {"dir", "file", "link"}, NEW d \in DOMAIN s.nodes,
           NEW name \in Names, NEW size \in Nat
    PROVE  Create(s, what, d, name, size) \in Records
<1>1. d \in Nat /\ s.next \in Nat
  BY StateFacts
<1>2. ChooseExtents(s, CountFor(size)) \in Seq(Nat)
  BY ChosenType, Counts
<1>3. name \in Labels
  BY DEF Labels
<1> QED BY <1>1, <1>2, <1>3 DEF Create, Records

LEMMA ResizeType ==
    ASSUME NEW s \in States, NEW i \in DOMAIN s.nodes, NEW size \in Nat,
           NEW operation \in {"write", "truncate"}
    PROVE  Resize(s, i, size, operation) \in Records
<1> DEFINE more == CountFor(size) - Len(s.nodes[i].extents)
           n == IF more > 0 THEN more ELSE 0
           xs == ChooseExtents(s, n)
<1>1. i \in Nat /\ s.nodes[i].extents \in Seq(Nat)
  BY StateFacts
<1>2. n \in Nat
  <2>1. CountFor(size) \in Nat
    BY Counts
  <2>2. Len(s.nodes[i].extents) \in Nat
    BY <1>1
  <2> QED BY <2>1, <2>2
<1> HIDE DEF n
<1>3. xs \in Seq(Nat)
  BY <1>2, ChosenType
<1>4. Resize(s, i, size, operation)
        = [kind |-> "resize", operation |-> operation, id |-> i, size |-> size, extents |-> xs]
  BY DEF Resize, n
<1> HIDE DEF xs
<1> QED BY <1>1, <1>3, <1>4 DEF Records

LEMMA OtherTypes ==
    ASSUME NEW s \in States, NEW name \in Names, NEW newName \in Names
    PROVE  /\ \A what \in {"dir", "file"}, d \in DOMAIN s.nodes : Removal(what, d, name) \in Records
           /\ \A d \in DOMAIN s.nodes, e \in DOMAIN s.nodes : Rename(d, name, e, newName) \in Records
<1>1. DOMAIN s.nodes \subseteq Nat
  BY StateFacts
<1>2. name \in Labels /\ newName \in Labels
  BY DEF Labels
<1> QED BY <1>1, <1>2 DEF Removal, Rename, Records

LEMMA MoreTypes ==
    ASSUME NEW s \in States
    PROVE  /\ \A count \in Nat : Reserve(s, count) \in Records
           /\ \A i \in DOMAIN s.nodes : Attributes(i) \in Records
<1>1. DOMAIN s.nodes \subseteq Nat
  BY StateFacts
<1>2. \A count \in Nat : ChooseExtents(s, count) \in Seq(Nat)
  BY ChosenType
<1> QED BY <1>1, <1>2 DEF Reserve, Attributes, Records

-----------------------------------------------------------------------------
(***************************************************************************)
(* The inductive invariant.                                                *)
(***************************************************************************)
SlotsOK ==
    /\ slots \in [{0, 1} -> [now : Slots, maybe : SUBSET Slots]]
    /\ \A i \in {0, 1} : slots[i].now \in slots[i].maybe
    /\ \A i \in {0, 1} : \A v \in slots[i].maybe : v.seq = 0 \/ (v.seq - 1) % 2 = i
Descriptors == [on : Int, extents : Seq(Nat), size : Nat, owner : Labels]
Typed ==
    /\ meta \in [MetaNames -> MetaFiles] /\ SlotsOK
    /\ st \in States /\ fds \in [FDs -> Descriptors]
    /\ phase \in {"idle", "seeded", "written", "activating"}
PhaseOK ==
    /\ phase = "seeded" => status = "down"
    /\ phase \in {"written", "activating"} => status = "open"

\* A bootstrap has written the first base and the first slot.
Seeded ==
    phase = "seeded" =>
        /\ meta["a"] = MetaFile(Base(InitialState), {}, <<>>)
        /\ slots[0].now = [seq |-> 1, file |-> "a", gen |-> 1] /\ slots[1].now.seq = 0

\* The selected slot names the live file, and that file follows the live state.
LiveBody(sel, second, file, lg, s) ==
    /\ sel.seq > 0 /\ sel.file = s.active /\ sel.gen = s.gen
    /\ s = DecodedBy(second, s)
    /\ Follows(Image(file), DecodedBy(second, Image(file).base.state), lg, s)
LiveOK == status = "open" /\ phase # "activating" => LiveBody(Selected, Second, meta[st.active], log, st)

\* During a repack the other file holds the next base and nothing else.
NextOK ==
    phase \in {"written", "activating"} =>
        Image(meta[Other(st.active)]) = MetaFile(Base(Projected), {}, <<>>)
ActivOK ==
    phase = "activating" =>
        /\ Selected.seq > 0 /\ Selected.file = Projected.active /\ Selected.gen = Projected.gen
        /\ Second.seq > 0 /\ Second.file = st.active /\ Second.gen = st.gen
        /\ st.retained[st.active] = st.gen
LogInv == Typed /\ PhaseOK /\ Seeded /\ LiveOK /\ NextOK /\ ActivOK

LEMMA SlotFacts ==
    ASSUME SlotsOK
    PROVE  /\ Selected \in Slots /\ Second \in Slots
           /\ \A i \in {0, 1} : slots[i].now \in Slots /\ slots[i].maybe \subseteq Slots
           /\ Selected.seq = 0 => slots[0].now.seq = 0 /\ slots[1].now.seq = 0
<1>1. \A i \in {0, 1} : slots[i].now \in Slots /\ slots[i].maybe \subseteq Slots
  BY DEF SlotsOK
<1>2. slots[0].now.seq \in Nat /\ slots[1].now.seq \in Nat
  BY <1>1 DEF Slots
<1> QED BY <1>1, <1>2 DEF Selected, Second

\* An idle store has no more to keep than its types and, open, its log.
LEMMA IdleKeeps ==
    ASSUME phase' = "idle", meta' \in [MetaNames -> MetaFiles], SlotsOK', st' \in States,
           fds' \in [FDs -> Descriptors],
           status' = "open" => LiveBody(Selected', Second', meta'[st'.active], log', st')
    PROVE  LogInv'
<1>1. Typed'
  BY DEF Typed
<1>2. PhaseOK' /\ Seeded' /\ NextOK' /\ ActivOK'
  BY DEF PhaseOK, Seeded, NextOK, ActivOK
<1>3. LiveOK'
  BY DEF LiveOK
<1> QED BY <1>1, <1>2, <1>3 DEF LogInv

LEMMA ClosedType == Closed \in [FDs -> Descriptors]
<1>1. NotOpen \in Descriptors
  <2>1. <<>> \in Seq(Nat) /\ "/" \in Labels
    BY DEF Labels
  <2> QED BY <2>1 DEF NotOpen, Descriptors
<1> QED BY <1>1 DEF Closed

\* What an open, idle store knows of its log.
LEMMA LiveFacts ==
    ASSUME Typed, LiveBody(Selected, Second, meta[st.active], log, st)
    PROVE  LET file == meta[st.active]
               s0 == DecodedBy(Second, Image(file).base.state)
           IN  /\ st.active \in MetaNames /\ file \in MetaFiles /\ s0 \in States
               /\ Follows(Image(file), s0, log, st)
               /\ Second \in Slots /\ Selected \in Slots
               /\ \A t \in States : SameStore(t, st) => t = DecodedBy(Second, t)
<1>1. Second \in Slots /\ Selected \in Slots /\ st \in States
  BY SlotFacts DEF Typed
<1>2. st.active \in MetaNames
  BY <1>1, StateFacts
<1>3. meta[st.active] \in MetaFiles
  BY <1>2 DEF Typed
<1>4. Image(meta[st.active]).base.state \in States
  <2>1. Image(meta[st.active]).base \in Bases
    BY <1>3, ImageKeeps, FileFacts
  <2> QED BY <2>1 DEF Bases
<1>5. DecodedBy(Second, Image(meta[st.active]).base.state) \in States
  BY <1>1, <1>4, DecodedType
<1>6. \A t \in States : SameStore(t, st) => t = DecodedBy(Second, t)
  <2>1. st = DecodedBy(Second, st)
    BY DEF LiveBody
  <2>2. \A t \in States : SameStore(t, DecodedBy(Second, st)) => t = DecodedBy(Second, t)
    BY <1>1, DecodedType
  <2> QED BY <2>1, <2>2
<1>7. Follows(Image(meta[st.active]), DecodedBy(Second, Image(meta[st.active]).base.state), log, st)
  BY DEF LiveBody
<1> QED BY <1>1, <1>2, <1>3, <1>5, <1>6, <1>7

\* The live file has changed, the slots have not.
LEMMA LiveMoves ==
    ASSUME Typed, LiveBody(Selected, Second, meta[st.active], log, st), slots' = slots,
           NEW new \in MetaFiles, Image(new).base = Image(meta[st.active]).base,
           meta'[st.active] = new, st' \in States, SameStore(st', st),
           Follows(Image(new), DecodedBy(Second, Image(meta[st.active]).base.state), log', st')
    PROVE  SlotsOK' /\ LiveBody(Selected', Second', meta'[st'.active], log', st')
<1>1. Selected' = Selected /\ Second' = Second
  BY DEF Selected, Second
<1>2. SlotsOK'
  BY DEF SlotsOK, Typed
<1>4. st'.active = st.active /\ st'.gen = st.gen
  BY DEF SameStore
<1>5. st' = DecodedBy(Second, st')
  BY LiveFacts
<1>6. Selected.seq > 0 /\ Selected.file = st.active /\ Selected.gen = st.gen
  BY DEF LiveBody
<1> QED BY <1>1, <1>2, <1>4, <1>5, <1>6 DEF LiveBody

\* A commit keeps the log.
LEMMA CommitStep ==
    ASSUME Typed, LiveBody(Selected, Second, meta[st.active], log, st), slots' = slots,
           NEW r \in Records, Admits(st, r), Commit(r)
    PROVE  /\ meta' \in [MetaNames -> MetaFiles] /\ SlotsOK' /\ st' \in States
           /\ LiveBody(Selected', Second', meta'[st'.active], log', st')
<1> DEFINE file == meta[st.active]
           s0 == DecodedBy(Second, Image(file).base.state)
<1>1. /\ st.active \in MetaNames /\ file \in MetaFiles /\ s0 \in States
      /\ Follows(Image(file), s0, log, st)
  BY LiveFacts
<1>2. meta \in [MetaNames -> MetaFiles] /\ st' = Apply(st, r)
  BY DEF Typed, Commit
<1>3. \E new : Committed(r, file, new, log') /\ meta' = [meta EXCEPT ![st.active] = new]
  <2>1. CASE Deferrable(r) /\ log.pend.id = r.id
    <3>1. log' = [log EXCEPT !.pend.rec = Merged(r)] /\ meta' = meta
      BY <2>1 DEF Commit
    <3>2. meta = [meta EXCEPT ![st.active] = file]
      BY <1>1, <1>2
    <3> QED BY <2>1, <3>1, <3>2 DEF Committed
  <2>2. CASE Deferrable(r) /\ log.pend.id # r.id
    <3> DEFINE new == [file EXCEPT !.pending = file.pending \o Appended(Due)]
    <3>1. meta' = [meta EXCEPT ![st.active] = new]
      BY <1>1, <1>2, <2>2 DEF Commit, Append2Log
    <3>2. log' = [end |-> EndAfter(Due), next |-> log.next + 1, dirty |-> log.dirty \/ Due # <<>>,
                  pend |-> [id |-> r.id, rec |-> r, seq |-> log.next]]
      BY <2>2 DEF Commit
    <3>3. Committed(r, file, new, log')
      BY <2>2, <3>2 DEF Committed
    <3> QED BY <3>1, <3>3
  <2>3. CASE ~Deferrable(r)
    <3> DEFINE frames == Append(Due, Frame(r, EndAfter(Due), log.next))
               new == [file EXCEPT !.pending = file.pending \o Appended(frames)]
    <3>1. meta' = [meta EXCEPT ![st.active] = new]
      BY <1>1, <1>2, <2>3 DEF Commit, Append2Log
    <3>2. log' = [end |-> EndAfter(frames), next |-> log.next + 1, dirty |-> TRUE, pend |-> NoResize]
      BY <2>3 DEF Commit
    <3>3. Committed(r, file, new, log')
      BY <2>3, <3>2 DEF Committed
    <3> QED BY <3>1, <3>3
  <2> QED BY <2>1, <2>2, <2>3
<1>4. PICK new : Committed(r, file, new, log') /\ meta' = [meta EXCEPT ![st.active] = new]
  BY <1>3
<1>5. /\ new \in MetaFiles /\ Image(new).base = Image(file).base
      /\ Follows(Image(new), s0, log', Apply(st, r))
      /\ Apply(st, r) \in States /\ SameStore(Apply(st, r), st)
  <2> HIDE DEF file, s0
  <2> QED BY <1>1, <1>4, CommitFollows
<1>6. meta' \in [MetaNames -> MetaFiles] /\ meta'[st.active] = new
  BY <1>1, <1>2, <1>4, <1>5
<1> QED BY <1>2, <1>5, <1>6, LiveMoves

CursorFields == {"end", "next", "pend", "dirty"}
Moved(lg, end, pend, dirty) == [lg EXCEPT !.end = end, !.pend = pend, !.dirty = dirty]
LEMMA CursorIs ==
    ASSUME NEW lg, LogShape(lg), NEW end, NEW pend, NEW dirty, NEW m, m = Moved(lg, end, pend, dirty)
    PROVE  m = [end |-> end, next |-> lg.next, pend |-> pend, dirty |-> dirty]
<1>1. DOMAIN lg = CursorFields
  BY DEF LogShape, CursorFields
<1>2. DOMAIN m = CursorFields
  BY <1>1 DEF Moved
<1>3. m.next = lg.next /\ m.end = end /\ m.pend = pend /\ m.dirty = dirty
  BY <1>1 DEF CursorFields, Moved
<1>4. m = [x \in DOMAIN m |-> m[x]]
  BY DEF Moved
<1>5. m = [x \in {"end", "next", "pend", "dirty"} |-> m[x]]
  BY <1>2, <1>4 DEF CursorFields
<1> QED BY ONLY <1>3, <1>5

\* What is due reaches the live file, flushed or not.
LEMMA DueType ==
    ASSUME Typed, LiveBody(Selected, Second, meta[st.active], log, st),
           NEW due, due = [meta[st.active] EXCEPT !.pending = meta[st.active].pending \o Appended(Due)]
    PROVE  due \in MetaFiles /\ Image(due) \in MetaFiles
<1> DEFINE file == meta[st.active]
           s0 == DecodedBy(Second, Image(file).base.state)
<1>1. /\ file \in MetaFiles /\ s0 \in States /\ Follows(Image(file), s0, log, st)
  BY LiveFacts
<1>2. due \in MetaFiles
  <2>1. due = [file EXCEPT !.pending = file.pending \o Appended(Due)]
    OBVIOUS
  <2> HIDE DEF file, s0
  <2> QED BY ONLY <1>1, <2>1, DueFlushed
<1> QED BY <1>2, ImageKeeps

LEMMA DueStep ==
    ASSUME Typed, LiveBody(Selected, Second, meta[st.active], log, st), slots' = slots, st' = st,
           NEW due, due = [meta[st.active] EXCEPT !.pending = meta[st.active].pending \o Appended(Due)],
           NEW new, new \in {due, Image(due)}, meta'[st.active] = new,
           NEW dirty, log' = [log EXCEPT !.end = EndAfter(Due), !.pend = NoResize, !.dirty = dirty]
    PROVE  /\ SlotsOK' /\ LiveBody(Selected', Second', meta'[st'.active], log', st')
<1> DEFINE file == meta[st.active]
           s0 == DecodedBy(Second, Image(file).base.state)
<1>1. /\ file \in MetaFiles /\ s0 \in States /\ Follows(Image(file), s0, log, st)
  BY LiveFacts
<1>2. /\ due \in MetaFiles /\ Image(due).base = Image(file).base /\ st \in States
      /\ \E R \in Places : ReplaysTo(Image(due), s0, R) /\ R.at = EndAfter(Due) /\ R.s = st /\ R.seq = log.next
  <2>1. due = [file EXCEPT !.pending = file.pending \o Appended(Due)]
    OBVIOUS
  <2> HIDE DEF file, s0
  <2> QED BY ONLY <1>1, <2>1, DueFlushed
<1>3. new \in MetaFiles /\ Image(new) = Image(due)
  BY <1>2, ImageKeeps, ImageTwice
<1>4. LogShape(log') /\ log'.end = EndAfter(Due) /\ log'.next = log.next /\ log'.pend.id = 0
  <2>1. LogShape(log)
    BY <1>1 DEF Follows
  <2>2. log' = [end |-> EndAfter(Due), next |-> log.next, pend |-> NoResize, dirty |-> dirty]
    <3> DEFINE end == EndAfter(Due)
    <3>1. log' = Moved(log, end, NoResize, dirty)
      BY DEF Moved
    <3>2. \A lg, e, p, d : LogShape(lg) =>
            Moved(lg, e, p, d) = [end |-> e, next |-> lg.next, pend |-> p, dirty |-> d]
      BY CursorIs
    <3> HIDE DEF end
    <3>3. log' = [end |-> end, next |-> log.next, pend |-> NoResize, dirty |-> dirty]
      BY ONLY <2>1, <3>1, <3>2
    <3> QED BY <3>3 DEF end
  <2> DEFINE end == EndAfter(Due)
             none == NoResize
  <2>3. log' = [end |-> end, next |-> log.next, pend |-> none, dirty |-> dirty] /\ none.id = 0
    BY <2>2 DEF NoResize
  <2> HIDE DEF end, none
  <2>4. log'.end = end /\ log'.next = log.next /\ log'.pend = none /\ log'.dirty = dirty
    BY ONLY <2>3
  <2>5. log' = [end |-> log'.end, next |-> log'.next, pend |-> log'.pend, dirty |-> log'.dirty]
    BY ONLY <2>3, <2>4
  <2> QED BY <2>3, <2>4, <2>5 DEF LogShape, end
<1>5. Follows(Image(new), s0, log', st')
  BY <1>2, <1>3, <1>4 DEF Follows, Waiting
<1>6. SameStore(st', st)
  BY DEF SameStore
<1> QED BY <1>2, <1>3, <1>5, <1>6, LiveMoves

-----------------------------------------------------------------------------
(***************************************************************************)
(* Every step keeps it: opening and crashing.                              *)
(***************************************************************************)
LEMMA FirstBase ==
    /\ [EmptyFile EXCEPT !.base = Base(InitialState)] = MetaFile(Base(InitialState), {}, <<>>)
    /\ MetaFile(Base(InitialState), {}, <<>>) \in MetaFiles
    /\ EmptyFile \in MetaFiles
<1>1. EmptyFile \in MetaFiles /\ {} \in Logs
  BY EmptyIsAFile
<1>2. Base(InitialState) \in Bases
  BY InitialIsAState DEF Base, Bases
<1>3. <<>> \in Seq(Effects)
  OBVIOUS
<1>4. MetaFile(Base(InitialState), {}, <<>>) \in MetaFiles
  BY <1>1, <1>2, <1>3, MetaFileType
<1>5. [EmptyFile EXCEPT !.base = Base(InitialState)] = MetaFile(Base(InitialState), {}, <<>>)
  <2> DEFINE base == Base(InitialState)
             none == NoBase
  <2>1. EmptyFile = [base |-> none, log |-> {}, pending |-> <<>>]
    BY DEF EmptyFile
  <2> HIDE DEF base, none
  <2>2. [EmptyFile EXCEPT !.base = base] = [base |-> base, log |-> {}, pending |-> <<>>]
    BY <2>1
  <2> QED BY <2>2 DEF MetaFile, base
<1> QED BY <1>1, <1>4, <1>5

LEMMA SureSlot ==
    ASSUME NEW v \in Slots
    PROVE  Sure(v) \in [now : Slots, maybe : SUBSET Slots] /\ Sure(v).now = v /\ Sure(v).maybe = {v}
BY DEF Sure

LEMMA LogInvInit == Init => LogInv
<1> SUFFICES ASSUME Init PROVE LogInv
  OBVIOUS
<1>1. NoSlot \in Slots /\ NoSlot.seq = 0
  BY DEF NoSlot, Slots, MetaNames
<1>2. SlotsOK
  <2>1. slots = [i \in {0, 1} |-> Sure(NoSlot)]
    BY DEF Init
  <2>2. Sure(NoSlot) \in [now : Slots, maybe : SUBSET Slots] /\ Sure(NoSlot).now = NoSlot /\ Sure(NoSlot).maybe = {NoSlot}
    BY <1>1, SureSlot
  <2> QED BY <1>1, <2>1, <2>2 DEF SlotsOK
<1>3. meta \in [MetaNames -> MetaFiles]
  BY FirstBase DEF Init, MetaNames
<1>4. st \in States /\ fds \in [FDs -> Descriptors]
  BY InitialIsAState, ClosedType DEF Init
<1>5. status = "down" /\ phase = "idle"
  BY DEF Init
<1> QED BY <1>2, <1>3, <1>4, <1>5 DEF LogInv, Typed, PhaseOK, Seeded, LiveOK, NextOK, ActivOK

LEMMA SlotsStay ==
    ASSUME SlotsOK, slots' = slots
    PROVE  SlotsOK' /\ Selected' = Selected /\ Second' = Second
BY DEF SlotsOK, Selected, Second

LEMMA RefuseKeeps == ASSUME LogInv, phase = "idle", Refuse PROVE LogInv'
<1>1. /\ phase' = "idle" /\ meta' = meta /\ st' = st /\ fds' = fds /\ slots' = slots /\ status' = "corrupt"
  BY DEF Refuse
<1>2. SlotsOK'
  BY <1>1, SlotsStay DEF LogInv, Typed
<1> QED BY <1>1, <1>2, IdleKeeps DEF LogInv, Typed

\* Recovery replays the activated file, and cuts what it could not replay.
LEMMA RecoverKeeps ==
    ASSUME LogInv, phase = "idle", Selected.seq > 0, BaseMatches, RecoverActivated
    PROVE  LogInv'
<1> DEFINE name == Selected.file
           old == meta[name]
           file == Image(old)
           s0 == DecodedBy(Second, file.base.state)
<1>1. Selected \in Slots /\ Second \in Slots /\ SlotsOK' /\ Selected' = Selected /\ Second' = Second
  BY SlotFacts, SlotsStay DEF LogInv, Typed, RecoverActivated
<1>2. name \in MetaNames /\ meta \in [MetaNames -> MetaFiles]
  BY <1>1 DEF Slots, LogInv, Typed
<1>3. old \in MetaFiles
  BY <1>2
<1>4. file \in MetaFiles /\ file.base \in Bases /\ file.log \in Logs
  <2> HIDE DEF old
  <2>1. file \in MetaFiles
    BY <1>3, ImageKeeps
  <2> QED BY <2>1, FileFacts
<1>5. file.base.state \in States /\ file.base.state.gen = Selected.gen /\ file.base.state.active = name
  BY <1>4 DEF Bases, BaseMatches
<1>6. /\ s0 \in States /\ s0.active = name /\ s0.gen = Selected.gen
      /\ \A t \in States : SameStore(t, s0) => t = DecodedBy(Second, t)
  <2> DEFINE b == file.base.state
  <2> HIDE DEF file, b
  <2>1. b \in States
    BY <1>5 DEF b
  <2>2. /\ DecodedBy(Second, b) \in States
        /\ DecodedBy(Second, b).active = b.active /\ DecodedBy(Second, b).gen = b.gen
        /\ \A t \in States : SameStore(t, DecodedBy(Second, b)) => t = DecodedBy(Second, t)
    BY <1>1, <2>1, DecodedType
  <2> QED BY <1>5, <2>2 DEF b
<1>7. Decoded(file.base.state) = s0
  BY DecodedIs
<1> HIDE DEF s0
<1>8. PICK R : Reaches(file.log, s0, R) /\ Stalled(file.log, R)
  <2> HIDE DEF file
  <2> QED BY <1>4, <1>6, ReachEnds
<1>9. Replay(file, s0) = R
  <2> HIDE DEF file
  <2> QED BY <1>4, <1>6, <1>8, ReachReplay
<1>10. /\ R \in Places /\ R.s \in States /\ R.at \in Nat /\ R.seq \in Nat /\ SameStore(R.s, s0)
       /\ \A h \in file.log : h.at < R.at => End(h) <= R.at
  <2> HIDE DEF file
  <2> QED BY <1>4, <1>6, <1>8, ReachFacts
<1> DEFINE suffix == {f \in file.log : f.at >= R.at}
           cut == [op |-> "cut", at |-> R.at]
<1>11. /\ status' = "open" /\ st' = R.s /\ fds' = Closed /\ phase' = phase
       /\ log' = [end |-> R.at, next |-> R.seq, pend |-> NoResize, dirty |-> suffix # {}]
       /\ meta' = IF suffix = {} THEN meta ELSE [meta EXCEPT ![name].pending = Append(@, cut)]
  BY <1>7, <1>9 DEF RecoverActivated
<1>12. \E new \in MetaFiles : /\ meta' = [meta EXCEPT ![name] = new] /\ Image(new).base = file.base
                              /\ ReplaysTo(Image(new), s0, R)
  <2>1. CASE suffix = {}
    <3>1. meta' = [meta EXCEPT ![name] = old]
      BY <1>2, <1>11, <2>1
    <3>2. \A f \in file.log : f.at \in Nat
      BY <1>4, FrameTakesRoom DEF Logs
    <3>3. \A f \in file.log : End(f) <= R.at
      BY <1>10, <2>1, <3>2
    <3> HIDE DEF name, old
    <3>4. ReplaysTo(Image(old), s0, R)
      BY <1>8, <3>3 DEF ReplaysTo
    <3> QED BY <1>3, <3>1, <3>4
  <2>2. CASE suffix # {}
    <3> DEFINE new == [old EXCEPT !.pending = Append(old.pending, cut)]
    <3>1. meta' = [meta EXCEPT ![name] = new]
      BY <1>2, <1>11, <2>2
    <3>2. cut \in Effects /\ cut.op = "cut" /\ cut.at = R.at
      BY <1>10 DEF Effects
    <3> HIDE DEF cut, suffix
    <3>3. new \in MetaFiles /\ Image(new) = Effect(file, cut, "full")
      <4> HIDE DEF name
      <4> QED BY <1>3, <3>2, ImageAppend
    <3>4. Image(new) = MetaFile(EffectBase(file.base, cut, "full"), EffectLog(file.log, cut, "full"), file.pending)
      <4> HIDE DEF new, file
      <4>1. Effect(file, cut, "full")
              = MetaFile(EffectBase(file.base, cut, "full"), EffectLog(file.log, cut, "full"), file.pending)
        BY <1>4, <3>2, EffectKeeps
      <4> QED BY <3>3, <4>1
    <3>5. EffectBase(file.base, cut, "full") = file.base
      BY <3>2 DEF EffectBase
    <3>6. EffectLog(file.log, cut, "full") = Passed(file.log, R.at)
      BY <3>2 DEF EffectLog, Passed
    <3> HIDE DEF new, name, old, file
    <3>7. Image(new).base = file.base /\ Image(new).log = Passed(file.log, R.at)
      BY <3>4, <3>5, <3>6, MetaFileParts
    <3>8. Reaches(Passed(file.log, R.at), s0, R)
      BY <1>4, <1>6, <1>8, ReachCut
    <3>9. ReplaysTo(Image(new), s0, R)
      BY <3>7, <3>8 DEF ReplaysTo, Passed
    <3> QED BY <3>1, <3>3, <3>7, <3>9
  <2> QED BY <2>1, <2>2
<1>13. PICK new \in MetaFiles : /\ meta' = [meta EXCEPT ![name] = new] /\ Image(new).base = file.base
                                /\ ReplaysTo(Image(new), s0, R)
  BY <1>12
<1>14. st'.active = name /\ st'.gen = Selected.gen /\ st' = DecodedBy(Second, st') /\ st' \in States
  BY <1>6, <1>10, <1>11 DEF SameStore
<1>15. meta' \in [MetaNames -> MetaFiles] /\ meta'[st'.active] = new
  BY <1>2, <1>13, <1>14
<1>16. Follows(Image(new), DecodedBy(Second, Image(new).base.state), log', st')
  <2>1. Image(new).base = file.base
    BY <1>13
  <2>2. DecodedBy(Second, Image(new).base.state) = s0
    BY <2>1 DEF s0
  <2> HIDE DEF suffix, cut, name, file
  <2>3. LogShape(log') /\ log'.end = R.at /\ log'.next = R.seq /\ log'.pend.id = 0
    BY <1>11 DEF LogShape, NoResize
  <2>4. Waiting(log', R, st')
    BY <1>11, <2>3 DEF Waiting
  <2> QED BY <1>13, <2>2, <2>3, <2>4 DEF Follows
<1>17. LiveBody(Selected', Second', meta'[st'.active], log', st')
  BY <1>1, <1>14, <1>15, <1>16 DEF LiveBody
<1>18. phase' = "idle" /\ fds' \in [FDs -> Descriptors]
  BY <1>11, ClosedType
<1> QED BY <1>1, <1>14, <1>15, <1>17, <1>18, IdleKeeps

LEMMA BootstrapKeeps ==
    ASSUME LogInv, phase = "idle", status = "down", ~(Selected.seq > 0), BootstrapWrites
    PROVE  LogInv'
<1> DEFINE first == [seq |-> 1, file |-> "a", gen |-> 1]
           reset == [op |-> "reset"]
<1>1. SlotsOK /\ Selected \in Slots /\ Selected.seq = 0
  <2>1. SlotsOK /\ Selected \in Slots
    BY SlotFacts DEF LogInv, Typed
  <2>2. Selected.seq \in Nat
    BY <2>1 DEF Slots
  <2> QED BY <2>1, <2>2
<1>2. slots[0].now.seq = 0 /\ slots[1].now.seq = 0 /\ \A i \in {0, 1} : slots[i].now \in Slots /\ slots[i].maybe \subseteq Slots
  BY <1>1, SlotFacts
<1>3. /\ slots' = [slots EXCEPT ![0] = Put(slots[0], first)] /\ phase' = "seeded" /\ status' = status
      /\ st' = st /\ fds' = fds
      /\ meta' = [a |-> [EmptyFile EXCEPT !.base = Base(InitialState)],
                  b |-> IF meta["b"] = EmptyFile THEN EmptyFile
                        ELSE [meta["b"] EXCEPT !.pending = Append(@, reset)]]
  BY DEF BootstrapWrites
<1>4. first \in Slots /\ first.seq = 1
  BY DEF Slots, MetaNames
<1>5. /\ SlotsOK' /\ slots'[0].now = first /\ slots'[1].now.seq = 0
  <2> DEFINE cell == Put(slots[0], first)
  <2>1. cell.now = first /\ cell.maybe = slots[0].maybe \cup {first} /\ cell = [now |-> cell.now, maybe |-> cell.maybe]
    BY DEF Put
  <2>2. cell \in [now : Slots, maybe : SUBSET Slots]
    BY <1>2, <1>4, <2>1
  <2>3. slots \in [{0, 1} -> [now : Slots, maybe : SUBSET Slots]]
    BY <1>1 DEF SlotsOK
  <2> HIDE DEF cell, first
  <2>4. /\ slots' \in [{0, 1} -> [now : Slots, maybe : SUBSET Slots]]
        /\ slots'[0] = cell /\ slots'[1] = slots[1]
    BY <1>3, <2>2, <2>3 DEF cell
  <2>5. \A v \in cell.maybe : v.seq = 0 \/ (v.seq - 1) % 2 = 0
    BY <1>1, <1>4, <2>1 DEF SlotsOK
  <2>6. \A i \in {0, 1} : slots'[i].now \in slots'[i].maybe
    BY <1>1, <2>1, <2>4 DEF SlotsOK
  <2>7. \A i \in {0, 1} : \A v \in slots'[i].maybe : v.seq = 0 \/ (v.seq - 1) % 2 = i
    BY <1>1, <2>4, <2>5 DEF SlotsOK
  <2> QED BY <1>2, <2>1, <2>4, <2>6, <2>7 DEF SlotsOK
<1>6. meta'["a"] = MetaFile(Base(InitialState), {}, <<>>) /\ meta' \in [MetaNames -> MetaFiles]
  <2>1. meta["b"] \in MetaFiles
    BY DEF LogInv, Typed, MetaNames
  <2>2. reset \in Effects
    BY DEF Effects
  <2>3. [meta["b"] EXCEPT !.pending = Append(meta["b"].pending, reset)] \in MetaFiles
    <3> DEFINE fb == meta["b"]
    <3> HIDE DEF fb, reset
    <3>1. fb \in MetaFiles
      BY <2>1 DEF fb
    <3>2. [fb EXCEPT !.pending = Append(fb.pending, reset)] \in MetaFiles
      BY <2>2, <3>1, ImageAppend
    <3> QED BY <3>2 DEF fb
  <2>4. meta'["b"] \in MetaFiles
    BY <1>3, <2>3, FirstBase
  <2>5. meta'["a"] = MetaFile(Base(InitialState), {}, <<>>) /\ meta'["a"] \in MetaFiles
    BY <1>3, FirstBase
  <2>6. meta' = [x \in {"a", "b"} |-> meta'[x]]
    BY <1>3
  <2> QED BY <2>4, <2>5, <2>6 DEF MetaNames
<1>7. Typed'
  BY <1>3, <1>5, <1>6 DEF Typed, LogInv
<1>8. PhaseOK' /\ Seeded' /\ LiveOK' /\ NextOK' /\ ActivOK'
  BY <1>3, <1>5, <1>6 DEF PhaseOK, Seeded, LiveOK, NextOK, ActivOK
<1> QED BY <1>7, <1>8 DEF LogInv

LEMMA OpenKeeps == ASSUME LogInv, Open PROVE LogInv'
<1>1. status = "down" /\ phase = "idle"
  BY DEF Open
<1>2. \/ Refuse
      \/ Selected.seq > 0 /\ BaseMatches /\ RecoverActivated
      \/ ~(Selected.seq > 0) /\ BootstrapWrites
  BY DEF Open
<1> QED BY <1>1, <1>2, RefuseKeeps, RecoverKeeps, BootstrapKeeps

\* The first activation is flushed: an empty store of the first generation.
LEMMA FlushSlots ==
    ASSUME SlotsOK, slots' = [i \in {0, 1} |-> Sure(slots[i].now)]
    PROVE  SlotsOK' /\ Selected' = Selected /\ Second' = Second
<1>1. \A i \in {0, 1} : slots[i].now \in Slots /\ slots[i].maybe \subseteq Slots
  BY SlotFacts
<1>2. \A i \in {0, 1} : /\ slots'[i] \in [now : Slots, maybe : SUBSET Slots]
                        /\ slots'[i].now = slots[i].now /\ slots'[i].maybe = {slots[i].now}
  BY <1>1, SureSlot
<1>3. SlotsOK'
  BY <1>2 DEF SlotsOK
<1> QED BY <1>2, <1>3 DEF Selected, Second

LEMMA FreshFollows ==
    ASSUME NEW s \in States
    PROVE  Follows(MetaFile(Base(s), {}, <<>>), s, FreshLog, s)
<1> DEFINE F == MetaFile(Base(s), {}, <<>>)
<1>1. F.log = {}
  BY MetaFileParts
<1> HIDE DEF F
<1>2. Reaches({}, s, Start(s))
  BY EmptyIsAFile, ReachStart
<1>3. ReplaysTo(F, s, Start(s))
  BY <1>1, <1>2 DEF ReplaysTo
<1>4. LogShape(FreshLog) /\ FreshLog.end = 0 /\ FreshLog.next = 1 /\ FreshLog.pend.id = 0
  BY DEF FreshLog, LogShape, NoResize
<1>5. Start(s).at = 0 /\ Start(s).seq = 1 /\ Start(s).s = s
  BY DEF Start
<1> QED BY <1>3, <1>4, <1>5 DEF Follows, Waiting, F

LEMMA BootstrapFlushesKeeps == ASSUME LogInv, BootstrapFlushes PROVE LogInv'
<1> DEFINE s == InitialState
           F == MetaFile(Base(s), {}, <<>>)
<1>1. /\ phase = "seeded" /\ phase' = "idle" /\ st' = s /\ log' = FreshLog /\ fds' = Closed /\ meta' = meta
      /\ slots' = [i \in {0, 1} |-> Sure(slots[i].now)] /\ SlotsOK
  BY DEF BootstrapFlushes, LogInv, Typed
<1>2. SlotsOK' /\ Selected' = Selected /\ Second' = Second
  BY <1>1, FlushSlots
<1>3. meta["a"] = F /\ slots[0].now = [seq |-> 1, file |-> "a", gen |-> 1] /\ slots[1].now.seq = 0
  BY <1>1 DEF LogInv, Seeded
<1>4. Selected.seq = 1 /\ Selected.file = "a" /\ Selected.gen = 1 /\ Second.seq = 0
  BY <1>3 DEF Selected, Second
<1>5. s \in States /\ s.active = "a" /\ s.gen = 1
  BY InitialIsAState DEF InitialState
<1>6. s = DecodedBy(Second, s)
  <2>1. [f \in {"a", "b"} |-> IF f = s.active THEN s.gen
                              ELSE IF Second.seq > 0 /\ Second.file = f THEN Second.gen ELSE 0] = s.retained
    BY <1>4 DEF InitialState
  <2>2. DecodedBy(Second, s) = [s EXCEPT !.retained = s.retained]
    BY <2>1 DEF DecodedBy
  <2> HIDE DEF s
  <2> QED BY <1>5, <2>2, StateShape DEF Shape
<1>7. Image(F) = F /\ F.base.state = s
  <2>1. F \in MetaFiles
    BY FirstBase
  <2>2. F.pending = <<>> /\ F.base = Base(s)
    BY MetaFileParts
  <2> HIDE DEF F
  <2> QED BY <2>1, <2>2, ImageOfFlushed DEF Base
<1>8. Follows(F, s, FreshLog, s)
  <2> HIDE DEF s
  <2> QED BY <1>5, FreshFollows
<1> HIDE DEF F, s
<1>9. LiveBody(Selected', Second', meta'[st'.active], log', st')
  BY <1>1, <1>2, <1>3, <1>4, <1>5, <1>6, <1>7, <1>8 DEF LiveBody
<1> QED BY <1>1, <1>2, <1>5, <1>9, ClosedType, IdleKeeps DEF LogInv, Typed

LEMMA CrashKeeps == ASSUME LogInv, Crash PROVE LogInv'
<1>1. /\ phase' = "idle" /\ status' = "down" /\ st' = InitialState /\ fds' = Closed
  BY DEF Crash, Gone
<1>2. meta["a"] \in MetaFiles /\ meta["b"] \in MetaFiles /\ SlotsOK
  BY DEF LogInv, Typed, MetaNames
<1>3. meta' \in [MetaNames -> MetaFiles]
  <2>1. PICK one, two : meta' = [a |-> Left(meta["a"], one), b |-> Left(meta["b"], two)]
    BY DEF Crash
  <2>2. Left(meta["a"], one) \in MetaFiles /\ Left(meta["b"], two) \in MetaFiles
    BY <1>2, LeftKeeps
  <2>3. meta' = [x \in {"a", "b"} |-> meta'[x]] /\ meta'["a"] \in MetaFiles /\ meta'["b"] \in MetaFiles
    BY <2>1, <2>2
  <2> QED BY <2>3 DEF MetaNames
<1>4. SlotsOK'
  <2>1. PICK left \in slots[0].maybe, right \in slots[1].maybe :
           slots' = [i \in {0, 1} |-> Sure(IF i = 0 THEN left ELSE right)]
    BY DEF Crash
  <2>2. left \in Slots /\ right \in Slots
    BY <1>2, SlotFacts
  <2>3. slots'[0] = Sure(left) /\ slots'[1] = Sure(right) /\ slots' = [i \in {0, 1} |-> slots'[i]]
    BY <2>1
  <2>4. /\ Sure(left) \in [now : Slots, maybe : SUBSET Slots] /\ Sure(left).now = left /\ Sure(left).maybe = {left}
        /\ Sure(right) \in [now : Slots, maybe : SUBSET Slots] /\ Sure(right).now = right /\ Sure(right).maybe = {right}
    BY <2>2, SureSlot
  <2>5. (left.seq = 0 \/ (left.seq - 1) % 2 = 0) /\ (right.seq = 0 \/ (right.seq - 1) % 2 = 1)
    BY <1>2 DEF SlotsOK
  <2> QED BY <2>3, <2>4, <2>5 DEF SlotsOK
<1> QED BY <1>1, <1>3, <1>4, InitialIsAState, ClosedType, IdleKeeps

-----------------------------------------------------------------------------
(***************************************************************************)
(* The file-system calls.                                                  *)
(***************************************************************************)
IdleOpen == status = "open" /\ phase = "idle"
Recorded == \E r \in Records : Admits(st, r) /\ Commit(r)

LEMMA OpenIsLive ==
    ASSUME LogInv, IdleOpen
    PROVE  Typed /\ LiveBody(Selected, Second, meta[st.active], log, st)
BY DEF LogInv, LiveOK, IdleOpen

LEMMA CallKeeps ==
    ASSUME LogInv, IdleOpen, status' = status, phase' = phase, slots' = slots, fds' \in [FDs -> Descriptors],
           Recorded \/ (meta' = meta /\ st' = st /\ log' = log)
    PROVE  LogInv'
<1>1. Typed /\ LiveBody(Selected, Second, meta[st.active], log, st) /\ phase' = "idle"
  BY OpenIsLive DEF IdleOpen
<1>2. CASE Recorded
  <2>1. PICK r \in Records : Admits(st, r) /\ Commit(r)
    BY <1>2 DEF Recorded
  <2>2. /\ meta' \in [MetaNames -> MetaFiles] /\ SlotsOK' /\ st' \in States
        /\ LiveBody(Selected', Second', meta'[st'.active], log', st')
    BY <1>1, <2>1, CommitStep
  <2> QED BY <1>1, <2>2, IdleKeeps
<1>3. CASE meta' = meta /\ st' = st /\ log' = log
  <2>1. SlotsOK' /\ Selected' = Selected /\ Second' = Second
    BY <1>1, SlotsStay DEF Typed
  <2>2. LiveBody(Selected', Second', meta'[st'.active], log', st')
    BY <1>1, <1>3, <2>1
  <2> QED BY <1>1, <1>3, <2>1, <2>2, IdleKeeps DEF Typed
<1> QED BY <1>2, <1>3

LEMMA InodesAre ==
    ASSUME NEW s \in States
    PROVE  /\ \A d \in Dirs(s) : d \in DOMAIN s.nodes
           /\ \A i \in Files(s) : i \in DOMAIN s.nodes /\ i \in Nat
           /\ \A d, name : \A i \in Entry(s, d, name) : i \in DOMAIN s.nodes
<1>1. DOMAIN s.nodes \subseteq Nat
  BY StateFacts
<1> QED BY <1>1 DEF Dirs, Files, Entry, Children

\* Removed files leave descriptors of the same type behind.
LEMMA OrphanedType ==
    ASSUME st \in States, fds \in [FDs -> Descriptors], NEW I, I \subseteq DOMAIN st.nodes, Orphaned(I)
    PROVE  fds' \in [FDs -> Descriptors]
<1>0. fds' = [e \in FDs |-> fds'[e]]
  BY DEF Orphaned
<1> SUFFICES ASSUME NEW d \in FDs PROVE fds'[d] \in Descriptors
  BY <1>0
<1>1. fds[d] \in Descriptors
  OBVIOUS
<1>2. CASE fds[d].on \in I
  <2> DEFINE i == fds[d].on
             n == st.nodes[i]
  <2>1. i \in DOMAIN st.nodes
    BY <1>2
  <2>2. n \in Node
    BY <2>1, StateFacts
  <2>3. fds'[d] = [on |-> Orphan, extents |-> n.extents, size |-> n.size, owner |-> n.owner]
    BY <1>2 DEF Orphaned
  <2>4. n.extents \in Seq(Nat) /\ n.size \in Nat /\ n.owner \in Labels
    BY <2>2 DEF Node
  <2> HIDE DEF n
  <2>5. fds'[d] \in Descriptors
    BY <2>3, <2>4 DEF Orphan, Descriptors
  <2> QED BY <2>5 DEF Orphaned
<1>3. CASE fds[d].on \notin I
  BY <1>1, <1>3 DEF Orphaned
<1> QED BY <1>2, <1>3

LEMMA MakeKeeps ==
    ASSUME LogInv, NEW what \in {"dir", "file", "link"}, NEW d \in DOMAIN st.nodes, NEW name \in Names,
           NEW size \in Nat, MakeEntry(Create(st, what, d, name, size)), fds' = fds
    PROVE  LogInv'
<1> DEFINE r == Create(st, what, d, name, size)
<1>1. r \in Records
  BY CreateType DEF LogInv, Typed
<1> HIDE DEF r
<1>2. MakeEntry(r)
  BY DEF r
<1>3. Recorded /\ IdleOpen /\ status' = status /\ phase' = phase /\ slots' = slots
  BY <1>1, <1>2 DEF MakeEntry, Recorded, IdleOpen, Call, Quietly
<1>4. fds' \in [FDs -> Descriptors]
  BY DEF LogInv, Typed
<1> QED BY <1>3, <1>4, CallKeeps

LEMMA RootIsThere ==
    ASSUME NEW name, MakeEntry(CreateSymlink(st, Root, name))
    PROVE  Root \in DOMAIN st.nodes
<1> DEFINE r == CreateSymlink(st, Root, name)
<1>1. Admits(st, r) /\ r.kind = "create" /\ r.parent = Root
  BY DEF MakeEntry, CreateSymlink, Create
<1> HIDE DEF r
<1>2. r.parent \in Dirs(st)
  BY <1>1 DEF Admits, AdmitsCreate
<1> QED BY <1>1, <1>2 DEF Dirs

LEMMA EntriesKeep ==
    ASSUME LogInv, NEW d \in Dirs(st), NEW name \in Names
    PROVE  /\ Mkdir(d, name) => LogInv'
           /\ \A size \in Sizes : WriteNewFile(d, name, size) => LogInv'
           /\ Symlink(Root, name) => LogInv'
<1>1. d \in DOMAIN st.nodes /\ Sizes \subseteq Nat
  BY InodesAre, SizeAssumption DEF LogInv, Typed, Sizes
<1>2. ASSUME Mkdir(d, name) PROVE LogInv'
  <2>1. MakeEntry(Create(st, "dir", d, name, 0)) /\ fds' = fds
    BY <1>2 DEF Mkdir, CreateDirectory
  <2> QED BY <1>1, <2>1, MakeKeeps
<1>3. ASSUME NEW size \in Sizes, WriteNewFile(d, name, size) PROVE LogInv'
  <2>1. MakeEntry(Create(st, "file", d, name, size)) /\ fds' = fds
    BY <1>3 DEF WriteNewFile
  <2> QED BY <1>1, <2>1, MakeKeeps
<1>4. ASSUME Symlink(Root, name) PROVE LogInv'
  <2>1. MakeEntry(Create(st, "link", Root, name, 0)) /\ fds' = fds
    BY <1>4 DEF Symlink, CreateSymlink
  <2>2. Root \in DOMAIN st.nodes
    BY <1>4, RootIsThere DEF Symlink
  <2> QED BY <2>1, <2>2, MakeKeeps
<1> QED BY <1>2, <1>3, <1>4

LEMMA RemovalsKeep ==
    ASSUME LogInv, NEW d \in Dirs(st), NEW name \in Names
    PROVE  /\ Unlink(d, name) => LogInv'
           /\ Rmdir(d, name) => LogInv'
<1>1. st \in States /\ d \in DOMAIN st.nodes /\ Entry(st, d, name) \subseteq DOMAIN st.nodes
      /\ fds \in [FDs -> Descriptors]
  BY InodesAre DEF LogInv, Typed
<1>2. \A what \in {"dir", "file"} : Removal(what, d, name) \in Records
  BY <1>1, OtherTypes
<1>3. ASSUME Unlink(d, name) PROVE LogInv'
  <2> DEFINE r == Removal("file", d, name)
  <2>1. r \in Records
    BY <1>2
  <2> HIDE DEF r
  <2>2. /\ Admits(st, r) /\ Commit(r) /\ IdleOpen /\ status' = status /\ phase' = phase /\ slots' = slots
        /\ Orphaned(Entry(st, d, name))
    BY <1>3 DEF Unlink, Call, Quietly, IdleOpen, r
  <2>3. fds' \in [FDs -> Descriptors]
    BY <1>1, <2>2, OrphanedType
  <2> QED BY <2>1, <2>2, <2>3, CallKeeps DEF Recorded
<1>4. ASSUME Rmdir(d, name) PROVE LogInv'
  <2> DEFINE r == Removal("dir", d, name)
  <2>1. r \in Records
    BY <1>2
  <2> HIDE DEF r
  <2>2. /\ Admits(st, r) /\ Commit(r) /\ IdleOpen /\ status' = status /\ phase' = phase /\ slots' = slots
        /\ fds' = fds
    BY <1>4 DEF Rmdir, Call, Quietly, IdleOpen, r
  <2> QED BY <1>1, <2>1, <2>2, CallKeeps DEF Recorded
<1> QED BY <1>3, <1>4

LEMMA MovesKeep ==
    ASSUME LogInv, NEW d \in Dirs(st), NEW name \in Names, NEW newDir \in Dirs(st), NEW newName \in Names,
           Move(d, name, newDir, newName)
    PROVE  LogInv'
<1> DEFINE r == Rename(d, name, newDir, newName)
<1>1. st \in States /\ d \in DOMAIN st.nodes /\ newDir \in DOMAIN st.nodes
      /\ Entry(st, newDir, newName) \subseteq DOMAIN st.nodes /\ fds \in [FDs -> Descriptors]
  BY InodesAre DEF LogInv, Typed
<1>2. r \in Records
  BY <1>1, OtherTypes
<1> HIDE DEF r
<1>3. /\ Admits(st, r) /\ Commit(r) /\ IdleOpen /\ status' = status /\ phase' = phase /\ slots' = slots
      /\ Orphaned(Entry(st, newDir, newName))
  BY DEF Move, Call, Quietly, IdleOpen, r
<1>4. fds' \in [FDs -> Descriptors]
  BY <1>1, <1>3, OrphanedType
<1> QED BY <1>2, <1>3, <1>4, CallKeeps DEF Recorded

LEMMA FilesKeep ==
    ASSUME LogInv, NEW i \in Files(st)
    PROVE  /\ \A k \in 0 .. (MaxSize - 1) : WriteFile(i, k) => LogInv'
           /\ \A size \in Sizes : Truncate(i, size) => LogInv'
           /\ SetAttributes(i) => LogInv'
<1>1. st \in States /\ i \in DOMAIN st.nodes /\ i \in Nat /\ fds \in [FDs -> Descriptors]
      /\ Sizes \subseteq Nat
  BY InodesAre, SizeAssumption DEF LogInv, Typed, Sizes
<1>2. ASSUME NEW k \in 0 .. (MaxSize - 1), WriteFile(i, k) PROVE LogInv'
  <2>0. k \in Nat /\ k + 1 \in Nat
    BY SizeAssumption
  <2> DEFINE r == Resize(st, i, k + 1, "write")
  <2>1. r \in Records
    BY <1>1, <2>0, ResizeType
  <2> HIDE DEF r
  <2>2. /\ IdleOpen /\ status' = status /\ phase' = phase /\ slots' = slots /\ fds' = fds
        /\ (Admits(st, r) /\ Commit(r)) \/ (meta' = meta /\ st' = st /\ log' = log)
    BY <1>2 DEF WriteFile, Call, Quietly, IdleOpen, r
  <2> QED BY <1>1, <2>1, <2>2, CallKeeps DEF Recorded
<1>3. ASSUME NEW size \in Sizes, Truncate(i, size) PROVE LogInv'
  <2> DEFINE r == Resize(st, i, size, "truncate")
  <2>1. r \in Records
    BY <1>1, ResizeType
  <2> HIDE DEF r
  <2>2. /\ IdleOpen /\ status' = status /\ phase' = phase /\ slots' = slots /\ fds' = fds
        /\ Admits(st, r) /\ Commit(r)
    BY <1>3 DEF Truncate, Call, Quietly, IdleOpen, r
  <2> QED BY <1>1, <2>1, <2>2, CallKeeps DEF Recorded
<1>4. ASSUME SetAttributes(i) PROVE LogInv'
  <2> DEFINE r == Attributes(i)
  <2>1. r \in Records
    BY <1>1, MoreTypes
  <2>2. Admits(st, r)
    BY <1>1 DEF Admits, Attributes
  <2> HIDE DEF r
  <2>3. /\ IdleOpen /\ status' = status /\ phase' = phase /\ slots' = slots /\ fds' = fds /\ Commit(r)
    BY <1>4 DEF SetAttributes, Call, Quietly, IdleOpen, r
  <2> QED BY <1>1, <2>1, <2>2, <2>3, CallKeeps DEF Recorded
<1> QED BY <1>2, <1>3, <1>4

LEMMA DescriptorsKeep ==
    ASSUME LogInv, NEW d \in FDs
    PROVE  /\ \A i \in Files(st) : OpenFile(d, i) => LogInv'
           /\ CloseFile(d) => LogInv'
           /\ \A k \in 0 .. (MaxSize - 1) : WriteOrphan(d, k) => LogInv'
<1>1. st \in States /\ fds \in [FDs -> Descriptors] /\ fds[d] \in Descriptors
  BY DEF LogInv, Typed
<1>2. ASSUME NEW i \in Files(st), OpenFile(d, i) PROVE LogInv'
  <2>1. i \in Nat
    BY <1>1, InodesAre
  <2>2. [fds[d] EXCEPT !.on = i] \in Descriptors
    <3> DEFINE o == fds[d]
    <3>1. o \in Descriptors /\ i \in Int
      BY <1>1, <2>1
    <3> HIDE DEF o
    <3>2. [o EXCEPT !.on = i] \in Descriptors
      BY ONLY <3>1 DEF Descriptors
    <3> QED BY <3>2 DEF o
  <2>3. fds' = [fds EXCEPT ![d] = [fds[d] EXCEPT !.on = i]]
    BY <1>1, <1>2 DEF OpenFile
  <2>4. fds' \in [FDs -> Descriptors]
    BY <1>1, <2>2, <2>3
  <2>5. /\ IdleOpen /\ status' = status /\ phase' = phase /\ slots' = slots
        /\ meta' = meta /\ st' = st /\ log' = log
    BY <1>2 DEF OpenFile, IdleOpen
  <2> QED BY <2>4, <2>5, CallKeeps
<1>3. ASSUME CloseFile(d) PROVE LogInv'
  <2>1. NotOpen \in Descriptors
    BY ClosedType DEF Closed
  <2>2. fds' \in [FDs -> Descriptors]
    BY <1>1, <1>3, <2>1 DEF CloseFile
  <2>3. /\ IdleOpen /\ status' = status /\ phase' = phase /\ slots' = slots
        /\ meta' = meta /\ st' = st /\ log' = log
    BY <1>3 DEF CloseFile, IdleOpen
  <2> QED BY <2>2, <2>3, CallKeeps
<1>4. ASSUME NEW k \in 0 .. (MaxSize - 1), WriteOrphan(d, k) PROVE LogInv'
  <2> DEFINE o == fds[d]
             more == CountFor(k + 1) - Len(o.extents)
             r == Reserve(st, more)
             xs == o.extents \o IF more > 0 THEN r.extents ELSE <<>>
  <2>0. k \in Nat /\ k + 1 \in Nat
    BY SizeAssumption
  <2>1. o.extents \in Seq(Nat) /\ o.size \in Nat
    BY <1>1 DEF Descriptors
  <2>2. more > 0 => more \in Nat
    <3>1. CountFor(k + 1) \in Nat
      BY <2>0, Counts
    <3>2. Len(o.extents) \in Nat
      BY <2>1
    <3> QED BY <3>1, <3>2
  <2>3. more > 0 => r \in Records /\ r.extents \in Seq(Nat)
    <3> HIDE DEF more
    <3>1. more > 0 => ChooseExtents(st, more) \in Seq(Nat)
      BY <1>1, <2>2, ChosenType
    <3>2. more > 0 => r \in Records
      BY <1>1, <2>2, MoreTypes
    <3> QED BY <3>1, <3>2 DEF Reserve
  <2>4. xs \in Seq(Nat)
    <3> DEFINE tail == IF more > 0 THEN r.extents ELSE <<>>
               head == o.extents
    <3>1. tail \in Seq(Nat) /\ head \in Seq(Nat)
      <4> HIDE DEF more, r
      <4> QED BY <2>1, <2>3
    <3> HIDE DEF tail, head
    <3>2. head \o tail \in Seq(Nat)
      BY <3>1
    <3> QED BY <3>2 DEF tail, head
  <2>5. /\ IdleOpen /\ status' = status /\ phase' = phase /\ slots' = slots
        /\ (more > 0 /\ Admits(st, r) /\ Commit(r)) \/ (meta' = meta /\ st' = st /\ log' = log)
    BY <1>4 DEF WriteOrphan, Call, Quietly, IdleOpen
  <2>6. fds' = [fds EXCEPT ![d].extents = xs, ![d].size = Greater(@, k + 1)]
    BY <1>4 DEF WriteOrphan
  <2> HIDE DEF xs, more, r
  <2>7. fds' \in [FDs -> Descriptors]
    <3>1. Greater(o.size, k + 1) \in Nat
      BY <2>0, <2>1 DEF Greater
    <3>2. fds' = [fds EXCEPT ![d] = [[o EXCEPT !.extents = xs] EXCEPT !.size = Greater(o.size, k + 1)]]
      BY <1>1, <2>6 DEF Descriptors
    <3>3. [o EXCEPT !.extents = xs] \in Descriptors
      BY <1>1, <2>4 DEF Descriptors
    <3>4. [[o EXCEPT !.extents = xs] EXCEPT !.size = Greater(o.size, k + 1)] \in Descriptors
      BY <3>1, <3>3 DEF Descriptors
    <3> QED BY <1>1, <3>2, <3>4
  <2> QED BY <2>3, <2>5, <2>7, CallKeeps DEF Recorded
<1> QED BY <1>2, <1>3, <1>4

LEMMA CallsKeep == ASSUME LogInv, Calls PROVE LogInv'
<1>1. ASSUME NEW d \in Dirs(st), NEW name \in Names,
             \/ Mkdir(d, name) \/ \E size \in Sizes : WriteNewFile(d, name, size)
             \/ Unlink(d, name) \/ Rmdir(d, name)
             \/ \E newDir \in Dirs(st), newName \in Names : Move(d, name, newDir, newName)
      PROVE  LogInv'
  BY <1>1, EntriesKeep, RemovalsKeep, MovesKeep
<1>2. ASSUME NEW name \in Names, Symlink(Root, name) PROVE LogInv'
  <2>1. Root \in DOMAIN st.nodes /\ MakeEntry(Create(st, "link", Root, name, 0)) /\ fds' = fds
    BY <1>2, RootIsThere DEF Symlink, CreateSymlink
  <2> QED BY <2>1, MakeKeeps
<1>3. ASSUME NEW i \in Files(st),
             \/ \E k \in 0 .. (MaxSize - 1) : WriteFile(i, k)
             \/ \E size \in Sizes : Truncate(i, size)
             \/ SetAttributes(i)
      PROVE  LogInv'
  BY <1>3, FilesKeep
<1>4. ASSUME NEW d \in FDs,
             \/ \E i \in Files(st) : OpenFile(d, i)
             \/ CloseFile(d)
             \/ \E k \in 0 .. (MaxSize - 1) : WriteOrphan(d, k)
      PROVE  LogInv'
  BY <1>4, DescriptorsKeep
<1> QED BY <1>1, <1>2, <1>3, <1>4 DEF Calls

-----------------------------------------------------------------------------
(***************************************************************************)
(* Syncs, repacks, failures.                                               *)
(***************************************************************************)
LEMMA SyncMeta ==
    ASSUME Typed, LiveBody(Selected, Second, meta[st.active], log, st), Sync
    PROVE  LET due == [meta[st.active] EXCEPT !.pending = meta[st.active].pending \o Appended(Due)]
           IN  meta' \in [MetaNames -> MetaFiles] /\ meta'[st.active] \in {due, Image(due)}
<1> DEFINE due == [meta[st.active] EXCEPT !.pending = meta[st.active].pending \o Appended(Due)]
<1>1. st.active \in MetaNames /\ meta \in [MetaNames -> MetaFiles]
  BY LiveFacts DEF Typed
<1>2. due \in MetaFiles /\ Image(due) \in MetaFiles
  BY DueType
<1>3. meta' = [meta EXCEPT ![st.active] = IF log.dirty \/ Due # <<>> THEN Image(due) ELSE due]
  BY DEF Sync
<1> HIDE DEF due
<1>4. meta' \in [MetaNames -> MetaFiles] /\ meta'[st.active] \in {due, Image(due)}
  BY <1>1, <1>2, <1>3
<1> QED BY <1>4 DEF due

LEMMA StrictSyncKeeps == ASSUME LogInv, StrictSync PROVE LogInv'
<1> DEFINE due == [meta[st.active] EXCEPT !.pending = meta[st.active].pending \o Appended(Due)]
           new == meta'[st.active]
<1>1. /\ Sync /\ IdleOpen /\ slots' = slots /\ phase' = phase /\ st' = st /\ fds' = fds
      /\ log' = [log EXCEPT !.end = EndAfter(Due), !.pend = NoResize, !.dirty = FALSE]
  BY DEF StrictSync, Sync, IdleOpen
<1>2. Typed /\ LiveBody(Selected, Second, meta[st.active], log, st)
  BY <1>1, OpenIsLive
<1>3. meta' \in [MetaNames -> MetaFiles] /\ new \in {due, Image(due)}
  BY <1>1, <1>2, SyncMeta
<1>4. SlotsOK' /\ LiveBody(Selected', Second', meta'[st'.active], log', st')
  BY <1>1, <1>2, <1>3, DueStep
<1>5. phase' = "idle" /\ st' \in States /\ fds' \in [FDs -> Descriptors]
  BY <1>1, <1>2 DEF IdleOpen, Typed
<1> HIDE DEF due, new
<1> QED BY <1>3, <1>4, <1>5, IdleKeeps

LEMMA CloseStoreKeeps == ASSUME LogInv, CloseStore PROVE LogInv'
<1>1. /\ Sync /\ IdleOpen /\ slots' = slots /\ phase' = "idle" /\ st' = InitialState /\ fds' = Closed
      /\ status' = "down"
  BY DEF CloseStore, Sync, Gone, IdleOpen
<1>2. Typed /\ LiveBody(Selected, Second, meta[st.active], log, st)
  BY <1>1, OpenIsLive
<1>3. meta' \in [MetaNames -> MetaFiles]
  BY <1>1, <1>2, SyncMeta
<1>4. SlotsOK'
  BY <1>1, <1>2, SlotsStay DEF Typed
<1> QED BY <1>1, <1>3, <1>4, InitialIsAState, ClosedType, IdleKeeps

LEMMA RunScheduledKeeps == ASSUME LogInv, RunScheduled PROVE LogInv'
<1> DEFINE due == [meta[st.active] EXCEPT !.pending = meta[st.active].pending \o Appended(Due)]
           dirty == log.dirty \/ Due # <<>>
<1>1. /\ IdleOpen /\ slots' = slots /\ phase' = phase /\ st' = st /\ fds' = fds /\ Append2Log(Due)
      /\ log' = [log EXCEPT !.end = EndAfter(Due), !.pend = NoResize, !.dirty = dirty]
  BY DEF RunScheduled, IdleOpen
<1>2. Typed /\ LiveBody(Selected, Second, meta[st.active], log, st)
  BY <1>1, OpenIsLive
<1>3. st.active \in MetaNames /\ meta \in [MetaNames -> MetaFiles] /\ due \in MetaFiles
  BY <1>2, LiveFacts, DueType DEF Typed
<1>4. meta' = [meta EXCEPT ![st.active] = due]
  BY <1>1, <1>3 DEF Append2Log
<1> HIDE DEF dirty
<1>5. meta' \in [MetaNames -> MetaFiles] /\ meta'[st.active] = due
  <2> HIDE DEF due
  <2> QED BY <1>3, <1>4
<1>6. SlotsOK' /\ LiveBody(Selected', Second', meta'[st'.active], log', st')
  BY <1>1, <1>2, <1>5, DueStep
<1>7. phase' = "idle" /\ st' \in States /\ fds' \in [FDs -> Descriptors]
  BY <1>1, <1>2 DEF IdleOpen, Typed
<1> HIDE DEF due
<1> QED BY <1>5, <1>6, <1>7, IdleKeeps

\* The other file gets a new base: a reset, then the base.
LEMMA NextBase ==
    ASSUME NEW file \in MetaFiles, NEW s \in States,
           NEW new, new = [file EXCEPT !.pending = file.pending \o <<[op |-> "reset"], [op |-> "base", state |-> s]>>]
    PROVE  new \in MetaFiles /\ Image(new) = MetaFile(Base(s), {}, <<>>)
<1> DEFINE reset == [op |-> "reset"]
           base == [op |-> "base", state |-> s]
           q == file.pending
           mid == [file EXCEPT !.pending = Append(q, reset)]
<1>1. reset \in Effects /\ base \in Effects
  BY DEF Effects
<1>2. reset.op = "reset" /\ base.op = "base" /\ base.state = s
  OBVIOUS
<1>3. new = [file EXCEPT !.pending = q \o <<reset, base>>]
  OBVIOUS
<1> HIDE DEF reset, base
<1>4. q \in Seq(Effects)
  BY FileFacts
<1> HIDE DEF q
<1>5. q \o <<reset, base>> = Append(Append(q, reset), base)
  <2> DEFINE one == <<reset>>
  <2>1. one \in Seq(Effects)
    BY <1>1
  <2>2. <<reset, base>> = Append(one, base)
    BY <1>1
  <2>3. q \o Append(one, base) = Append(q \o one, base) /\ q \o <<reset>> = Append(q, reset)
    <3> HIDE DEF one
    <3>1. q \o Append(one, base) = Append(q \o one, base)
      BY <1>1, <1>4, <2>1, ConcatAppend
    <3>2. q \o <<reset>> = Append(q, reset)
      BY <1>1, <1>4, AppendIsConcat
    <3> QED BY <3>1, <3>2
  <2> QED BY <2>2, <2>3
<1>6. mid \in MetaFiles /\ Image(mid) = Effect(Image(file), reset, "full")
  BY <1>1, ImageAppend DEF q
<1>7. mid = MetaFile(file.base, file.log, Append(q, reset))
  BY WithPending
<1> HIDE DEF mid
<1>8. mid.pending = Append(q, reset) /\ mid.base = file.base /\ mid.log = file.log
  BY <1>7 DEF MetaFile
<1>9. new = [mid EXCEPT !.pending = Append(mid.pending, base)]
  <2>1. new = MetaFile(file.base, file.log, Append(Append(q, reset), base))
    BY <1>3, <1>5, WithPending
  <2>2. [mid EXCEPT !.pending = Append(mid.pending, base)] = MetaFile(mid.base, mid.log, Append(mid.pending, base))
    BY <1>6, WithPending
  <2> QED BY <1>8, <2>1, <2>2
<1>10. new \in MetaFiles /\ Image(new) = Effect(Image(mid), base, "full")
  BY <1>1, <1>6, <1>9, ImageAppend
<1>11. Image(file) \in MetaFiles /\ Image(file).pending = <<>>
  BY ImageKeeps
<1>12. Image(mid) = MetaFile(NoBase, {}, <<>>)
  <2> DEFINE I == Image(file)
  <2> HIDE DEF I
  <2>1. I \in MetaFiles /\ I.pending = <<>>
    BY <1>11 DEF I
  <2>2. Effect(I, reset, "full") = MetaFile(EffectBase(I.base, reset, "full"), EffectLog(I.log, reset, "full"), I.pending)
    BY <1>1, <2>1, EffectKeeps
  <2>3. EffectBase(I.base, reset, "full") = NoBase /\ EffectLog(I.log, reset, "full") = {}
    BY <1>2 DEF EffectBase, EffectLog
  <2> QED BY <1>6, <2>1, <2>2, <2>3 DEF I
<1>13. Image(new) = MetaFile(Base(s), {}, <<>>)
  <2> DEFINE I == Image(mid)
  <2> HIDE DEF I
  <2>1. I \in MetaFiles /\ I.pending = <<>> /\ I.log = {}
    BY <1>6, <1>12, ImageKeeps, MetaFileParts DEF I
  <2>2. Effect(I, base, "full") = MetaFile(EffectBase(I.base, base, "full"), EffectLog(I.log, base, "full"), I.pending)
    BY <1>1, <2>1, EffectKeeps
  <2>3. EffectBase(I.base, base, "full") = Base(s) /\ EffectLog(I.log, base, "full") = {}
    BY <1>2, <2>1 DEF EffectBase, EffectLog
  <2> QED BY <1>10, <2>1, <2>2, <2>3 DEF I
<1> QED BY <1>10, <1>13

LEMMA ProjectedIs ==
    ASSUME Typed
    PROVE  /\ Projected \in States /\ Projected.active = Other(st.active) /\ Projected.gen = st.gen + 1
           /\ Projected.retained = [st.retained EXCEPT ![Other(st.active)] = st.gen + 1]
           /\ st.active \in MetaNames /\ Other(st.active) \in MetaNames /\ Other(st.active) # st.active
           /\ st.gen \in Nat /\ st.retained \in [MetaNames -> Nat]
<1>1. st \in States
  BY DEF Typed
<1>2. st.active \in MetaNames /\ st.gen \in Nat /\ st.retained \in [MetaNames -> Nat]
  BY <1>1, StateFacts
<1>3. Other(st.active) \in MetaNames /\ Other(st.active) # st.active
  BY <1>2 DEF Other, MetaNames
<1>4. \A pinned : LET p == ProjectRepack(st, pinned)
                  IN  /\ p \in States /\ p.active = Other(st.active) /\ p.gen = st.gen + 1
                      /\ p.retained = [st.retained EXCEPT ![Other(st.active)] = st.gen + 1]
  BY <1>1, ProjectKeeps
<1> QED BY <1>2, <1>3, <1>4 DEF Projected

LEMMA ProjectedStays == st' = st /\ fds' = fds => Projected' = Projected
BY DEF Projected, Pinned

LEMMA RepackWritesKeeps == ASSUME LogInv, RepackWrites PROVE LogInv'
<1> DEFINE a == st.active
           b == Other(st.active)
           due == [meta[a] EXCEPT !.pending = meta[a].pending \o Appended(Due)]
           dirty == log.dirty \/ Due # <<>>
           effects == <<[op |-> "reset"], [op |-> "base", state |-> Projected]>>
           next == [meta[b] EXCEPT !.pending = meta[b].pending \o effects]
<1>1. /\ IdleOpen /\ slots' = slots /\ phase' = "written" /\ status' = status /\ st' = st /\ fds' = fds
      /\ log' = [log EXCEPT !.end = EndAfter(Due), !.pend = NoResize, !.dirty = dirty]
      /\ meta' = [meta EXCEPT ![st.active].pending = @ \o Appended(Due), ![Projected.active].pending = @ \o effects]
  BY DEF RepackWrites, IdleOpen
<1>2. Typed /\ LiveBody(Selected, Second, meta[st.active], log, st)
  BY <1>1, OpenIsLive
<1>3. /\ Projected \in States /\ Projected.active = b /\ a \in MetaNames /\ b \in MetaNames /\ a # b
      /\ meta \in [MetaNames -> MetaFiles]
  BY <1>2, ProjectedIs DEF Typed
<1>4. due \in MetaFiles
  BY <1>2, DueType
<1>5. next \in MetaFiles /\ Image(next) = MetaFile(Base(Projected), {}, <<>>)
  <2> DEFINE file == meta[b]
             s == Projected
  <2>1. file \in MetaFiles /\ s \in States
    BY <1>3
  <2> HIDE DEF file, s
  <2>2. next = [file EXCEPT !.pending = file.pending \o <<[op |-> "reset"], [op |-> "base", state |-> s]>>]
    BY DEF file, s
  <2> HIDE DEF next
  <2>3. next \in MetaFiles /\ Image(next) = MetaFile(Base(s), {}, <<>>)
    BY <2>1, <2>2, NextBase
  <2> QED BY <2>3 DEF s
<1>6. meta' = [[meta EXCEPT ![a] = due] EXCEPT ![b] = next]
  <2> HIDE DEF effects
  <2> QED BY <1>1, <1>3
<1> HIDE DEF dirty, next, effects, b
<1>7. meta' \in [MetaNames -> MetaFiles] /\ meta'[st.active] = due /\ meta'[b] = next
  <2> HIDE DEF due
  <2> QED BY <1>3, <1>4, <1>5, <1>6
<1>8. SlotsOK' /\ LiveBody(Selected', Second', meta'[st'.active], log', st')
  BY <1>1, <1>2, <1>7, DueStep
<1>9. Typed' /\ LiveOK'
  BY <1>1, <1>2, <1>7, <1>8 DEF Typed, LiveOK
<1>10. NextOK'
  <2>1. Projected' = Projected /\ Other(st'.active) = b
    BY <1>1, ProjectedStays DEF b
  <2>2. Image(meta'[Other(st'.active)]) = MetaFile(Base(Projected'), {}, <<>>)
    BY <1>5, <1>7, <2>1
  <2> QED BY <2>2 DEF NextOK
<1>11. PhaseOK' /\ Seeded' /\ ActivOK'
  BY <1>1 DEF PhaseOK, Seeded, ActivOK, IdleOpen
<1> QED BY <1>9, <1>10, <1>11 DEF LogInv

\* The slot of the next generation is not the one that is selected.
LEMMA SlotTurns ==
    ASSUME SlotsOK, Selected.seq > 0, NEW next \in Slots, next.seq = Selected.seq + 1,
           slots' = [slots EXCEPT ![(next.seq - 1) % 2] = [now |-> next, maybe |-> @.maybe \cup {NoSlot, next}]]
    PROVE  SlotsOK' /\ Selected' = next /\ Second' = Selected
<1> DEFINE i == (next.seq - 1) % 2
           j == 1 - i
           cell == [now |-> next, maybe |-> slots[i].maybe \cup {NoSlot, next}]
<1>1. /\ \A k \in {0, 1} : slots[k].now \in Slots /\ slots[k].maybe \subseteq Slots
      /\ slots \in [{0, 1} -> [now : Slots, maybe : SUBSET Slots]] /\ Selected \in Slots
  BY SlotFacts DEF SlotsOK
<1>2. \A k \in {0, 1} : slots[k].now.seq \in Nat /\ (slots[k].now.seq = 0 \/ (slots[k].now.seq - 1) % 2 = k)
  BY <1>1 DEF SlotsOK, Slots
<1>3. Selected.seq \in Nat /\ next.seq \in Nat
  BY <1>1 DEF Slots
<1>4. i \in {0, 1} /\ j \in {0, 1} /\ i # j /\ \A k \in {0, 1} : k = i \/ k = j
  BY <1>3
<1>5. Selected = slots[j].now
  <2>1. CASE Selected = slots[0].now
    <3>1. Selected.seq % 2 = 1
      <4>1. (Selected.seq - 1) % 2 = 0
        BY <1>2, <2>1
      <4> QED BY <1>3, <4>1
    <3>2. i = 1
      BY <1>3, <3>1
    <3> QED BY <2>1, <3>2
  <2>2. CASE Selected = slots[1].now
    <3>1. Selected.seq % 2 = 0
      <4>1. (Selected.seq - 1) % 2 = 1
        BY <1>2, <2>2
      <4> QED BY <1>3, <4>1
    <3>2. i = 0
      BY <1>3, <3>1
    <3> QED BY <2>2, <3>2
  <2> QED BY <2>1, <2>2 DEF Selected
<1>6. NoSlot \in Slots /\ NoSlot.seq = 0
  BY DEF NoSlot, Slots, MetaNames
<1>7. cell \in [now : Slots, maybe : SUBSET Slots] /\ cell.now = next /\ next \in cell.maybe
  BY <1>1, <1>4, <1>6
<1>8. slots' = [slots EXCEPT ![i] = cell]
  BY <1>1, <1>4
<1>9. \A v \in cell.maybe : v.seq = 0 \/ (v.seq - 1) % 2 = i
  BY <1>4, <1>6 DEF SlotsOK
<1> HIDE DEF cell, i, j
<1>10. slots'[i] = cell /\ slots'[j] = slots[j] /\ slots' \in [{0, 1} -> [now : Slots, maybe : SUBSET Slots]]
  <2>1. slots \in [{0, 1} -> [now : Slots, maybe : SUBSET Slots]]
    BY <1>1
  <2>2. cell \in [now : Slots, maybe : SUBSET Slots]
    BY <1>7
  <2> DEFINE T == [now : Slots, maybe : SUBSET Slots]
  <2> HIDE DEF T
  <2>3. slots \in [{0, 1} -> T] /\ cell \in T
    BY <2>1, <2>2 DEF T
  <2>4. slots'[i] = cell /\ slots'[j] = slots[j] /\ slots' \in [{0, 1} -> T]
    BY ONLY <1>4, <1>8, <2>3
  <2> QED BY <2>4 DEF T
<1>11. SlotsOK'
  <2>1. \A k \in {0, 1} : slots'[k].now \in slots'[k].maybe
    BY <1>4, <1>7, <1>10 DEF SlotsOK
  <2>2. \A k \in {0, 1} : \A v \in slots'[k].maybe : v.seq = 0 \/ (v.seq - 1) % 2 = k
    BY <1>4, <1>9, <1>10 DEF SlotsOK
  <2> QED BY <1>10, <2>1, <2>2 DEF SlotsOK
<1>12. slots'[i].now = next /\ slots'[j].now = Selected /\ next.seq > Selected.seq
  BY <1>3, <1>5, <1>7, <1>10
<1>13. /\ Selected' = IF slots'[0].now.seq > slots'[1].now.seq THEN slots'[0].now ELSE slots'[1].now
       /\ Second' = IF slots'[0].now.seq > slots'[1].now.seq THEN slots'[1].now ELSE slots'[0].now
  BY DEF Selected, Second
<1>14. CASE i = 0 /\ j = 1
  BY <1>3, <1>11, <1>12, <1>14, <1>13
<1>15. CASE i = 1 /\ j = 0
  BY <1>3, <1>11, <1>12, <1>15, <1>13
<1>16. (i = 0 /\ j = 1) \/ (i = 1 /\ j = 0)
  BY <1>4
<1> QED BY <1>11, <1>14, <1>15, <1>16

LEMMA RepackActivatesKeeps == ASSUME LogInv, RepackActivates PROVE LogInv'
<1> DEFINE b == Other(st.active)
           next == NextSlot
<1>1. /\ phase = "written" /\ phase' = "activating" /\ status' = status /\ st' = st /\ fds' = fds
      /\ meta' = [meta EXCEPT ![Projected.active] = Image(@)]
      /\ slots' = [slots EXCEPT ![(next.seq - 1) % 2] = [now |-> next, maybe |-> @.maybe \cup {NoSlot, next}]]
  BY DEF RepackActivates, SlotWritten
<1>2. Typed /\ SlotsOK /\ status = "open" /\ LiveBody(Selected, Second, meta[st.active], log, st)
  BY <1>1 DEF LogInv, PhaseOK, LiveOK, Typed
<1>3. /\ Projected \in States /\ Projected.active = b /\ Projected.gen = st.gen + 1
      /\ b \in MetaNames /\ st.gen \in Nat /\ meta \in [MetaNames -> MetaFiles]
  BY <1>2, ProjectedIs DEF Typed
<1>4. Selected.seq > 0 /\ Selected.file = st.active /\ Selected.gen = st.gen /\ Selected \in Slots
  BY <1>2, SlotFacts DEF LiveBody
<1>5. next \in Slots /\ next.seq = Selected.seq + 1 /\ next.file = Projected.active /\ next.gen = Projected.gen
  <2>1. Selected.seq \in Nat
    BY <1>4 DEF Slots
  <2> QED BY <1>3, <2>1 DEF NextSlot, Slots
<1> HIDE DEF next
<1>6. SlotsOK' /\ Selected' = next /\ Second' = Selected
  BY <1>1, <1>2, <1>4, <1>5, SlotTurns
<1>7. meta' \in [MetaNames -> MetaFiles] /\ Image(meta'[b]) = Image(meta[b])
  <2> DEFINE file == meta[b]
  <2>1. file \in MetaFiles
    BY <1>3
  <2>2. meta' = [meta EXCEPT ![b] = Image(file)]
    BY <1>1, <1>3
  <2> HIDE DEF file
  <2>3. Image(file) \in MetaFiles /\ Image(Image(file)) = Image(file)
    BY <2>1, ImageKeeps, ImageTwice
  <2>4. meta' \in [MetaNames -> MetaFiles] /\ meta'[b] = Image(file)
    BY <1>3, <2>2, <2>3
  <2> QED BY <2>3, <2>4 DEF file
<1>8. Projected' = Projected
  BY <1>1, ProjectedStays
<1>9. NextOK'
  <2>1. Image(meta[b]) = MetaFile(Base(Projected), {}, <<>>)
    BY <1>1 DEF LogInv, NextOK
  <2>2. Image(meta'[Other(st'.active)]) = MetaFile(Base(Projected'), {}, <<>>)
    BY <1>1, <1>7, <1>8, <2>1
  <2> QED BY <2>2 DEF NextOK
<1>10. st.retained[st.active] = st.gen
  <2> DEFINE R == [f \in {"a", "b"} |->
                IF f = st.active THEN st.gen ELSE IF Second.seq > 0 /\ Second.file = f THEN Second.gen ELSE 0]
  <2>1. st \in States /\ st.active \in MetaNames
    BY <1>2, StateFacts DEF Typed
  <2>2. R[st.active] = st.gen
    BY <2>1 DEF MetaNames
  <2>3. st = [st EXCEPT !.retained = R]
    BY <1>2 DEF LiveBody, DecodedBy
  <2> HIDE DEF R
  <2>4. [st EXCEPT !.retained = R].retained = R
    BY <2>1, StateShape DEF Shape
  <2> QED BY <2>2, <2>3, <2>4
<1>11. ActivOK'
  <2>1. Selected.seq \in Nat
    BY <1>4 DEF Slots
  <2>2. Selected'.seq > 0 /\ Selected'.file = Projected'.active /\ Selected'.gen = Projected'.gen
    BY <1>4, <1>5, <1>6, <1>8, <2>1
  <2>3. Second'.seq > 0 /\ Second'.file = st'.active /\ Second'.gen = st'.gen
    BY <1>1, <1>4, <1>6
  <2> QED BY <1>1, <1>10, <2>2, <2>3 DEF ActivOK
<1>12. Typed' /\ PhaseOK' /\ Seeded' /\ LiveOK'
  BY <1>1, <1>2, <1>6, <1>7 DEF Typed, PhaseOK, Seeded, LiveOK
<1> QED BY <1>9, <1>11, <1>12 DEF LogInv

LEMMA RepackInstallsKeeps == ASSUME LogInv, RepackInstalls PROVE LogInv'
<1> DEFINE b == Other(st.active)
           P == Projected
<1>1. /\ phase = "activating" /\ phase' = "idle" /\ st' = P /\ log' = FreshLog /\ fds' = fds /\ meta' = meta
      /\ slots' = [i \in {0, 1} |-> Sure(slots[i].now)]
  BY DEF RepackInstalls
<1>2. Typed /\ SlotsOK /\ NextOK /\ ActivOK
  BY DEF LogInv, Typed
<1>3. /\ P \in States /\ P.active = b /\ P.gen = st.gen + 1 /\ P.retained = [st.retained EXCEPT ![b] = st.gen + 1]
      /\ st.active \in MetaNames /\ b \in MetaNames /\ b # st.active /\ st.retained \in [MetaNames -> Nat]
  BY <1>2, ProjectedIs
<1>4. SlotsOK' /\ Selected' = Selected /\ Second' = Second
  BY <1>1, <1>2, FlushSlots
<1>5. /\ Selected.seq > 0 /\ Selected.file = P.active /\ Selected.gen = P.gen
      /\ Second.seq > 0 /\ Second.file = st.active /\ Second.gen = st.gen
      /\ st.retained[st.active] = st.gen
  BY <1>1, <1>2 DEF ActivOK
<1>6. Image(meta[b]) = MetaFile(Base(P), {}, <<>>)
  BY <1>1, <1>2 DEF NextOK
<1> HIDE DEF P, b
<1>7. P = DecodedBy(Second, P)
  <2> DEFINE R == [f \in {"a", "b"} |->
                IF f = P.active THEN P.gen ELSE IF Second.seq > 0 /\ Second.file = f THEN Second.gen ELSE 0]
  <2>1. \A f \in {"a", "b"} : f = b \/ f = st.active
    BY <1>3 DEF MetaNames
  <2>2. P.retained \in [{"a", "b"} -> Nat] /\ P.retained[b] = st.gen + 1 /\ P.retained[st.active] = st.retained[st.active]
    <3>1. P.retained \in [MetaNames -> Nat]
      BY <1>3, StateFacts
    <3> QED BY <1>3, <3>1 DEF MetaNames
  <2>3. R[b] = P.gen /\ R[st.active] = st.gen
    BY <1>3, <1>5 DEF MetaNames
  <2>4. \A f \in {"a", "b"} : R[f] = P.retained[f]
    BY <1>3, <1>5, <2>1, <2>2, <2>3
  <2>5. R = P.retained
    BY <2>2, <2>4
  <2>6. DecodedBy(Second, P) = [P EXCEPT !.retained = R]
    BY DEF DecodedBy
  <2> HIDE DEF R
  <2>7. [P EXCEPT !.retained = P.retained] = P
    BY <1>3, StateShape DEF Shape
  <2> QED BY <2>5, <2>6, <2>7
<1>8. Follows(Image(meta[b]), P, FreshLog, P) /\ Image(meta[b]).base.state = P
  <2>1. Follows(MetaFile(Base(P), {}, <<>>), P, FreshLog, P)
    BY <1>3, FreshFollows
  <2>2. MetaFile(Base(P), {}, <<>>).base = Base(P)
    BY MetaFileParts
  <2> QED BY <1>6, <2>1, <2>2 DEF Base
<1>9. LiveBody(Selected', Second', meta'[st'.active], log', st')
  BY <1>1, <1>3, <1>4, <1>5, <1>7, <1>8 DEF LiveBody
<1> QED BY <1>1, <1>2, <1>3, <1>4, <1>9, IdleKeeps DEF Typed

\* A store that fails, or gives a repack up, keeps what it has.
LEMMA StopsKeep ==
    ASSUME LogInv, meta' \in [MetaNames -> MetaFiles], slots' = slots, phase' = "idle", status' # "open",
           st' \in States, fds' \in [FDs -> Descriptors]
    PROVE  LogInv'
<1>1. SlotsOK'
  BY SlotsStay DEF LogInv, Typed
<1> QED BY <1>1, IdleKeeps

LEMMA UnlinkFailsKeeps ==
    ASSUME LogInv, NEW d \in Dirs(st), NEW name \in Names, UnlinkFails(d, name)
    PROVE  LogInv'
<1> DEFINE r == Removal("file", d, name)
           f == Frame(r, EndAfter(Due), log.next)
           file == meta[st.active]
<1>1. /\ IdleOpen /\ slots' = slots /\ phase' = phase /\ status' = "failed" /\ st' = st /\ fds' = fds
      /\ Admits(st, r)
      /\ \E frames \in {Due, Append(Due, f)} : Append2Log(frames)
  BY DEF UnlinkFails, Call, Poisoned, IdleOpen
<1>2. Typed /\ LiveBody(Selected, Second, meta[st.active], log, st)
  BY <1>1, OpenIsLive
<1>3. /\ st.active \in MetaNames /\ meta \in [MetaNames -> MetaFiles] /\ st \in States
      /\ fds \in [FDs -> Descriptors] /\ file \in MetaFiles
      /\ Follows(Image(file), DecodedBy(Second, Image(file).base.state), log, st)
      /\ DecodedBy(Second, Image(file).base.state) \in States
  BY <1>2, LiveFacts DEF Typed
<1>4. r \in Records /\ r.kind = "remove"
  <2>1. d \in DOMAIN st.nodes
    BY <1>3, InodesAre
  <2>2. r \in Records
    BY <1>3, <2>1, OtherTypes
  <2> QED BY <2>2 DEF Removal
<1> HIDE DEF r
<1>5. PICK frames \in {Due, Append(Due, f)} : Append2Log(frames)
  BY <1>1
<1> DEFINE new == [file EXCEPT !.pending = file.pending \o Appended(frames)]
<1>6. meta' = [meta EXCEPT ![st.active] = new]
  BY <1>3, <1>5 DEF Append2Log
<1>7. new \in MetaFiles
  <2>1. CASE frames = Due
    BY <1>2, <2>1, DueType
  <2>2. CASE frames = Append(Due, f)
    <3> DEFINE lg == [end |-> EndAfter(Append(Due, f)), next |-> log.next + 1, dirty |-> TRUE, pend |-> NoResize]
    <3>1. Committed(r, file, new, lg)
      BY <1>4, <2>2 DEF Committed, Deferrable
    <3> DEFINE s0 == DecodedBy(Second, Image(file).base.state)
    <3>2. s0 \in States /\ Follows(Image(file), s0, log, st) /\ file \in MetaFiles
      BY <1>3
    <3> HIDE DEF new, lg, s0, file
    <3> QED BY <1>1, <1>4, <3>1, <3>2, CommitFollows
  <2> QED BY <2>1, <2>2
<1>8. meta' \in [MetaNames -> MetaFiles]
  <2> HIDE DEF new
  <2> QED BY <1>3, <1>6, <1>7
<1> QED BY <1>1, <1>3, <1>8, StopsKeep DEF IdleOpen

LEMMA FailuresKeep ==
    ASSUME LogInv
    PROVE  /\ WriteFails => LogInv'
           /\ RepackFails => LogInv'
           /\ ActivationFails => LogInv'
           /\ CloseFailed => LogInv'
<1>1. /\ meta \in [MetaNames -> MetaFiles] /\ st \in States /\ fds \in [FDs -> Descriptors] /\ SlotsOK
      /\ phase \in {"idle", "seeded", "written", "activating"} /\ PhaseOK /\ LiveOK
  BY DEF LogInv, Typed
<1>2. ASSUME WriteFails PROVE LogInv'
  <2>1. meta' = meta /\ slots' = slots /\ phase' = "idle" /\ status' = "failed" /\ st' = st /\ fds' = fds
    BY <1>2 DEF WriteFails, Poisoned
  <2> QED BY <1>1, <2>1, StopsKeep
<1>3. ASSUME RepackFails PROVE LogInv'
  <2>1. /\ meta' = meta /\ slots' = slots /\ phase' = "idle" /\ status' = status /\ st' = st /\ fds' = fds
        /\ log' = log /\ phase = "written"
    BY <1>3 DEF RepackFails
  <2>2. LiveBody(Selected, Second, meta[st.active], log, st)
    BY <1>1, <2>1 DEF PhaseOK, LiveOK
  <2>3. SlotsOK' /\ Selected' = Selected /\ Second' = Second
    BY <1>1, <2>1, SlotsStay
  <2>4. LiveBody(Selected', Second', meta'[st'.active], log', st')
    BY <2>1, <2>2, <2>3
  <2> QED BY <1>1, <2>1, <2>3, <2>4, IdleKeeps
<1>4. ASSUME ActivationFails PROVE LogInv'
  <2>1. meta' = meta /\ slots' = slots /\ phase' = "idle" /\ status' = "failed" /\ st' = st /\ fds' = fds
    BY <1>4 DEF ActivationFails, Poisoned
  <2> QED BY <1>1, <2>1, StopsKeep
<1>5. ASSUME CloseFailed PROVE LogInv'
  <2>1. /\ meta' = meta /\ slots' = slots /\ phase' = phase /\ status = "failed" /\ status' = "down"
        /\ st' = InitialState /\ fds' = Closed
    BY <1>5 DEF CloseFailed, Gone
  <2>2. phase = "idle"
    BY <1>1, <2>1 DEF PhaseOK
  <2> QED BY <1>1, <2>1, <2>2, InitialIsAState, ClosedType, StopsKeep
<1> QED BY <1>2, <1>3, <1>4, <1>5

LEMMA StutterKeeps == ASSUME LogInv, UNCHANGED vars PROVE LogInv'
<1>1. /\ meta' = meta /\ slots' = slots /\ status' = status /\ phase' = phase /\ st' = st /\ log' = log /\ fds' = fds
  BY DEF vars
<1>2. SlotsOK' /\ Selected' = Selected /\ Second' = Second
  BY <1>1, SlotsStay DEF LogInv, Typed
<1>3. Projected' = Projected
  BY <1>1, ProjectedStays
<1> QED BY <1>1, <1>2, <1>3 DEF LogInv, Typed, PhaseOK, Seeded, LiveOK, NextOK, ActivOK

LEMMA LogInvStep == LogInv /\ [Next]_vars => LogInv'
<1> SUFFICES ASSUME LogInv, [Next]_vars PROVE LogInv'
  OBVIOUS
<1>1. CASE Open
  BY <1>1, OpenKeeps
<1>2. CASE BootstrapFlushes
  BY <1>2, BootstrapFlushesKeeps
<1>3. CASE Calls
  BY <1>3, CallsKeep
<1>4. CASE StrictSync
  BY <1>4, StrictSyncKeeps
<1>5. CASE CloseStore
  BY <1>5, CloseStoreKeeps
<1>6. CASE RunScheduled
  BY <1>6, RunScheduledKeeps
<1>7. CASE Repack
  BY <1>7, RepackWritesKeeps, RepackActivatesKeeps, RepackInstallsKeeps DEF Repack
<1>8. CASE CloseFailed
  BY <1>8, FailuresKeep
<1>9. CASE Troubles
  BY <1>9, FailuresKeep, UnlinkFailsKeeps, CrashKeeps DEF Troubles
<1>10. CASE UNCHANGED vars
  BY <1>10, StutterKeeps
<1> QED BY <1>1, <1>2, <1>3, <1>4, <1>5, <1>6, <1>7, <1>8, <1>9, <1>10 DEF Next

LEMMA LiveReplays == LogInv => ReplayGivesLiveState
<1> SUFFICES ASSUME LogInv, status = "open", phase = "idle"
             PROVE  LET file == Image(meta[st.active])
                        r == Replay(file, Decoded(file.base.state)).s
                    IN  st = IF log.pend.id = 0 THEN r ELSE Apply(r, log.pend.rec)
  BY DEF ReplayGivesLiveState
<1> DEFINE file == Image(meta[st.active])
           s0 == DecodedBy(Second, file.base.state)
<1>1. Typed /\ LiveBody(Selected, Second, meta[st.active], log, st)
  BY OpenIsLive DEF IdleOpen
<1>2. s0 \in States /\ Follows(file, s0, log, st) /\ file.log \in Logs
  <2>1. meta[st.active] \in MetaFiles /\ s0 \in States /\ Follows(file, s0, log, st)
    BY <1>1, LiveFacts
  <2>2. file.log \in Logs
    BY <2>1, ImageKeeps, FileFacts
  <2> QED BY <2>1, <2>2
<1>3. Decoded(file.base.state) = s0
  BY DecodedIs
<1> HIDE DEF file, s0
<1>4. PICK R : ReplaysTo(file, s0, R) /\ Waiting(log, R, st)
  BY <1>2 DEF Follows
<1>5. R \in Places /\ R.at \in Nat
  BY <1>2, <1>4, ReachFacts DEF ReplaysTo
<1>6. Stalled(file.log, R)
  <2>1. \A f \in file.log : f.at \in Nat /\ End(f) \in Nat /\ f.at < End(f) /\ End(f) <= R.at
    BY <1>2, <1>4, FrameTakesRoom DEF ReplaysTo, Logs
  <2> QED BY <1>5, <2>1 DEF Stalled, InTurn
<1>7. Replay(file, s0) = R
  BY <1>2, <1>4, <1>6, ReachReplay DEF ReplaysTo
<1>8. st = IF log.pend.id = 0 THEN R.s ELSE Apply(R.s, log.pend.rec)
  BY <1>4 DEF Waiting
<1> QED BY <1>3, <1>7, <1>8 DEF file

\* Live commits and replay agree: the files as they stand, replayed, and then the
\* pending resize, give the live state, whatever was merged, deferred, torn or repacked.
THEOREM ReplayTheorem == Spec => []ReplayGivesLiveState
<1>1. Init => LogInv
  BY LogInvInit
<1>2. LogInv /\ [Next]_vars => LogInv'
  BY LogInvStep
<1>3. LogInv => ReplayGivesLiveState
  BY LiveReplays
<1> QED BY <1>1, <1>2, <1>3, PTL DEF Spec

-----------------------------------------------------------------------------
(***************************************************************************)
(* States that validateState accepts, whatever file they are in.           *)
(***************************************************************************)
Placed(s) == \A i \in DOMAIN s.nodes : i # Root => s.nodes[i].parent \in Dirs(s)
Numbered(s) == s.next >= 2 /\ \A i \in DOMAIN s.nodes : i < s.next
OneEach(s) ==
    \A i, j \in DOMAIN s.nodes :
        i # j => ~(s.nodes[i].parent = s.nodes[j].parent /\ s.nodes[i].name = s.nodes[j].name)
Unshared(s) ==
    \A i, j \in DOMAIN s.nodes :
        i # j => ToSet(s.nodes[i].extents) \cap ToSet(s.nodes[j].extents) = {}
Split(owned, avail, quar, total) ==
    /\ owned \cup avail \cup quar = 0 .. total - 1
    /\ owned \cap avail = {} /\ owned \cap quar = {} /\ avail \cap quar = {}
Tagged(s) == \A x \in DOMAIN s.quar : s.quar[x] \in {0, s.gen}
Whole(s) ==
    /\ Placed(s) /\ Numbered(s) /\ OneEach(s) /\ Unshared(s) /\ Tagged(s)
    /\ Split(Owned(s), s.avail, DOMAIN s.quar, s.total)
Sound == {s \in States : Whole(s)}

LEMMA SoundIsState == Sound \subseteq States
  BY DEF Sound

\* Extents of one class only, after some were assigned: the available ones taken
\* and the arena grown.
LEMMA AssignedSplit ==
    ASSUME NEW s \in Sound, NEW xs \in Seq(Nat), Assignable(s, xs)
    PROVE  LET X == ToSet(xs)
               a == Allocate(s, xs)
           IN  /\ a \in States
               /\ Owned(s) \cap X = {} /\ DOMAIN s.quar \cap X = {}
               /\ Owned(s) \cup X \cup a.avail \cup DOMAIN s.quar = 0 .. a.total - 1
               /\ a.avail \cap X = {} /\ a.avail \subseteq s.avail
<1> DEFINE X == ToSet(xs)
           F == Fresh(s, xs)
           n == Cardinality(F)
           a == Allocate(s, xs)
           q == DOMAIN s.quar
           o == Owned(s)
<1>1. s \in States /\ Split(o, s.avail, q, s.total)
  BY DEF Sound, Whole
<1>2. /\ a \in States /\ a.avail = s.avail \ X /\ a.total = s.total + n
  BY <1>1, AllocateKeeps
<1>3. /\ F \subseteq X /\ n \in Nat /\ s.total \in Nat
  BY <1>1, ExtentSet, StateFacts
<1>4. X \ F \subseteq s.avail /\ F = s.total .. (s.total + n - 1)
  BY DEF Assignable
<1> HIDE DEF X, F, n, a, q, o
<1>5. \A x \in F : x \notin o /\ x \notin q /\ x \notin s.avail
  BY <1>1, <1>3, <1>4 DEF Split
<1>6. o \cap X = {} /\ q \cap X = {}
  BY <1>1, <1>4, <1>5 DEF Split
<1>7. o \cup X \cup a.avail \cup q = (0 .. s.total - 1) \cup F
  BY <1>1, <1>2, <1>3, <1>4 DEF Split
<1>8. (0 .. s.total - 1) \cup F = 0 .. a.total - 1
  BY <1>2, <1>3, <1>4
<1> QED BY <1>2, <1>6, <1>7, <1>8 DEF X, F, n, a, q, o

\* What the quarantine becomes.
LEMMA QuarantineIs ==
    ASSUME NEW s \in States, NEW X \in SUBSET Nat
    PROVE  /\ DOMAIN Quarantine(s, X).quar = DOMAIN s.quar \cup X
           /\ \A x \in X : Quarantine(s, X).quar[x] = 0
           /\ \A x \in DOMAIN s.quar \ X : Quarantine(s, X).quar[x] = s.quar[x]
<1> DEFINE q == [x \in DOMAIN s.quar \cup X |-> IF x \in X THEN 0 ELSE s.quar[x]]
<1>1. Quarantine(s, X) = [s EXCEPT !.quar = q]
  BY DEF Quarantine
<1>2. Shape(s)
  BY StateShape
<1> HIDE DEF q
<1>3. Quarantine(s, X).quar = q
  BY <1>1, <1>2 DEF Shape
<1> QED BY <1>3 DEF q

LEMMA QuarantineTagged ==
    ASSUME NEW s \in States, NEW X \in SUBSET Nat, Tagged(s)
    PROVE  Tagged(Quarantine(s, X))
<1>1. Quarantine(s, X).gen = s.gen
  BY QuarantineKeeps DEF SameStore
<1> DEFINE t == Quarantine(s, X)
<1>2. /\ DOMAIN t.quar = DOMAIN s.quar \cup X /\ \A x \in X : t.quar[x] = 0
      /\ \A x \in DOMAIN s.quar \ X : t.quar[x] = s.quar[x]
  BY QuarantineIs
<1> HIDE DEF t
<1>3. \A x \in DOMAIN t.quar : t.quar[x] \in {0, s.gen}
  BY <1>2 DEF Tagged
<1> QED BY <1>1, <1>3 DEF Tagged, t

\* The extents of the other nodes.
LEMMA OwnedApart ==
    ASSUME NEW s \in States, Unshared(s), NEW i \in DOMAIN s.nodes
    PROVE  UNION {ToSet(s.nodes[j].extents) : j \in DOMAIN s.nodes \ {i}}
             = Owned(s) \ ToSet(s.nodes[i].extents)
  BY DEF Owned, Unshared

\* A tree whose nodes are replaced one for one, kinds and places kept.
LEMMA SameTree ==
    ASSUME NEW s \in States, NEW t \in States, Placed(s), Numbered(s), OneEach(s), t.next >= s.next,
           DOMAIN t.nodes = DOMAIN s.nodes,
           \A j \in DOMAIN s.nodes : /\ t.nodes[j].kind = s.nodes[j].kind
                                     /\ t.nodes[j].parent = s.nodes[j].parent
                                     /\ t.nodes[j].name = s.nodes[j].name
    PROVE  Placed(t) /\ Numbered(t) /\ OneEach(t)
<1>1. Dirs(t) = Dirs(s)
  BY DEF Dirs
<1>2. Placed(t)
  BY <1>1 DEF Placed
<1>3. Numbered(t)
  <2>1. s.next \in Nat /\ t.next \in Nat /\ DOMAIN s.nodes \subseteq Nat
    BY StateFacts
  <2>2. \A n \in Nat : n < s.next => n < t.next
    BY <2>1
  <2>3. s.next >= 2 /\ \A i \in DOMAIN s.nodes : i < s.next
    BY DEF Numbered
  <2>4. t.next >= 2
    BY <2>1, <2>3
  <2> QED BY <2>1, <2>2, <2>3, <2>4 DEF Numbered
<1>4. OneEach(t)
  BY DEF OneEach
<1> QED BY <1>2, <1>3, <1>4

LEMMA CreateSound ==
    ASSUME NEW s \in Sound, NEW r \in Records, r.kind = "create", Admits(s, r)
    PROVE  ApplyCreate(s, r) \in Sound
<1> DEFINE node == [kind |-> r.what, parent |-> r.parent, name |-> r.name, size |-> r.size,
                    extents |-> r.extents, owner |-> r.name]
           a == Allocate(s, r.extents)
           m == [j \in DOMAIN s.nodes \cup {r.id} |-> IF j = r.id THEN node ELSE s.nodes[j]]
           t == ApplyCreate(s, r)
           X == ToSet(r.extents)
           D == DOMAIN s.nodes
<1>1. s \in States /\ Whole(s) /\ r.extents \in Seq(Nat)
  BY DEF Sound, Records
<1>2. /\ r.parent \in Dirs(s) /\ Entry(s, r.parent, r.name) = {} /\ r.id = s.next
      /\ Assignable(s, r.extents)
  BY DEF Admits, AdmitsCreate
<1>3. t \in States /\ t.gen = s.gen
  BY <1>1, CreateKeeps DEF SameStore
<1>4. /\ a \in States /\ a.nodes = s.nodes /\ a.next = s.next /\ a.quar = s.quar
  BY <1>1, AllocateKeeps
<1>5. /\ Owned(s) \cap X = {} /\ DOMAIN s.quar \cap X = {}
      /\ Owned(s) \cup X \cup a.avail \cup DOMAIN s.quar = 0 .. a.total - 1
      /\ a.avail \cap X = {} /\ a.avail \subseteq s.avail
  BY <1>1, <1>2, AssignedSplit
<1>6. t = [a EXCEPT !.next = a.next + 1, !.nodes = m]
  BY <1>4 DEF ApplyCreate
<1>7. node.kind = r.what /\ node.parent = r.parent /\ node.name = r.name /\ node.extents = r.extents
  OBVIOUS
<1> HIDE DEF t, a, node
<1>8. /\ t.nodes = m /\ t.next = s.next + 1 /\ t.quar = s.quar /\ t.avail = a.avail /\ t.total = a.total
  <2>1. Shape(a)
    BY <1>4, StateShape
  <2> HIDE DEF m
  <2> QED BY <1>4, <1>6, <2>1 DEF Shape
<1>9. s.next \in Nat /\ s.next >= 2 /\ D \subseteq Nat /\ \A i \in D : i < s.next
  BY <1>1, StateFacts DEF Whole, Numbered
<1>10. r.id \notin D /\ r.id # Root
  BY <1>2, <1>9 DEF Root
<1>11. DOMAIN t.nodes = D \cup {r.id} /\ t.nodes[r.id] = node /\ \A j \in D : t.nodes[j] = s.nodes[j]
  BY <1>8, <1>10
<1> HIDE DEF m, X
<1>12. Dirs(s) \subseteq Dirs(t)
  BY <1>11 DEF Dirs
<1>13. Placed(t)
  BY <1>1, <1>2, <1>7, <1>11, <1>12 DEF Placed, Whole
<1>14. Numbered(t)
  <2>1. \A i \in D : i < s.next + 1
    BY <1>9
  <2> QED BY <1>2, <1>8, <1>9, <1>11, <2>1 DEF Numbered
<1>15. OneEach(t)
  <2>1. \A j \in D : ~(s.nodes[j].parent = r.parent /\ s.nodes[j].name = r.name)
    BY <1>2 DEF Entry, Children
  <2> QED BY <1>1, <1>7, <1>11, <2>1 DEF OneEach, Whole
<1>16. \A j \in D : ToSet(s.nodes[j].extents) \cap X = {}
  BY <1>5 DEF Owned
<1>17. Unshared(t)
  BY <1>1, <1>7, <1>11, <1>16 DEF Unshared, Whole, X
<1>18. Owned(t) = Owned(s) \cup X
  BY <1>7, <1>11 DEF Owned, X
<1>19. Split(Owned(t), t.avail, DOMAIN t.quar, t.total)
  BY <1>1, <1>5, <1>8, <1>18 DEF Split, Whole
<1>20. Tagged(t)
  BY <1>1, <1>3, <1>8 DEF Tagged, Whole
<1> QED BY <1>3, <1>13, <1>14, <1>15, <1>17, <1>19, <1>20 DEF Sound, Whole, t

LEMMA ReserveSound ==
    ASSUME NEW s \in Sound, NEW r \in Records, r.kind = "reserve", Admits(s, r)
    PROVE  ApplyReserve(s, r) \in Sound
<1> DEFINE a == Allocate(s, r.extents)
           t == ApplyReserve(s, r)
           X == ToSet(r.extents)
<1>1. s \in States /\ Whole(s) /\ r.extents \in Seq(Nat)
  BY DEF Sound, Records
<1>2. X \in SUBSET Nat /\ Assignable(s, r.extents)
  BY <1>1, ExtentSet DEF Admits
<1>3. /\ a \in States /\ a.nodes = s.nodes /\ a.next = s.next /\ a.quar = s.quar /\ a.gen = s.gen
  BY <1>1, AllocateKeeps DEF SameStore
<1>4. /\ Owned(s) \cap X = {} /\ DOMAIN s.quar \cap X = {}
      /\ Owned(s) \cup X \cup a.avail \cup DOMAIN s.quar = 0 .. a.total - 1
      /\ a.avail \cap X = {} /\ a.avail \subseteq s.avail
  BY <1>1, <1>2, AssignedSplit
<1>5. t = Quarantine(a, X)
  BY DEF ApplyReserve
<1> HIDE DEF a, t, X
<1>6. /\ t \in States /\ t.nodes = s.nodes /\ t.next = s.next /\ t.avail = a.avail /\ t.total = a.total
  BY <1>2, <1>3, <1>5, QuarantineKeeps
<1>7. DOMAIN t.quar = DOMAIN s.quar \cup X
  <2>1. DOMAIN Quarantine(a, X).quar = DOMAIN a.quar \cup X
    BY <1>2, <1>3, QuarantineIs
  <2> QED BY <1>3, <1>5, <2>1
<1>8. Tagged(t)
  <2>1. Tagged(a)
    BY <1>1, <1>3 DEF Tagged, Whole
  <2> QED BY <1>2, <1>3, <1>5, <2>1, QuarantineTagged
<1>9. Owned(t) = Owned(s)
  BY <1>6 DEF Owned
<1>10. Split(Owned(t), t.avail, DOMAIN t.quar, t.total)
  BY <1>1, <1>4, <1>6, <1>7, <1>9 DEF Split, Whole
<1>11. Placed(t) /\ Numbered(t) /\ OneEach(t)
  BY <1>1, <1>6 DEF Placed, Numbered, OneEach, Whole, Dirs
<1>12. Unshared(t)
  BY <1>1, <1>6 DEF Unshared, Whole
<1> QED BY <1>6, <1>8, <1>10, <1>11, <1>12 DEF Sound, Whole, t

\* A removed node's extents wait in the quarantine.
LEMMA RemovedIs ==
    ASSUME NEW s \in States, NEW i \in DOMAIN s.nodes
    PROVE  LET t == Removed(s, i)
           IN  /\ t \in States /\ t.next = s.next /\ t.gen = s.gen /\ t.avail = s.avail /\ t.total = s.total
               /\ DOMAIN t.nodes = DOMAIN s.nodes \ {i}
               /\ \A j \in DOMAIN t.nodes : t.nodes[j] = s.nodes[j]
               /\ DOMAIN t.quar = DOMAIN s.quar \cup ToSet(s.nodes[i].extents)
               /\ Tagged(s) => Tagged(t)
<1> DEFINE t == Removed(s, i)
           w == Without(s, i)
           m == [j \in DOMAIN s.nodes \ {i} |-> s.nodes[j]]
           X == ToSet(s.nodes[i].extents)
<1>1. t \in States /\ SameStore(t, s) /\ t.nodes = m
  BY RemovedKeeps
<1>2. w = [s EXCEPT !.nodes = m]
  BY DEF Without
<1>3. m \in [DOMAIN s.nodes \ {i} -> Node] /\ DOMAIN s.nodes \ {i} \in SUBSET (Nat \ {0})
      /\ \A j \in DOMAIN s.nodes \ {i} : Len(m[j].extents) = CountFor(m[j].size)
  BY StateFacts
<1>4. DOMAIN m = DOMAIN s.nodes \ {i} /\ \A j \in DOMAIN m : m[j] = s.nodes[j]
  OBVIOUS
<1> HIDE DEF m
<1>5. w \in States
  BY <1>2, <1>3, NodesKept
<1>6. /\ w.next = s.next /\ w.gen = s.gen /\ w.avail = s.avail /\ w.total = s.total /\ w.quar = s.quar
  <2>1. Shape(s)
    BY StateShape
  <2> HIDE DEF w
  <2> QED BY <1>2, <2>1 DEF Shape
<1>7. X \in SUBSET Nat
  BY StateFacts, ExtentSet
<1>8. t = Quarantine(w, X)
  BY DEF Removed
<1> HIDE DEF t, w, X
<1>9. t.next = w.next /\ t.avail = w.avail /\ t.total = w.total /\ t.gen = w.gen
  <2>1. /\ Quarantine(w, X).next = w.next /\ Quarantine(w, X).avail = w.avail
        /\ Quarantine(w, X).total = w.total /\ SameStore(Quarantine(w, X), w)
    BY <1>5, <1>7, QuarantineKeeps
  <2> QED BY <1>8, <2>1 DEF SameStore
<1>10. DOMAIN t.quar = DOMAIN s.quar \cup X
  BY <1>5, <1>6, <1>7, <1>8, QuarantineIs
<1>11. Tagged(s) => Tagged(t)
  <2>1. Tagged(s) => Tagged(w)
    BY <1>6 DEF Tagged
  <2> QED BY <1>5, <1>7, <1>8, <2>1, QuarantineTagged
<1> QED BY <1>1, <1>4, <1>6, <1>9, <1>10, <1>11 DEF t, X

\* A node without children may go.
LEMMA RemovedSound ==
    ASSUME NEW s \in Sound, NEW i \in DOMAIN s.nodes,
           \A j \in DOMAIN s.nodes : j # Root => s.nodes[j].parent # i
    PROVE  Removed(s, i) \in Sound
<1> DEFINE t == Removed(s, i)
           X == ToSet(s.nodes[i].extents)
<1>1. s \in States /\ Whole(s)
  BY DEF Sound
<1>2. /\ t \in States /\ t.next = s.next /\ t.gen = s.gen /\ t.avail = s.avail /\ t.total = s.total
      /\ DOMAIN t.nodes = DOMAIN s.nodes \ {i}
      /\ \A j \in DOMAIN t.nodes : t.nodes[j] = s.nodes[j]
      /\ DOMAIN t.quar = DOMAIN s.quar \cup X
      /\ Tagged(t)
  BY <1>1, RemovedIs DEF Whole
<1> HIDE DEF t
<1>3. Placed(t)
  BY <1>1, <1>2 DEF Placed, Whole, Dirs
<1>4. Numbered(t) /\ OneEach(t) /\ Unshared(t)
  BY <1>1, <1>2 DEF Numbered, OneEach, Unshared, Whole
<1>5. Owned(t) = Owned(s) \ X
  <2>1. UNION {ToSet(s.nodes[j].extents) : j \in DOMAIN s.nodes \ {i}} = Owned(s) \ X
    BY <1>1, OwnedApart DEF Whole
  <2>2. Owned(t) = UNION {ToSet(s.nodes[j].extents) : j \in DOMAIN s.nodes \ {i}}
    BY <1>2 DEF Owned
  <2> QED BY <2>1, <2>2
<1>6. X \subseteq Owned(s)
  BY DEF Owned
<1>7. Split(Owned(t), t.avail, DOMAIN t.quar, t.total)
  BY <1>1, <1>2, <1>5, <1>6 DEF Split, Whole
<1> QED BY <1>2, <1>3, <1>4, <1>7 DEF Sound, Whole, t

\* A name stands for one node, so any choice is that one.
LEMMA OneEntry ==
    ASSUME NEW s \in Sound, NEW d, NEW name, NEW i \in Entry(s, d, name)
    PROVE  /\ i \in DOMAIN s.nodes /\ s.nodes[i].parent = d /\ s.nodes[i].name = name
           /\ (CHOOSE j \in Entry(s, d, name) : TRUE) = i
<1>1. \A j \in Entry(s, d, name) : j \in DOMAIN s.nodes /\ s.nodes[j].parent = d /\ s.nodes[j].name = name
  BY DEF Entry, Children
<1>2. \A j \in Entry(s, d, name) : j = i
  BY <1>1 DEF Sound, Whole, OneEach
<1> QED BY <1>1, <1>2

LEMMA RemovalSound ==
    ASSUME NEW s \in Sound, NEW r \in Records, r.kind = "remove", Admits(s, r)
    PROVE  Apply(s, r) \in Sound
<1>1. PICK i \in Entry(s, r.parent, r.name) :
         IF r.what = "dir" THEN s.nodes[i].kind = "dir" /\ Children(s, i) = {} ELSE s.nodes[i].kind # "dir"
  BY DEF Admits, AdmitsRemoval
<1>2. i \in DOMAIN s.nodes /\ Apply(s, r) = Removed(s, i)
  <2>1. i \in DOMAIN s.nodes /\ (CHOOSE j \in Entry(s, r.parent, r.name) : TRUE) = i
    BY OneEntry
  <2>2. Apply(s, r) = Removed(s, CHOOSE j \in Entry(s, r.parent, r.name) : TRUE)
    BY DEF Apply
  <2> QED BY <2>1, <2>2
<1>3. \A j \in DOMAIN s.nodes : j # Root => s.nodes[j].parent # i
  BY <1>1 DEF Sound, Whole, Placed, Dirs, Children
<1> QED BY <1>2, <1>3, RemovedSound

LEMMA RenameSound ==
    ASSUME NEW s \in Sound, NEW r \in Records, r.kind = "rename", Admits(s, r)
    PROVE  ApplyRename(s, r) \in Sound
<1>0. s \in States /\ Whole(s)
  BY DEF Sound
<1>1. PICK i \in Entry(s, r.parent, r.name) :
         \A j \in Entry(s, r.newParent, r.newName) : Replaceable(s, i, j)
  BY DEF Admits, AdmitsRename
<1>2. /\ <<r.parent, r.name>> # <<r.newParent, r.newName>> /\ r.newParent \in Dirs(s)
      /\ r.newParent \in Nat /\ r.newName \in Labels
  BY DEF Admits, AdmitsRename, Records
<1> DEFINE over == Entry(s, r.newParent, r.newName)
           t == IF over = {} THEN s ELSE Removed(s, CHOOSE j \in over : TRUE)
           u == ApplyRename(s, r)
<1>3. /\ i \in DOMAIN s.nodes /\ s.nodes[i].parent = r.parent /\ s.nodes[i].name = r.name
      /\ (CHOOSE k \in Entry(s, r.parent, r.name) : TRUE) = i
  BY OneEntry
<1>4. u = [t EXCEPT !.nodes[i].parent = r.newParent, !.nodes[i].name = r.newName]
  BY <1>3 DEF ApplyRename
<1> HIDE DEF u
<1>5. /\ t \in Sound /\ i \in DOMAIN t.nodes /\ r.newParent \in Dirs(t)
      /\ \A j \in DOMAIN t.nodes : t.nodes[j] = s.nodes[j] /\ j \in DOMAIN s.nodes
      /\ \A j \in DOMAIN t.nodes : ~(t.nodes[j].parent = r.newParent /\ t.nodes[j].name = r.newName)
  <2>1. CASE over = {}
    <3>1. t = s
      BY <2>1
    <3>2. \A j \in DOMAIN s.nodes : ~(s.nodes[j].parent = r.newParent /\ s.nodes[j].name = r.newName)
      BY <2>1 DEF Entry, Children
    <3> HIDE DEF over, t
    <3> QED BY <1>2, <1>3, <3>1, <3>2
  <2>2. CASE over # {}
    <3>1. PICK j \in over : TRUE
      BY <2>2
    <3>2. /\ j \in DOMAIN s.nodes /\ s.nodes[j].parent = r.newParent /\ s.nodes[j].name = r.newName
          /\ t = Removed(s, j) /\ Children(s, j) = {} /\ j # i
      <4>1. /\ j \in DOMAIN s.nodes /\ s.nodes[j].parent = r.newParent /\ s.nodes[j].name = r.newName
            /\ (CHOOSE k \in over : TRUE) = j
        BY <3>1, OneEntry
      <4>2. t = Removed(s, CHOOSE k \in over : TRUE)
        BY <2>2
      <4>3. Children(s, j) = {}
        BY <1>1, <3>1 DEF Replaceable
      <4>4. j # i
        BY <1>2, <1>3, <4>1
      <4> HIDE DEF over, t
      <4> QED BY <4>1, <4>2, <4>3, <4>4
    <3> HIDE DEF over, t
    <3>3. \A k \in DOMAIN s.nodes : s.nodes[k].parent # j
      BY <3>2 DEF Children
    <3>4. t \in Sound
      BY <3>2, <3>3, RemovedSound
    <3>5. DOMAIN t.nodes = DOMAIN s.nodes \ {j} /\ \A k \in DOMAIN t.nodes : t.nodes[k] = s.nodes[k]
      BY <1>0, <3>2, RemovedIs
    <3>6. r.newParent # j
      BY <3>2, <3>3
    <3>7. r.newParent \in Dirs(t)
      BY <1>2, <3>5, <3>6 DEF Dirs
    <3>8. \A k \in DOMAIN t.nodes : ~(t.nodes[k].parent = r.newParent /\ t.nodes[k].name = r.newName)
      BY <1>0, <3>2, <3>5 DEF Whole, OneEach
    <3> QED BY <1>3, <3>2, <3>4, <3>5, <3>7, <3>8
  <2> QED BY <2>1, <2>2
<1> HIDE DEF t, over
<1> DEFINE node == [t.nodes[i] EXCEPT !.parent = r.newParent, !.name = r.newName]
           m == [t.nodes EXCEPT ![i] = node]
<1>6. t \in States /\ Whole(t)
  BY <1>5 DEF Sound
<1>7. t.nodes \in [DOMAIN t.nodes -> Node]
  BY <1>6, StateFacts
<1>8. /\ node.parent = r.newParent /\ node.name = r.newName /\ node.kind = t.nodes[i].kind
      /\ node.extents = t.nodes[i].extents
  BY <1>2, <1>5, <1>7 DEF Node
<1>9. u = [t EXCEPT !.nodes = m]
  BY <1>4, <1>5, <1>6, <1>7, StateShape DEF Shape
<1> HIDE DEF node
<1>10. /\ DOMAIN m = DOMAIN t.nodes /\ m[i] = node /\ \A j \in DOMAIN m : j # i => m[j] = t.nodes[j]
  BY <1>5, <1>7
<1> HIDE DEF m
<1>11. u.nodes = m /\ u.next = t.next /\ u.avail = t.avail /\ u.total = t.total /\ u.quar = t.quar
       /\ u.gen = t.gen
  <2>1. Shape(t)
    BY <1>6, StateShape
  <2> QED BY <1>9, <2>1 DEF Shape
<1>12. u \in States
  BY <1>0, RenameKeeps DEF u
<1>13. Dirs(u) = Dirs(t)
  BY <1>8, <1>10, <1>11 DEF Dirs
<1>14. Placed(u)
  BY <1>5, <1>6, <1>8, <1>10, <1>11, <1>13 DEF Placed, Whole
<1>15. Numbered(u)
  BY <1>6, <1>10, <1>11 DEF Numbered, Whole
<1>16. OneEach(u)
  BY <1>5, <1>6, <1>8, <1>10, <1>11 DEF OneEach, Whole
<1>17. \A j \in DOMAIN u.nodes : j \in DOMAIN t.nodes /\ u.nodes[j].extents = t.nodes[j].extents
  BY <1>8, <1>10, <1>11
<1>18. Unshared(u)
  BY <1>6, <1>17 DEF Unshared, Whole
<1>19. Owned(u) = Owned(t)
  BY <1>10, <1>11, <1>17 DEF Owned
<1>20. Tagged(u) /\ Split(Owned(u), u.avail, DOMAIN u.quar, u.total)
  BY <1>6, <1>11, <1>19 DEF Tagged, Whole
<1> QED BY <1>12, <1>14, <1>15, <1>16, <1>18, <1>20 DEF Sound, Whole, u

LEMMA ResizeSound ==
    ASSUME NEW s \in Sound, NEW r \in Records, r.kind = "resize", Admits(s, r)
    PROVE  ApplyResize(s, r) \in Sound
<1> DEFINE old == s.nodes[r.id].extents
           kept == SubSeq(old, 1, IF CountFor(r.size) < Len(old) THEN CountFor(r.size) ELSE Len(old))
           a == Allocate(s, r.extents)
           xs == kept \o r.extents
           freed == ToSet(old) \ ToSet(kept)
           node == [s.nodes[r.id] EXCEPT !.size = r.size, !.extents = xs]
           m == [s.nodes EXCEPT ![r.id] = node]
           b == [a EXCEPT !.nodes = m]
           t == ApplyResize(s, r)
           X == ToSet(r.extents)
           K == ToSet(kept)
           O == ToSet(old)
           D == DOMAIN s.nodes
           others == UNION {ToSet(s.nodes[j].extents) : j \in D \ {r.id}}
<1>1. s \in States /\ Whole(s)
  BY DEF Sound
<1>2. /\ r.id \in D /\ r.size \in Nat /\ r.extents \in Seq(Nat)
      /\ old \in Seq(Nat) /\ kept \in Seq(Nat) /\ xs \in Seq(Nat) /\ Len(xs) = CountFor(r.size)
  BY <1>1, ResizeParts
<1>3. Assignable(s, r.extents)
  BY DEF Admits, AdmitsResize
<1>4. /\ a \in States /\ a.nodes = s.nodes /\ a.next = s.next /\ a.quar = s.quar /\ a.gen = s.gen
  BY <1>1, <1>2, AllocateKeeps DEF SameStore
<1>5. /\ Owned(s) \cap X = {} /\ DOMAIN s.quar \cap X = {}
      /\ Owned(s) \cup X \cup a.avail \cup DOMAIN s.quar = 0 .. a.total - 1
      /\ a.avail \cap X = {} /\ a.avail \subseteq s.avail
  BY <1>1, <1>2, <1>3, AssignedSplit
<1>6. ToSet(xs) = K \cup X /\ O \in SUBSET Nat /\ freed \in SUBSET Nat
  BY <1>2, ToSetConcat, ExtentSet
<1>7. K \subseteq O
  <2> DEFINE n == IF CountFor(r.size) < Len(old) THEN CountFor(r.size) ELSE Len(old)
  <2>1. CountFor(r.size) \in Nat
    BY <1>2, Counts
  <2>2. n \in 0 .. Len(old)
    BY <1>2, <2>1
  <2> HIDE DEF n, old
  <2>3. Len(SubSeq(old, 1, n)) = n /\ \A k \in 1 .. n : SubSeq(old, 1, n)[k] = old[k]
    BY <1>2, <2>2
  <2>4. \A k \in 1 .. n : k \in 1 .. Len(old)
    BY <1>2, <2>2
  <2>5. ToSet(SubSeq(old, 1, n)) \subseteq ToSet(old)
    <3> DEFINE sub == SubSeq(old, 1, n)
    <3>1. sub \in Seq(Nat) /\ DOMAIN sub = 1 .. n /\ DOMAIN old = 1 .. Len(old)
      <4>1. sub \in Seq(Nat)
        BY <1>2, <2>2, <2>4
      <4>2. Len(sub) = n
        BY <2>3
      <4> HIDE DEF sub
      <4> QED BY <1>2, <4>1, <4>2
    <3>2. \A k \in 1 .. n : sub[k] = old[k]
      BY <2>3
    <3> HIDE DEF sub
    <3>3. ToSet(sub) \subseteq ToSet(old)
      BY <2>4, <3>1, <3>2 DEF ToSet
    <3> QED BY <3>3 DEF sub
  <2> QED BY <2>5 DEF n
<1>8. t = Quarantine([a EXCEPT !.nodes[r.id].size = r.size, !.nodes[r.id].extents = xs], freed)
  BY DEF ApplyResize
<1>9. t \in States /\ t.gen = s.gen
  BY <1>1, ResizeKeeps DEF SameStore
<1> HIDE DEF xs, freed, old, kept, a, t, X, K, O
<1>10. s.nodes \in [D -> Node] /\ D \in SUBSET (Nat \ {0})
  BY <1>1, StateFacts
<1>11. [a EXCEPT !.nodes[r.id].size = r.size, !.nodes[r.id].extents = xs]
         = [a EXCEPT !.nodes = [s.nodes EXCEPT ![r.id] = [s.nodes[r.id] EXCEPT !.size = r.size, !.extents = xs]]]
  BY <1>2, <1>4, <1>10, StateShape DEF Shape
<1>12. node \in Node /\ node.extents = xs /\ node.size = r.size /\ node.kind = s.nodes[r.id].kind
       /\ node.parent = s.nodes[r.id].parent /\ node.name = s.nodes[r.id].name
  BY <1>2, <1>10 DEF Node
<1>13. t = Quarantine(b, freed)
  BY <1>8, <1>11
<1> HIDE DEF node
<1>14. /\ m \in [D -> Node] /\ m[r.id] = node /\ \A j \in D : j # r.id => m[j] = s.nodes[j]
  BY <1>2, <1>10, <1>12
<1>15. \A j \in D : Len(m[j].extents) = CountFor(m[j].size)
  BY <1>1, <1>2, <1>12, <1>14, StateFacts
<1> HIDE DEF m
<1>16. b \in States /\ b.nodes = m /\ b.next = s.next /\ b.gen = s.gen
  <2>1. b \in States /\ SameStore(b, a) /\ b.nodes = m /\ b.next = a.next
    BY <1>4, <1>10, <1>14, <1>15, NodesKept
  <2> QED BY <1>4, <2>1 DEF SameStore
<1>17. b.avail = a.avail /\ b.total = a.total /\ b.quar = s.quar
  <2>1. Shape(a)
    BY <1>4, StateShape
  <2> QED BY <1>4, <2>1 DEF Shape
<1> HIDE DEF b
<1>18. t.nodes = m /\ t.next = s.next /\ t.avail = a.avail /\ t.total = a.total
  <2>1. /\ Quarantine(b, freed).nodes = b.nodes /\ Quarantine(b, freed).next = b.next
        /\ Quarantine(b, freed).avail = b.avail /\ Quarantine(b, freed).total = b.total
    BY <1>6, <1>16, QuarantineKeeps
  <2> QED BY <1>13, <1>16, <1>17, <2>1
<1>19. DOMAIN t.quar = DOMAIN s.quar \cup freed
  <2>1. DOMAIN Quarantine(b, freed).quar = DOMAIN b.quar \cup freed
    BY <1>6, <1>16, QuarantineIs
  <2> QED BY <1>13, <1>17, <2>1
<1>20. Tagged(t)
  <2>1. Tagged(b)
    BY <1>1, <1>16, <1>17 DEF Tagged, Whole
  <2> QED BY <1>6, <1>13, <1>16, <2>1, QuarantineTagged
<1>21. DOMAIN t.nodes = D /\ t.nodes[r.id].extents = xs
       /\ \A j \in D : /\ t.nodes[j].kind = s.nodes[j].kind /\ t.nodes[j].parent = s.nodes[j].parent
                       /\ t.nodes[j].name = s.nodes[j].name
                       /\ j # r.id => t.nodes[j].extents = s.nodes[j].extents
  BY <1>12, <1>14, <1>18
<1>22. Placed(t) /\ Numbered(t) /\ OneEach(t)
  <2>1. t.next >= s.next
    <3>1. s.next \in Nat
      BY <1>1, StateFacts
    <3> QED BY <1>18, <3>1
  <2> QED BY <1>1, <1>9, <1>21, <2>1, SameTree DEF Whole
<1>23. others = Owned(s) \ O /\ O \subseteq Owned(s)
  <2>1. others = Owned(s) \ O
    BY <1>1, <1>2, OwnedApart DEF Whole, O, old
  <2>2. O \subseteq Owned(s)
    BY <1>2 DEF Owned, O, old
  <2> QED BY <2>1, <2>2
<1>24. Owned(t) = others \cup K \cup X
  <2>1. Owned(t) = others \cup ToSet(xs)
    BY <1>2, <1>21 DEF Owned
  <2> QED BY <1>6, <2>1
<1>25. Unshared(t)
  <2>1. \A j \in D : j # r.id => ToSet(s.nodes[j].extents) \cap (K \cup X) = {}
    <3>1. \A j \in D : j # r.id => ToSet(s.nodes[j].extents) \subseteq others
      OBVIOUS
    <3> HIDE DEF others
    <3>2. others \cap (K \cup X) = {}
      <4>1. \A x \in others : x \in Owned(s) /\ x \notin O
        BY <1>23
      <4>2. \A x \in K : x \in O
        BY <1>7
      <4>3. \A x \in X : x \notin Owned(s)
        BY <1>5
      <4> QED BY <4>1, <4>2, <4>3
    <3> QED BY <3>1, <3>2
  <2> HIDE DEF others
  <2>2. \A i, j \in D : i # j => ToSet(s.nodes[i].extents) \cap ToSet(s.nodes[j].extents) = {}
    BY <1>1 DEF Unshared, Whole
  <2>3. ToSet(t.nodes[r.id].extents) = K \cup X
    BY <1>6, <1>21
  <2>4. \A j \in D : j # r.id => ToSet(t.nodes[j].extents) = ToSet(s.nodes[j].extents)
    BY <1>21
  <2>5. ASSUME NEW i \in D, NEW j \in D, i # j
        PROVE  ToSet(t.nodes[i].extents) \cap ToSet(t.nodes[j].extents) = {}
    <3>1. CASE i = r.id
      BY <2>1, <2>3, <2>4, <2>5, <3>1
    <3>2. CASE j = r.id
      BY <2>1, <2>3, <2>4, <2>5, <3>2
    <3>3. CASE i # r.id /\ j # r.id
      BY <2>2, <2>4, <2>5, <3>3
    <3> QED BY <3>1, <3>2, <3>3
  <2> QED BY <1>21, <2>5 DEF Unshared
<1> HIDE DEF others
<1>26. Split(Owned(t), t.avail, DOMAIN t.quar, t.total)
  <2>1. freed = O \ K
    BY DEF freed, O, K
  <2>2. Split(Owned(s), s.avail, DOMAIN s.quar, s.total)
    BY <1>1 DEF Whole
  <2>3. Owned(t) \cup freed = Owned(s) \cup X
    BY <1>7, <1>23, <1>24, <2>1
  <2>4. Owned(t) \cap freed = {} /\ freed \subseteq Owned(s)
    BY <1>5, <1>23, <1>24, <2>1
  <2>5. Owned(t) \cup t.avail \cup DOMAIN t.quar = 0 .. t.total - 1
    BY <1>5, <1>18, <1>19, <2>3
  <2>6. Owned(t) \cap t.avail = {} /\ Owned(t) \cap DOMAIN t.quar = {} /\ t.avail \cap DOMAIN t.quar = {}
    BY <1>5, <1>18, <1>19, <2>2, <2>3, <2>4 DEF Split
  <2> QED BY <2>5, <2>6 DEF Split
<1> QED BY <1>9, <1>20, <1>22, <1>25, <1>26 DEF Sound, Whole, t

\* The reducer takes what validateState accepts to what it accepts.
LEMMA ApplySound ==
    ASSUME NEW s \in Sound, NEW r \in Records, Admits(s, r)
    PROVE  Apply(s, r) \in Sound /\ SameStore(Apply(s, r), s)
<1>1. r.kind \in {"create", "remove", "resize", "rename", "reserve", "attributes"}
  BY DEF Records
<1>2. SameStore(Apply(s, r), s)
  BY ApplyKeeps, SoundIsState
<1>3. CASE r.kind = "create"
  BY <1>2, <1>3, CreateSound DEF Apply
<1>4. CASE r.kind = "remove"
  BY <1>2, <1>4, RemovalSound
<1>5. CASE r.kind = "resize"
  BY <1>2, <1>5, ResizeSound DEF Apply
<1>6. CASE r.kind = "rename"
  BY <1>2, <1>6, RenameSound DEF Apply
<1>7. CASE r.kind = "reserve"
  BY <1>2, <1>7, ReserveSound DEF Apply
<1>8. CASE r.kind = "attributes"
  BY <1>2, <1>8 DEF Apply
<1> QED BY <1>1, <1>3, <1>4, <1>5, <1>6, <1>7, <1>8

LEMMA InitialIsSound == InitialState \in Sound
<1> DEFINE s == InitialState
<1>1. s \in States
  BY InitialIsAState
<1>2. /\ DOMAIN s.nodes = {Root} /\ s.nodes[Root].extents = <<>> /\ s.next = 2 /\ s.total = 0
      /\ s.avail = {} /\ DOMAIN s.quar = {}
  BY DEF InitialState
<1> HIDE DEF s
<1>3. ToSet(<<>>) = {}
  BY DEF ToSet
<1>4. Owned(s) = {}
  BY <1>2, <1>3 DEF Owned
<1>5. Placed(s) /\ Numbered(s) /\ OneEach(s) /\ Unshared(s) /\ Tagged(s)
  BY <1>2 DEF Placed, Numbered, OneEach, Unshared, Tagged, Root
<1>6. Split(Owned(s), s.avail, DOMAIN s.quar, s.total)
  BY <1>2, <1>4 DEF Split
<1> QED BY <1>1, <1>5, <1>6 DEF Sound, Whole, s

\* Which file a state belongs to does not matter to the tree and the extents.
LEMMA DecodedSound ==
    ASSUME NEW second \in Slots, NEW s \in Sound
    PROVE  DecodedBy(second, s) \in Sound
<1> DEFINE t == DecodedBy(second, s)
<1>1. s \in States /\ Whole(s)
  BY DEF Sound
<1>2. t \in States
  BY <1>1, DecodedType
<1>3. /\ t.nodes = s.nodes /\ t.next = s.next /\ t.total = s.total /\ t.avail = s.avail
      /\ t.quar = s.quar /\ t.gen = s.gen
  <2>1. Shape(s)
    BY <1>1, StateShape
  <2> QED BY <2>1 DEF DecodedBy, Shape
<1> HIDE DEF t
<1>4. Owned(t) = Owned(s) /\ Dirs(t) = Dirs(s)
  BY <1>3 DEF Owned, Dirs
<1>5. Whole(t)
  BY <1>1, <1>3, <1>4 DEF Whole, Placed, Numbered, OneEach, Unshared, Tagged
<1> QED BY <1>2, <1>5 DEF Sound, t

\* What a state says of the two files' generations.
Retains(s) == s.retained[s.active] = s.gen /\ s.retained[Other(s.active)] \in {0, s.gen - 1}

\* Every tag a repack leaves is the new generation's: what was tagged before is
\* released, unless an orphan pins it.
LEMMA ProjectSound ==
    ASSUME NEW s \in Sound, Retains(s), NEW pinned
    PROVE  ProjectRepack(s, pinned) \in Sound /\ Retains(ProjectRepack(s, pinned))
<1> DEFINE p == ProjectRepack(s, pinned)
           rel == Released(s, pinned)
           free == s.avail \cup rel
           t == Trimmed(s.total, free)
           quar == [x \in DOMAIN s.quar \ rel |->
                        IF x \in pinned THEN 0 ELSE IF s.quar[x] = 0 THEN s.gen + 1 ELSE s.quar[x]]
           avail == {x \in free : x < t}
           q == DOMAIN s.quar
           o == Other(s.active)
<1>1. s \in States /\ Whole(s)
  BY DEF Sound
<1>2. /\ s.gen \in Nat /\ s.total \in Nat /\ s.active \in MetaNames /\ s.retained \in [MetaNames -> Nat]
      /\ s.quar \in [q -> Nat]
  BY <1>1, StateFacts
<1>3. p \in States /\ p.gen = s.gen + 1 /\ p.active = o /\ p.retained = [s.retained EXCEPT ![o] = s.gen + 1]
  BY <1>1, ProjectKeeps
<1>4. Retains(p)
  <2>1. o \in MetaNames /\ Other(o) = s.active /\ o # s.active
    BY <1>2 DEF Other, MetaNames
  <2> HIDE DEF o
  <2>2. p.retained[o] = p.gen /\ p.retained[s.active] = s.gen /\ p.gen - 1 = s.gen
    BY <1>2, <1>3, <2>1 DEF Retains
  <2> HIDE DEF p
  <2> QED BY <1>3, <2>1, <2>2 DEF Retains
<1>5. p.nodes = s.nodes /\ p.next = s.next /\ p.total = t /\ p.avail = avail /\ p.quar = quar
  <2>1. Shape(s)
    BY <1>1, StateShape
  <2>2. p = [s EXCEPT !.gen = s.gen + 1, !.active = o, !.retained = [s.retained EXCEPT ![o] = s.gen + 1],
                      !.quar = quar, !.avail = avail, !.total = t]
    BY DEF ProjectRepack
  <2> HIDE DEF p, quar, avail, t, o
  <2> QED BY <2>1, <2>2 DEF Shape
<1>6. rel \subseteq q /\ t \in 0 .. s.total /\ t .. (s.total - 1) \subseteq free
  BY <1>2, TrimmedIs DEF Released
<1>7. \A x \in q \ rel : x \in pinned \/ s.quar[x] = 0
  <2> SUFFICES ASSUME NEW x \in q, x \notin pinned, s.quar[x] # 0 PROVE x \in rel
    OBVIOUS
  <2>1. s.quar[x] = s.gen
    BY <1>1 DEF Whole, Tagged
  <2>2. s.retained[o] = 0 \/ s.retained[o] < s.quar[x]
    BY <1>2, <2>1 DEF Retains
  <2> QED BY <2>2 DEF Released
<1>8. DOMAIN quar = q \ rel /\ \A x \in q \ rel : quar[x] \in {0, s.gen + 1}
  BY <1>7
<1> HIDE DEF p, rel, t, quar, q, o
<1>9. Tagged(p)
  BY <1>3, <1>5, <1>8 DEF Tagged
<1>10. Owned(p) = Owned(s) /\ Dirs(p) = Dirs(s)
  BY <1>5 DEF Owned, Dirs
<1>11. Placed(p) /\ Numbered(p) /\ OneEach(p) /\ Unshared(p)
  BY <1>1, <1>5, <1>10 DEF Whole, Placed, Numbered, OneEach, Unshared
<1>12. Split(Owned(s), s.avail, q, s.total)
  BY <1>1 DEF Whole, q
<1>13. Split(Owned(p), p.avail, DOMAIN p.quar, p.total)
  <2>1. Owned(s) \cap free = {} /\ (q \ rel) \cap free = {} /\ Owned(s) \cap (q \ rel) = {}
    BY <1>6, <1>12 DEF Split
  <2>2. Owned(s) \cup free \cup (q \ rel) = 0 .. s.total - 1
    BY <1>6, <1>12 DEF Split
  <2> HIDE DEF free
  <2>3. \A x \in 0 .. s.total - 1 : x < t \/ x \in free
    BY <1>2, <1>6
  <2>4. Owned(s) \cup {x \in free : x < t} \cup (q \ rel) = 0 .. t - 1
    BY <1>2, <1>6, <2>1, <2>2, <2>3
  <2> QED BY <1>5, <1>8, <1>10, <2>1, <2>4 DEF Split
<1> QED BY <1>3, <1>4, <1>9, <1>11, <1>13 DEF Sound, Whole, p

-----------------------------------------------------------------------------
(***************************************************************************)
(* Sound bases: what the effects, a crash and replay make of them.         *)
(***************************************************************************)
SoundFile(F) ==
    /\ F.base.state \in Sound
    /\ \A k \in 1 .. Len(F.pending) : F.pending[k].op = "base" => F.pending[k].state \in Sound

\* Whatever becomes of an effect, the base is the old one, the new one or none.
LEMMA EffectSound ==
    ASSUME NEW base, base.state \in Sound, NEW e, e.op = "base" => e.state \in Sound, NEW outcome
    PROVE  EffectBase(base, e, outcome).state \in Sound
<1>1. NoBase.state \in Sound
  BY InitialIsSound DEF NoBase
<1>2. e.op = "base" => Base(e.state).state \in Sound
  BY DEF Base
<1> QED BY <1>1, <1>2 DEF EffectBase

LEMMA LeftSound ==
    ASSUME NEW file \in MetaFiles, SoundFile(file), NEW outcome
    PROVE  SoundFile(Left(file, outcome))
<1> DEFINE p == file.pending
           n == Len(p)
<1>1. PICK g : EffectRuns(file, outcome, g) /\ Left(file, outcome) = [g[n] EXCEPT !.pending = <<>>]
  BY LeftRuns
<1>2. n \in Nat /\ \A k \in 1 .. n : p[k] \in Effects /\ (p[k].op = "base" => p[k].state \in Sound)
  BY FileFacts DEF SoundFile
<1>3. /\ g \in [0 .. n -> MetaFiles] /\ g[0] = file
      /\ \A k \in 1 .. n : g[k] = Effect(g[k - 1], p[k], outcome[k])
  BY <1>1 DEF EffectRuns
<1> HIDE DEF p, n
<1> DEFINE D == {k \in Nat : k <= n => g[k].base.state \in Sound}
<1>4. 0 \in D
  BY <1>3 DEF SoundFile
<1>5. ASSUME NEW k \in Nat, k \in D PROVE k + 1 \in D
  <2> SUFFICES ASSUME k + 1 <= n PROVE g[k + 1].base.state \in Sound
    OBVIOUS
  <2>1. k + 1 \in 1 .. n /\ k \in 0 .. n /\ (k + 1) - 1 = k /\ g[k].base.state \in Sound
    BY <1>2, <1>5
  <2> DEFINE e == p[k + 1]
             out == outcome[k + 1]
             F == g[k]
  <2>2. F \in MetaFiles /\ e \in Effects /\ (e.op = "base" => e.state \in Sound) /\ F.base.state \in Sound
        /\ g[k + 1] = Effect(F, e, out)
    BY <1>2, <1>3, <2>1
  <2> HIDE DEF e, out, F
  <2>3. g[k + 1] = MetaFile(EffectBase(F.base, e, out), EffectLog(F.log, e, out), F.pending)
    BY <2>2, EffectKeeps
  <2>4. g[k + 1].base = EffectBase(F.base, e, out)
    BY <2>3, MetaFileParts
  <2> QED BY <2>2, <2>4, EffectSound
<1>6. \A k \in Nat : k \in D => k + 1 \in D
  BY <1>5
<1> HIDE DEF D
<1>7. n \in D
  BY <1>2, <1>4, <1>6, SetInduction
<1>8. g[n] \in MetaFiles /\ g[n].base.state \in Sound
  BY <1>2, <1>3, <1>7 DEF D
<1> DEFINE F == g[n]
<1> HIDE DEF F
<1>9. Left(file, outcome) = MetaFile(F.base, F.log, <<>>) /\ F.base.state \in Sound
  BY <1>1, <1>8, WithPending DEF F, n, p
<1>10. Left(file, outcome).base = F.base /\ Left(file, outcome).pending = <<>>
  BY <1>9, MetaFileParts
<1> QED BY <1>9, <1>10 DEF SoundFile

LEMMA ImageSound ==
    ASSUME NEW file \in MetaFiles, SoundFile(file)
    PROVE  SoundFile(Image(file))
  BY LeftSound DEF Image

\* More unflushed effects, of which those that write a base write a sound one.
LEMMA PendingSound ==
    ASSUME NEW file \in MetaFiles, SoundFile(file), NEW E, NEW q \in Seq(E),
           \A k \in 1 .. Len(q) : q[k].op = "base" => q[k].state \in Sound
    PROVE  SoundFile([file EXCEPT !.pending = file.pending \o q])
<1> DEFINE p == file.pending
           r == p \o q
<1>1. p \in Seq(Effects \cup E) /\ q \in Seq(Effects \cup E)
  BY FileFacts
<1>2. \A k \in 1 .. Len(p) : p[k].op = "base" => p[k].state \in Sound
  BY DEF SoundFile
<1>3. [file EXCEPT !.pending = r] = MetaFile(file.base, file.log, r)
  BY WithPending
<1> HIDE DEF p
<1>4. Len(p) \in Nat /\ Len(q) \in Nat /\ Len(r) = Len(p) + Len(q)
  BY <1>1
<1>5. ASSUME NEW k \in 1 .. Len(r) PROVE r[k].op = "base" => r[k].state \in Sound
  <2>1. CASE k <= Len(p)
    <3>1. k \in 1 .. Len(p) /\ r[k] = p[k]
      BY <1>1, <1>4, <2>1
    <3> QED BY <1>2, <3>1
  <2>2. CASE k > Len(p)
    <3>1. k - Len(p) \in 1 .. Len(q) /\ r[k] = q[k - Len(p)]
      BY <1>1, <1>4, <2>2
    <3> QED BY <3>1
  <2> QED BY <1>4, <2>1, <2>2
<1> HIDE DEF r
<1>6. [file EXCEPT !.pending = r].base = file.base /\ [file EXCEPT !.pending = r].pending = r
  BY <1>3, MetaFileParts
<1>7. SoundFile([file EXCEPT !.pending = r])
  BY <1>5, <1>6 DEF SoundFile
<1> QED BY <1>7 DEF r, p

\* Frames write no base.
LEMMA FramesSound ==
    ASSUME NEW file \in MetaFiles, SoundFile(file), NEW X, NEW frames \in Seq(X)
    PROVE  SoundFile([file EXCEPT !.pending = file.pending \o Appended(frames)])
<1> DEFINE q == Appended(frames)
           E == {FrameEffect(f) : f \in X}
<1>1. /\ q \in Seq(E) /\ Len(q) = Len(frames) /\ \A k \in 1 .. Len(frames) : q[k] = FrameEffect(frames[k])
  BY DEF Appended, FrameEffect
<1>2. \A k \in 1 .. Len(q) : q[k].op = "frame"
  BY <1>1 DEF FrameEffect
<1> HIDE DEF q, E
<1>3. SoundFile([file EXCEPT !.pending = file.pending \o q])
  BY <1>1, <1>2, PendingSound
<1> QED BY <1>3 DEF q

\* Replay takes a sound state to a sound state: it applies what it admits.
LEMMA ReachSound ==
    ASSUME NEW L \in Logs, NEW s \in Sound, NEW r, Reaches(L, s, r)
    PROVE  r.s \in Sound
<1>1. PICK n \in Nat : \E g : Chain(L, s, n, g) /\ g[n] = r
  BY DEF Reaches
<1>2. PICK g : Chain(L, s, n, g) /\ g[n] = r
  BY <1>1
<1> DEFINE D == {k \in Nat : k <= n => g[k].s \in Sound}
<1>3. 0 \in D
  BY <1>2 DEF Chain, Start
<1>4. ASSUME NEW k \in Nat, k \in D PROVE k + 1 \in D
  <2> SUFFICES ASSUME k + 1 <= n PROVE g[k + 1].s \in Sound
    OBVIOUS
  <2>1. k + 1 \in 1 .. n /\ (k + 1) - 1 = k /\ g[k].s \in Sound
    BY <1>1, <1>4
  <2>2. PICK f \in L : f \in Frames /\ InTurn(g[k], f) /\ g[k + 1] = After(g[k], f)
    <3>1. \A j \in 1 .. n : \E f \in L : InTurn(g[j - 1], f) /\ g[j] = After(g[j - 1], f)
      BY <1>2 DEF Chain
    <3>2. L \subseteq Frames
      BY DEF Logs
    <3> QED BY <2>1, <3>1, <3>2
  <2>3. f.rec \in Records /\ Admits(g[k].s, f.rec)
    BY <2>2, FrameTakesRoom DEF InTurn
  <2>4. g[k + 1].s = Apply(g[k].s, f.rec)
    BY <2>2 DEF After
  <2> QED BY <2>1, <2>3, <2>4, ApplySound
<1>5. \A k \in Nat : k \in D => k + 1 \in D
  BY <1>4
<1> HIDE DEF D
<1>6. n \in D
  BY <1>3, <1>5, SetInduction
<1> QED BY <1>2, <1>6 DEF D

\* A file whose base is sound replays to a sound state of the same store.
LEMMA ReplaySound ==
    ASSUME NEW file \in MetaFiles, NEW s \in Sound
    PROVE  Replay(file, s).s \in Sound /\ SameStore(Replay(file, s).s, s)
<1>1. file.log \in Logs /\ s \in States
  BY FileFacts, SoundIsState
<1>2. PICK R : Reaches(file.log, s, R) /\ Stalled(file.log, R)
  BY <1>1, ReachEnds
<1>3. Replay(file, s) = R
  BY <1>1, <1>2, ReachReplay
<1>4. SameStore(R.s, s)
  BY <1>1, <1>2, ReachFacts
<1>5. R.s \in Sound
  BY <1>1, <1>2, ReachSound
<1> QED BY <1>3, <1>4, <1>5

\* What validateState asks is what Sound and Retains say.
LEMMA WellFormedIs ==
    ASSUME NEW s \in Sound, Retains(s)
    PROVE  WellFormed(s)
<1>1. s \in States /\ Whole(s)
  BY DEF Sound
<1>2. \A i \in DOMAIN s.nodes \ {Root} : s.nodes[i].parent \in Dirs(s) /\ i < s.next
  BY <1>1 DEF Whole, Placed, Numbered
<1>3. \A i, j \in DOMAIN s.nodes :
         i # j => <<s.nodes[i].parent, s.nodes[i].name>> # <<s.nodes[j].parent, s.nodes[j].name>>
  BY <1>1 DEF Whole, OneEach
<1>4. \A i \in DOMAIN s.nodes : Len(s.nodes[i].extents) = CountFor(s.nodes[i].size)
  BY <1>1, StateFacts
<1>5. \A i, j \in DOMAIN s.nodes :
         i # j => ToSet(s.nodes[i].extents) \cap ToSet(s.nodes[j].extents) = {}
  BY <1>1 DEF Whole, Unshared
<1>6. /\ Owned(s) \cup s.avail \cup DOMAIN s.quar = 0 .. (s.total - 1)
      /\ Owned(s) \cap s.avail = {} /\ Owned(s) \cap DOMAIN s.quar = {} /\ s.avail \cap DOMAIN s.quar = {}
  BY <1>1 DEF Whole, Split
<1>7. \A x \in DOMAIN s.quar : s.quar[x] \in {0, s.gen}
  BY <1>1 DEF Whole, Tagged
<1> QED BY <1>2, <1>3, <1>4, <1>5, <1>6, <1>7 DEF WellFormed, Retains

LEMMA RetainsKept ==
    ASSUME NEW s, NEW t, SameStore(t, s), Retains(s)
    PROVE  Retains(t)
  BY DEF SameStore, Retains

LEMMA InitialRetains == Retains(InitialState)
  BY DEF Retains, InitialState, Other

\* A record takes away no file but the one it removes or replaces.
Taken(s, r) ==
    IF r.kind = "remove" THEN Entry(s, r.parent, r.name)
    ELSE IF r.kind = "rename" THEN Entry(s, r.newParent, r.newName)
    ELSE {}

LEMMA FilesStay ==
    ASSUME NEW s \in Sound, NEW r \in Records, Admits(s, r), NEW i \in Files(s), i \notin Taken(s, r)
    PROVE  i \in Files(Apply(s, r))
<1>1. s \in States /\ i \in DOMAIN s.nodes /\ s.nodes[i].kind = "file" /\ s.nodes \in [DOMAIN s.nodes -> Node]
  BY StateFacts DEF Sound, Files
<1>2. CASE r.kind = "create"
  <2> DEFINE node == [kind |-> r.what, parent |-> r.parent, name |-> r.name, size |-> r.size,
                      extents |-> r.extents, owner |-> r.name]
             m == [j \in DOMAIN s.nodes \cup {r.id} |-> IF j = r.id THEN node ELSE s.nodes[j]]
             a == Allocate(s, r.extents)
  <2>1. r.id = s.next /\ r.extents \in Seq(Nat)
    BY <1>2 DEF Admits, AdmitsCreate, Records
  <2>2. i # r.id
    <3>1. i \in Nat /\ s.next \in Nat
      BY <1>1, StateFacts
    <3>2. i < s.next
      BY <1>1 DEF Sound, Whole, Numbered
    <3> QED BY <2>1, <3>1, <3>2
  <2>3. a \in States /\ a.nodes = s.nodes
    BY <1>1, <2>1, AllocateKeeps
  <2>4. Apply(s, r).nodes = m
    <3> HIDE DEF a, node
    <3>1. Apply(s, r) = [a EXCEPT !.next = @ + 1,
                            !.nodes = [j \in DOMAIN @ \cup {r.id} |-> IF j = r.id THEN node ELSE @[j]]]
      BY <1>2 DEF Apply, ApplyCreate, a, node
    <3>2. Shape(a)
      BY <2>3, StateShape
    <3>3. Apply(s, r) = [a EXCEPT !.next = a.next + 1, !.nodes = m]
      BY <2>3, <3>1
    <3> HIDE DEF m
    <3> QED BY <3>2, <3>3 DEF Shape
  <2>5. m[i] = s.nodes[i] /\ i \in DOMAIN m
    BY <1>1, <2>2
  <2> HIDE DEF m
  <2> QED BY <1>1, <2>4, <2>5 DEF Files
<1>3. CASE r.kind = "remove"
  <2>1. PICK j \in Entry(s, r.parent, r.name) : TRUE
    BY <1>3 DEF Admits, AdmitsRemoval
  <2>2. j \in DOMAIN s.nodes /\ Apply(s, r) = Removed(s, j) /\ i # j
    <3>1. j \in DOMAIN s.nodes /\ (CHOOSE k \in Entry(s, r.parent, r.name) : TRUE) = j
      BY OneEntry
    <3>2. Apply(s, r) = Removed(s, CHOOSE k \in Entry(s, r.parent, r.name) : TRUE)
      BY <1>3 DEF Apply
    <3> QED BY <1>3, <2>1, <3>1, <3>2 DEF Taken
  <2>3. DOMAIN Removed(s, j).nodes = DOMAIN s.nodes \ {j}
        /\ \A k \in DOMAIN Removed(s, j).nodes : Removed(s, j).nodes[k] = s.nodes[k]
    BY <1>1, <2>2, RemovedIs
  <2> QED BY <1>1, <2>2, <2>3 DEF Files
<1>4. CASE r.kind = "rename"
  <2> DEFINE over == Entry(s, r.newParent, r.newName)
             t == IF over = {} THEN s ELSE Removed(s, CHOOSE j \in over : TRUE)
             k == CHOOSE j \in Entry(s, r.parent, r.name) : TRUE
  <2>1. t \in States /\ i \in DOMAIN t.nodes /\ t.nodes[i] = s.nodes[i]
    <3>1. CASE over = {}
      <4>1. t = s
        BY <3>1
      <4> QED BY <1>1, <4>1
    <3>2. CASE over # {}
      <4>1. PICK j \in over : TRUE
        BY <3>2
      <4>2. j \in DOMAIN s.nodes /\ t = Removed(s, j) /\ j # i
        <5>1. j \in DOMAIN s.nodes /\ (CHOOSE h \in over : TRUE) = j
          BY <4>1, OneEntry
        <5>2. i \notin over
          BY <1>4 DEF Taken
        <5> HIDE DEF over
        <5> QED BY <3>2, <4>1, <5>1, <5>2
      <4> HIDE DEF t, over
      <4> QED BY <1>1, <4>2, RemovedIs
    <3> QED BY <3>1, <3>2
  <2>2. Apply(s, r) = [t EXCEPT !.nodes[k].parent = r.newParent, !.nodes[k].name = r.newName]
    BY <1>4 DEF Apply, ApplyRename
  <2> HIDE DEF t, k, over
  <2> DEFINE node == [t.nodes[k] EXCEPT !.parent = r.newParent, !.name = r.newName]
             m == [t.nodes EXCEPT ![k] = node]
  <2>3. t.nodes \in [DOMAIN t.nodes -> Node]
    BY <2>1, StateFacts
  <2>4. Apply(s, r).nodes = [[t.nodes EXCEPT ![k].parent = r.newParent] EXCEPT ![k].name = r.newName]
    <3>1. Shape(t)
      BY <2>1, StateShape
    <3> QED BY <2>2, <3>1 DEF Shape
  <2>5. i \in DOMAIN Apply(s, r).nodes /\ Apply(s, r).nodes[i].kind = t.nodes[i].kind
    <3>1. t.nodes[i] \in Node
      BY <2>1, <2>3
    <3> QED BY <2>1, <2>3, <2>4, <3>1 DEF Node
  <2> QED BY <1>1, <2>1, <2>5 DEF Files
<1>5. CASE r.kind = "resize"
  <2> DEFINE a == Allocate(s, r.extents)
             old == s.nodes[r.id].extents
             kept == SubSeq(old, 1, IF CountFor(r.size) < Len(old) THEN CountFor(r.size) ELSE Len(old))
             xs == kept \o r.extents
             freed == ToSet(old) \ ToSet(kept)
             b == [a EXCEPT !.nodes[r.id].size = r.size, !.nodes[r.id].extents = xs]
  <2>1. /\ r.id \in DOMAIN s.nodes /\ r.extents \in Seq(Nat) /\ old \in Seq(Nat) /\ r.size \in Nat
        /\ xs \in Seq(Nat) /\ Len(xs) = CountFor(r.size)
    BY <1>1, <1>5, ResizeParts
  <2>2. Apply(s, r) = Quarantine(b, freed)
    BY <1>5 DEF Apply, ApplyResize
  <2>3. a \in States /\ a.nodes = s.nodes
    BY <1>1, <2>1, AllocateKeeps
  <2> HIDE DEF a, xs, kept
  <2> DEFINE node == [s.nodes[r.id] EXCEPT !.size = r.size, !.extents = xs]
             m == [s.nodes EXCEPT ![r.id] = node]
  <2>4. b = [a EXCEPT !.nodes = m]
    BY <1>1, <2>1, <2>3, StateShape DEF Shape
  <2>5. node \in Node /\ node.kind = s.nodes[r.id].kind /\ node.size = r.size /\ node.extents = xs
    BY <1>1, <2>1 DEF Node
  <2> HIDE DEF node, b
  <2>6. m \in [DOMAIN s.nodes -> Node] /\ m[r.id] = node /\ \A j \in DOMAIN s.nodes : j # r.id => m[j] = s.nodes[j]
    BY <1>1, <2>1, <2>5
  <2> HIDE DEF m
  <2>7. \A j \in DOMAIN s.nodes : Len(m[j].extents) = CountFor(m[j].size)
    <3>1. \A j \in DOMAIN s.nodes : Len(s.nodes[j].extents) = CountFor(s.nodes[j].size)
      BY <1>1, StateFacts
    <3>2. Len(m[r.id].extents) = CountFor(m[r.id].size)
      BY <2>1, <2>5, <2>6
    <3> QED BY <2>6, <3>1, <3>2
  <2>8. b \in States /\ b.nodes = m
    <3> DEFINE D == DOMAIN s.nodes
    <3>1. D \in SUBSET (Nat \ {0}) /\ m \in [D -> Node] /\ a \in States
          /\ \A j \in D : Len(m[j].extents) = CountFor(m[j].size)
      BY <1>1, <2>3, <2>6, <2>7, StateFacts
    <3> HIDE DEF D
    <3>2. [a EXCEPT !.nodes = m] \in States /\ [a EXCEPT !.nodes = m].nodes = m
      BY <3>1, NodesKept
    <3> QED BY <2>4, <3>2
  <2>9. freed \in SUBSET Nat
    BY <2>1, ExtentSet
  <2> HIDE DEF freed, old
  <2>10. Apply(s, r).nodes = m
    BY <2>2, <2>8, <2>9, QuarantineKeeps
  <2>11. i \in DOMAIN m /\ m[i].kind = "file"
    BY <1>1, <2>5, <2>6
  <2> QED BY <2>10, <2>11 DEF Files
<1>6. CASE r.kind = "reserve"
  <2>1. r.extents \in Seq(Nat)
    BY <1>6 DEF Records
  <2>2. Allocate(s, r.extents) \in States /\ Allocate(s, r.extents).nodes = s.nodes /\ ToSet(r.extents) \in SUBSET Nat
    BY <1>1, <2>1, AllocateKeeps, ExtentSet
  <2>3. Apply(s, r) = Quarantine(Allocate(s, r.extents), ToSet(r.extents))
    BY <1>6 DEF Apply, ApplyReserve
  <2>4. Apply(s, r).nodes = s.nodes
    BY <2>2, <2>3, QuarantineKeeps
  <2> QED BY <1>1, <2>4 DEF Files
<1>7. CASE r.kind = "attributes"
  BY <1>7 DEF Apply
<1>8. r.kind \in {"create", "remove", "resize", "rename", "reserve", "attributes"}
  BY DEF Records
<1> QED BY <1>2, <1>3, <1>4, <1>5, <1>6, <1>7, <1>8

\* A repack moves no file.
LEMMA ProjectFiles ==
    ASSUME NEW s \in States, NEW pinned
    PROVE  Files(ProjectRepack(s, pinned)) = Files(s)
<1>1. Shape(s)
  BY StateShape
<1>2. ProjectRepack(s, pinned).nodes = s.nodes
  BY <1>1 DEF ProjectRepack, Shape
<1> QED BY <1>2 DEF Files

-----------------------------------------------------------------------------
(***************************************************************************)
(* What the store keeps: a sound live state, sound bases in both files,    *)
(* slots that name the generation their turn stands for, descriptors on    *)
(* files that are there.                                                   *)
(***************************************************************************)
StatusOK == status \in {"down", "open", "failed", "corrupt"}
LiveSound == st \in Sound /\ Retains(st)
MetaSound == \A f \in MetaNames : SoundFile(meta[f])
SlotGens == \A i \in {0, 1} : \A v \in slots[i].maybe : v.gen = v.seq
FdsOK == \A d \in FDs : fds[d].on > 0 => fds[d].on \in Files(st)
SoundInv == StatusOK /\ LiveSound /\ MetaSound /\ SlotGens /\ FdsOK

LEMMA SoundTypes == LogInv /\ SoundInv => TypeOK
<1> SUFFICES ASSUME LogInv, SoundInv PROVE TypeOK
  OBVIOUS
<1>1. WellFormed(st)
  BY WellFormedIs DEF SoundInv, LiveSound
<1> QED BY <1>1 DEF TypeOK, SoundInv, StatusOK, FdsOK, LogInv, Typed

\* One file changes.
LEMMA MetaSet ==
    ASSUME meta \in [MetaNames -> MetaFiles], MetaSound, NEW name \in MetaNames, NEW new, SoundFile(new),
           meta' = [meta EXCEPT ![name] = new]
    PROVE  MetaSound'
<1>1. \A f \in MetaNames : meta'[f] = IF f = name THEN new ELSE meta[f]
  OBVIOUS
<1> SUFFICES ASSUME NEW f \in MetaNames PROVE SoundFile(meta'[f])
  BY DEF MetaSound
<1>2. SoundFile(meta[f])
  BY DEF MetaSound
<1>3. CASE f = name
  BY <1>1, <1>3
<1>4. CASE f # name
  BY <1>1, <1>2, <1>4
<1> QED BY <1>3, <1>4

LEMMA DueListed ==
    ASSUME NEW f
    PROVE  \E X : Due \in Seq(X) /\ Append(Due, f) \in Seq(X)
<1> DEFINE e == Frame(log.pend.rec, log.end, log.pend.seq)
           X == {e, f}
<1>1. Due = <<>> \/ Due = <<e>>
  BY DEF Due
<1>2. e \in X /\ f \in X
  OBVIOUS
<1> HIDE DEF e, X
<1>3. <<>> \in Seq(X) /\ <<e>> \in Seq(X)
  BY <1>2
<1>4. Due \in Seq(X)
  BY <1>1, <1>3
<1> DEFINE due == Due
<1> HIDE DEF due
<1>5. Append(due, f) \in Seq(X)
  <2>1. due \in Seq(X)
    BY <1>4 DEF due
  <2> QED BY <1>2, <2>1
<1> QED BY <1>4, <1>5 DEF due

LEMMA AppendSound ==
    ASSUME meta \in [MetaNames -> MetaFiles], MetaSound, st.active \in MetaNames,
           NEW X, NEW frames \in Seq(X), Append2Log(frames)
    PROVE  MetaSound'
<1> DEFINE file == meta[st.active]
           new == [file EXCEPT !.pending = file.pending \o Appended(frames)]
<1>1. file \in MetaFiles /\ SoundFile(file)
  BY DEF MetaSound
<1>2. SoundFile(new)
  <2> HIDE DEF file
  <2> QED BY <1>1, FramesSound
<1>3. meta' = [meta EXCEPT ![st.active] = new]
  BY DEF Append2Log
<1> HIDE DEF new
<1> QED BY <1>2, <1>3, MetaSet

LEMMA CommitSound ==
    ASSUME Typed, MetaSound, LiveSound, NEW r \in Records, Admits(st, r), Commit(r)
    PROVE  MetaSound' /\ LiveSound'
<1>1. meta \in [MetaNames -> MetaFiles] /\ st.active \in MetaNames
  BY StateFacts DEF Typed
<1>2. LiveSound'
  <2>1. st' = Apply(st, r)
    BY DEF Commit
  <2>2. Apply(st, r) \in Sound /\ SameStore(Apply(st, r), st)
    BY ApplySound DEF LiveSound
  <2>3. Retains(st')
    BY <2>1, <2>2, RetainsKept DEF LiveSound
  <2> QED BY <2>1, <2>2, <2>3 DEF LiveSound
<1> DEFINE f == Frame(r, EndAfter(Due), log.next)
<1>3. PICK X : Due \in Seq(X) /\ Append(Due, f) \in Seq(X)
  BY DueListed
<1>4. meta' = meta \/ Append2Log(Due) \/ Append2Log(Append(Due, f))
  BY DEF Commit
<1> HIDE DEF f
<1>5. MetaSound'
  <2>1. CASE meta' = meta
    BY <2>1 DEF MetaSound
  <2>2. CASE Append2Log(Due)
    BY <1>1, <1>3, <2>2, AppendSound
  <2>3. CASE Append2Log(Append(Due, f))
    BY <1>1, <1>3, <2>3, AppendSound
  <2> QED BY <1>4, <2>1, <2>2, <2>3
<1> QED BY <1>2, <1>5

\* The slots.
LEMMA SlotsKeepGens ==
    ASSUME SlotsOK, SlotGens
    PROVE  /\ Selected.gen = Selected.seq /\ Second.gen = Second.seq
           /\ slots' = slots => SlotGens'
           /\ slots' = [i \in {0, 1} |-> Sure(slots[i].now)] => SlotGens'
<1>1. \A i \in {0, 1} : slots[i].now.gen = slots[i].now.seq
  BY DEF SlotsOK, SlotGens
<1>2. Selected.gen = Selected.seq /\ Second.gen = Second.seq
  BY <1>1 DEF Selected, Second
<1>3. slots' = slots => SlotGens'
  BY DEF SlotGens
<1>4. ASSUME slots' = [i \in {0, 1} |-> Sure(slots[i].now)] PROVE SlotGens'
  <2>1. \A i \in {0, 1} : slots'[i].maybe = {slots[i].now}
    BY <1>4 DEF Sure
  <2> QED BY <1>1, <2>1 DEF SlotGens
<1> QED BY <1>2, <1>3, <1>4

\* The descriptors.
LEMMA FdsClosed == fds' = Closed => FdsOK'
  BY DEF FdsOK, Closed, NotOpen

LEMMA FdsStay ==
    ASSUME st \in Sound, FdsOK, NEW r \in Records, Admits(st, r), st' = Apply(st, r),
           \A d \in FDs : fds'[d].on > 0 => fds'[d].on = fds[d].on /\ fds[d].on \notin Taken(st, r)
    PROVE  FdsOK'
<1> SUFFICES ASSUME NEW d \in FDs, fds'[d].on > 0 PROVE fds'[d].on \in Files(st')
  BY DEF FdsOK
<1> DEFINE i == fds[d].on
<1>1. fds'[d].on = i /\ i \in Files(st) /\ i \notin Taken(st, r)
  BY DEF FdsOK
<1>2. i \in Files(Apply(st, r))
  <2> HIDE DEF i
  <2> QED BY <1>1, FilesStay
<1> QED BY <1>1, <1>2

LEMMA OrphanedFds ==
    ASSUME NEW I, Orphaned(I), NEW d \in FDs, fds'[d].on > 0
    PROVE  fds'[d].on = fds[d].on /\ fds[d].on \notin I
<1>1. CASE fds[d].on \in I
  <2>1. fds'[d].on = -1
    BY <1>1 DEF Orphaned, Orphan
  <2> QED BY <2>1
<1>2. CASE fds[d].on \notin I
  BY <1>2 DEF Orphaned
<1> QED BY <1>1, <1>2

\* A call commits an admitted record, or changes the metadata not at all.
LEMMA CallSound ==
    ASSUME LogInv, SoundInv, status' = status, slots' = slots, FdsOK',
           Recorded \/ (meta' = meta /\ st' = st)
    PROVE  SoundInv'
<1>1. Typed /\ SlotsOK
  BY DEF LogInv, Typed
<1>2. StatusOK' /\ SlotGens'
  BY <1>1, SlotsKeepGens DEF SoundInv, StatusOK
<1>3. CASE Recorded
  <2>1. PICK r \in Records : Admits(st, r) /\ Commit(r)
    BY <1>3 DEF Recorded
  <2>2. MetaSound' /\ LiveSound'
    BY <1>1, <2>1, CommitSound DEF SoundInv
  <2> QED BY <1>2, <2>2 DEF SoundInv
<1>4. CASE meta' = meta /\ st' = st
  BY <1>2, <1>4 DEF SoundInv, MetaSound, LiveSound
<1> QED BY <1>3, <1>4

-----------------------------------------------------------------------------
(***************************************************************************)
(* Opening, bootstrap, crashes.                                            *)
(***************************************************************************)
LEMMA SoundInvInit == Init => SoundInv
<1> SUFFICES ASSUME Init PROVE SoundInv
  OBVIOUS
<1>1. status = "down" /\ st = InitialState /\ fds = Closed /\ slots = [i \in {0, 1} |-> Sure(NoSlot)]
      /\ meta = [f \in {"a", "b"} |-> EmptyFile]
  BY DEF Init
<1>2. StatusOK /\ LiveSound
  BY <1>1, InitialIsSound, InitialRetains DEF StatusOK, LiveSound
<1>3. SoundFile(EmptyFile)
  <2>1. EmptyFile.base = NoBase /\ EmptyFile.pending = <<>>
    BY DEF EmptyFile
  <2>2. NoBase.state \in Sound
    BY InitialIsSound DEF NoBase
  <2> QED BY <2>1, <2>2 DEF SoundFile
<1>4. MetaSound
  BY <1>1, <1>3 DEF MetaSound, MetaNames
<1>5. SlotGens
  <2>1. \A i \in {0, 1} : slots[i].maybe = {NoSlot}
    BY <1>1 DEF Sure
  <2> QED BY <2>1 DEF SlotGens, NoSlot
<1>6. FdsOK
  BY <1>1 DEF FdsOK, Closed, NotOpen
<1> QED BY <1>2, <1>3, <1>4, <1>5, <1>6 DEF SoundInv

\* Recovery: the base is sound, and so is what replay makes of it.
LEMMA RecoverSound ==
    ASSUME LogInv, SoundInv, Selected.seq > 0, PairIsSound, BaseMatches, RecoverActivated
    PROVE  SoundInv'
<1> DEFINE name == Selected.file
           old == meta[name]
           file == Image(old)
           b == file.base.state
           s0 == DecodedBy(Second, b)
<1>1. SlotsOK /\ Selected \in Slots /\ Second \in Slots /\ Selected.gen = Selected.seq /\ Second.gen = Second.seq
  BY SlotFacts, SlotsKeepGens DEF LogInv, Typed, SoundInv
<1>2. name \in MetaNames /\ meta \in [MetaNames -> MetaFiles] /\ MetaSound
  BY <1>1 DEF Slots, LogInv, Typed, SoundInv
<1>3. old \in MetaFiles /\ SoundFile(old)
  BY <1>2 DEF MetaSound
<1>4. file \in MetaFiles /\ b \in Sound
  <2> HIDE DEF old
  <2>1. file \in MetaFiles /\ SoundFile(file)
    BY <1>3, ImageKeeps, ImageSound
  <2> QED BY <2>1 DEF SoundFile
<1>5. b.gen = Selected.gen /\ b.active = name
  BY DEF BaseMatches
<1>6. Decoded(b) = s0
  BY DecodedIs
<1>7. PairIsSound
  OBVIOUS
<1> HIDE DEF b, file, old
<1>8. s0 \in Sound
  BY <1>1, <1>4, DecodedSound
<1>9. Retains(s0)
  <2> DEFINE R == [f \in {"a", "b"} |->
                IF f = b.active THEN b.gen ELSE IF Second.seq > 0 /\ Second.file = f THEN Second.gen ELSE 0]
             o == Other(name)
  <2>1. b \in States
    BY <1>4, SoundIsState
  <2>2. s0.gen = b.gen /\ s0.active = b.active /\ s0.retained = R
    <3> HIDE DEF R
    <3>1. s0 = [b EXCEPT !.retained = R]
      BY DEF DecodedBy, R
    <3> QED BY <2>1, <3>1, StateShape DEF Shape
  <2>3. o \in {"a", "b"} /\ o # name /\ name \in {"a", "b"}
    BY <1>2 DEF Other, MetaNames
  <2>4. R[name] = b.gen /\ R[o] = IF Second.seq > 0 /\ Second.file = o THEN Second.gen ELSE 0
    BY <1>5, <2>3
  <2>5. Second.seq = 0 \/ Selected.seq = Second.seq + 1
    BY <1>7 DEF PairIsSound
  <2>6. Second.seq \in Nat /\ Selected.seq \in Nat
    BY <1>1 DEF Slots
  <2> HIDE DEF R, o, name, s0
  <2>7. R[o] \in {0, b.gen - 1}
    BY <1>1, <1>5, <2>4, <2>5, <2>6
  <2> QED BY <1>5, <2>2, <2>4, <2>7 DEF Retains, o
<1>10. Replay(file, s0).s \in Sound /\ SameStore(Replay(file, s0).s, s0)
  BY <1>4, <1>8, ReplaySound
<1> DEFINE r == Replay(file, s0)
           suffix == {f \in file.log : f.at >= r.at}
           cut == [op |-> "cut", at |-> r.at]
<1>11. /\ status' = "open" /\ st' = r.s /\ fds' = Closed /\ slots' = slots
       /\ meta' = IF suffix = {} THEN meta ELSE [meta EXCEPT ![name].pending = Append(@, cut)]
  BY <1>6 DEF RecoverActivated, file, old, b
<1>12. LiveSound'
  BY <1>9, <1>10, <1>11, RetainsKept DEF LiveSound
<1>13. MetaSound'
  <2>1. CASE meta' = meta
    BY <1>2, <2>1 DEF MetaSound
  <2>2. CASE meta' # meta
    <3> DEFINE p == old.pending
               new == [old EXCEPT !.pending = p \o <<cut>>]
    <3>1. old.pending \in Seq(Effects)
      BY <1>3, FileFacts
    <3> HIDE DEF cut
    <3>2. Append(p, cut) = p \o <<cut>>
      BY <3>1, AppendIsConcat
    <3>3. <<cut>> \in Seq({cut}) /\ Len(<<cut>>) = 1 /\ <<cut>>[1] = cut /\ cut.op = "cut"
      BY DEF cut
    <3>4. SoundFile(new)
      <4>1. \A k \in 1 .. Len(<<cut>>) : <<cut>>[k].op = "base" => <<cut>>[k].state \in Sound
        BY <3>3
      <4> QED BY <1>3, <3>3, <4>1, PendingSound
    <3>5. meta' = [meta EXCEPT ![name] = new]
      <4>1. meta' = [meta EXCEPT ![name].pending = Append(@, cut)]
        BY <1>11, <2>2
      <4>2. meta' = [meta EXCEPT ![name] = [old EXCEPT !.pending = Append(p, cut)]]
        BY <1>2, <4>1 DEF old
      <4> QED BY <3>2, <4>2
    <3> HIDE DEF new, name
    <3> QED BY <1>2, <3>4, <3>5, MetaSet
  <2> QED BY <2>1, <2>2
<1>14. StatusOK' /\ SlotGens' /\ FdsOK'
  BY <1>1, <1>11, SlotsKeepGens, FdsClosed DEF StatusOK, SoundInv
<1> QED BY <1>12, <1>13, <1>14 DEF SoundInv

LEMMA BootstrapSound ==
    ASSUME LogInv, SoundInv, BootstrapWrites
    PROVE  SoundInv'
<1> DEFINE first == [seq |-> 1, file |-> "a", gen |-> 1]
           reset == [op |-> "reset"]
           fb == meta["b"]
<1>1. /\ slots' = [slots EXCEPT ![0] = Put(@, first)] /\ status' = status
      /\ st' = st /\ fds' = fds
      /\ meta'["a"] = [EmptyFile EXCEPT !.base = Base(InitialState)]
      /\ meta'["b"] = IF fb = EmptyFile THEN EmptyFile ELSE [fb EXCEPT !.pending = Append(@, reset)]
  BY DEF BootstrapWrites
<1>2. fb \in MetaFiles /\ SoundFile(fb)
  BY DEF LogInv, Typed, MetaNames, SoundInv, MetaSound
<1> HIDE DEF fb
<1>3. SoundFile(meta'["a"])
  <2>1. meta'["a"] = MetaFile(Base(InitialState), {}, <<>>)
    BY <1>1, FirstBase
  <2>2. meta'["a"].base = Base(InitialState) /\ meta'["a"].pending = <<>>
    BY <2>1, MetaFileParts
  <2>3. Base(InitialState).state \in Sound
    BY InitialIsSound DEF Base
  <2> QED BY <2>2, <2>3 DEF SoundFile
<1>4. SoundFile(meta'["b"])
  <2>1. CASE fb = EmptyFile
    BY <1>1, <1>2, <2>1
  <2>2. CASE fb # EmptyFile
    <3> DEFINE p == fb.pending
    <3>1. fb.pending \in Seq(Effects)
      BY <1>2, FileFacts
    <3> HIDE DEF reset
    <3>2. Append(p, reset) = p \o <<reset>>
      BY <3>1, AppendIsConcat
    <3>3. <<reset>> \in Seq({reset}) /\ Len(<<reset>>) = 1 /\ <<reset>>[1] = reset /\ reset.op = "reset"
      BY DEF reset
    <3>4. SoundFile([fb EXCEPT !.pending = p \o <<reset>>])
      <4>1. \A k \in 1 .. Len(<<reset>>) : <<reset>>[k].op = "base" => <<reset>>[k].state \in Sound
        BY <3>3
      <4> QED BY <1>2, <3>3, <4>1, PendingSound
    <3>5. meta'["b"] = [fb EXCEPT !.pending = Append(p, reset)]
      BY <1>1, <2>2
    <3> QED BY <3>2, <3>4, <3>5
  <2> QED BY <2>1, <2>2
<1>5. MetaSound'
  BY <1>3, <1>4 DEF MetaSound, MetaNames
<1>6. SlotGens'
  <2>1. SlotsOK /\ SlotGens
    BY DEF LogInv, Typed, SoundInv
  <2>2. slots'[0].maybe = slots[0].maybe \cup {first} /\ slots'[1] = slots[1]
    BY <1>1, <2>1 DEF Put, SlotsOK
  <2> QED BY <2>1, <2>2 DEF SlotGens
<1>7. StatusOK' /\ LiveSound' /\ FdsOK'
  BY <1>1 DEF SoundInv, StatusOK, LiveSound, FdsOK
<1> QED BY <1>5, <1>6, <1>7 DEF SoundInv

LEMMA OpenSound == ASSUME LogInv, SoundInv, Open PROVE SoundInv'
<1>1. ASSUME Refuse PROVE SoundInv'
  BY <1>1 DEF Refuse, SoundInv, StatusOK, LiveSound, MetaSound, SlotGens, FdsOK
<1> QED BY <1>1, RecoverSound, BootstrapSound DEF Open

LEMMA BootstrapFlushesSound == ASSUME LogInv, SoundInv, BootstrapFlushes PROVE SoundInv'
<1>1. /\ slots' = [i \in {0, 1} |-> Sure(slots[i].now)] /\ status' = "open" /\ st' = InitialState
      /\ fds' = Closed /\ meta' = meta
  BY DEF BootstrapFlushes
<1>2. StatusOK' /\ LiveSound' /\ FdsOK'
  BY <1>1, InitialIsSound, InitialRetains, FdsClosed DEF StatusOK, LiveSound
<1>3. MetaSound'
  BY <1>1 DEF MetaSound, SoundInv
<1>4. SlotGens'
  BY <1>1, SlotsKeepGens DEF LogInv, Typed, SoundInv
<1> QED BY <1>2, <1>3, <1>4 DEF SoundInv

LEMMA CrashSound == ASSUME LogInv, SoundInv, Crash PROVE SoundInv'
<1>1. status' = "down" /\ st' = InitialState /\ fds' = Closed
  BY DEF Crash, Gone
<1>2. /\ meta["a"] \in MetaFiles /\ meta["b"] \in MetaFiles /\ SoundFile(meta["a"]) /\ SoundFile(meta["b"])
      /\ SlotGens
  BY DEF LogInv, Typed, MetaNames, SoundInv, MetaSound
<1>3. MetaSound'
  <2>1. PICK one, two : meta' = [a |-> Left(meta["a"], one), b |-> Left(meta["b"], two)]
    BY DEF Crash
  <2>2. SoundFile(Left(meta["a"], one)) /\ SoundFile(Left(meta["b"], two))
    BY <1>2, LeftSound
  <2>3. meta'["a"] = Left(meta["a"], one) /\ meta'["b"] = Left(meta["b"], two)
    BY <2>1
  <2> QED BY <2>2, <2>3 DEF MetaSound, MetaNames
<1>4. SlotGens'
  <2>1. PICK left \in slots[0].maybe, right \in slots[1].maybe :
           slots' = [i \in {0, 1} |-> Sure(IF i = 0 THEN left ELSE right)]
    BY DEF Crash
  <2>2. slots'[0].maybe = {left} /\ slots'[1].maybe = {right}
    <3>1. slots'[0] = Sure(left) /\ slots'[1] = Sure(right)
      BY <2>1
    <3> QED BY <3>1 DEF Sure
  <2> QED BY <1>2, <2>2 DEF SlotGens
<1>5. StatusOK' /\ LiveSound' /\ FdsOK'
  BY <1>1, InitialIsSound, InitialRetains, FdsClosed DEF StatusOK, LiveSound
<1> QED BY <1>3, <1>4, <1>5 DEF SoundInv

-----------------------------------------------------------------------------
(***************************************************************************)
(* The file-system calls keep it.                                          *)
(***************************************************************************)
\* A call that opens no descriptor and takes no file away.
LEMMA PlainSound ==
    ASSUME LogInv, SoundInv, NEW r \in Records, Admits(st, r), Commit(r), status' = status, slots' = slots,
           \A d \in FDs : fds'[d].on > 0 => fds'[d].on = fds[d].on,
           Taken(st, r) \cap Files(st) = {}
    PROVE  SoundInv'
<1>1. st \in Sound /\ FdsOK /\ st' = Apply(st, r)
  BY DEF SoundInv, LiveSound, Commit
<1>2. \A d \in FDs : fds'[d].on > 0 => fds'[d].on = fds[d].on /\ fds[d].on \notin Taken(st, r)
  BY <1>1 DEF FdsOK
<1>3. FdsOK'
  BY <1>1, <1>2, FdsStay
<1> QED BY <1>3, CallSound DEF Recorded

LEMMA MakeSound ==
    ASSUME LogInv, SoundInv, NEW what \in {"dir", "file", "link"}, NEW d \in DOMAIN st.nodes, NEW name \in Names,
           NEW size \in Nat, MakeEntry(Create(st, what, d, name, size)), fds' = fds
    PROVE  SoundInv'
<1> DEFINE r == Create(st, what, d, name, size)
<1>1. r \in Records /\ r.kind = "create"
  BY CreateType DEF LogInv, Typed, Create
<1> HIDE DEF r
<1>2. MakeEntry(r)
  BY DEF r
<1>3. Admits(st, r) /\ Commit(r) /\ status' = status /\ slots' = slots
  BY <1>2 DEF MakeEntry, Quietly
<1>4. Taken(st, r) = {}
  BY <1>1 DEF Taken
<1> QED BY <1>1, <1>3, <1>4, PlainSound

LEMMA EntriesSound ==
    ASSUME LogInv, SoundInv, NEW d \in Dirs(st), NEW name \in Names
    PROVE  /\ Mkdir(d, name) => SoundInv'
           /\ \A size \in Sizes : WriteNewFile(d, name, size) => SoundInv'
<1>1. d \in DOMAIN st.nodes /\ Sizes \subseteq Nat
  BY InodesAre, SizeAssumption DEF LogInv, Typed, Sizes
<1>2. ASSUME Mkdir(d, name) PROVE SoundInv'
  <2>1. MakeEntry(Create(st, "dir", d, name, 0)) /\ fds' = fds
    BY <1>2 DEF Mkdir, CreateDirectory
  <2> QED BY <1>1, <2>1, MakeSound
<1>3. ASSUME NEW size \in Sizes, WriteNewFile(d, name, size) PROVE SoundInv'
  <2>1. MakeEntry(Create(st, "file", d, name, size)) /\ fds' = fds
    BY <1>3 DEF WriteNewFile
  <2> QED BY <1>1, <2>1, MakeSound
<1> QED BY <1>2, <1>3

LEMMA RemovalsSound ==
    ASSUME LogInv, SoundInv, NEW d \in Dirs(st), NEW name \in Names
    PROVE  /\ Unlink(d, name) => SoundInv'
           /\ Rmdir(d, name) => SoundInv'
<1>1. st \in States /\ st \in Sound /\ FdsOK /\ d \in DOMAIN st.nodes
  BY InodesAre DEF LogInv, Typed, SoundInv, LiveSound
<1>2. ASSUME NEW what \in {"dir", "file"}
      PROVE  /\ Removal(what, d, name) \in Records /\ Removal(what, d, name).what = what
             /\ Removal(what, d, name).kind = "remove"
             /\ Removal(what, d, name).parent = d /\ Removal(what, d, name).name = name
             /\ Taken(st, Removal(what, d, name)) = Entry(st, d, name)
  <2>1. Removal(what, d, name) \in Records
    BY <1>1, OtherTypes
  <2> QED BY <2>1 DEF Removal, Taken
<1>3. ASSUME Unlink(d, name) PROVE SoundInv'
  <2> DEFINE r == Removal("file", d, name)
  <2>1. r \in Records /\ Taken(st, r) = Entry(st, d, name)
    BY <1>2
  <2>2. /\ Admits(st, r) /\ Commit(r) /\ status' = status /\ slots' = slots
        /\ Orphaned(Entry(st, d, name))
    BY <1>3 DEF Unlink, Quietly
  <2> HIDE DEF r
  <2>3. \A e \in FDs : fds'[e].on > 0 => fds'[e].on = fds[e].on /\ fds[e].on \notin Taken(st, r)
    BY <2>1, <2>2, OrphanedFds
  <2>4. st' = Apply(st, r)
    BY <2>2 DEF Commit
  <2>5. FdsOK'
    BY <1>1, <2>1, <2>2, <2>3, <2>4, FdsStay
  <2> QED BY <2>1, <2>2, <2>5, CallSound DEF Recorded
<1>4. ASSUME Rmdir(d, name) PROVE SoundInv'
  <2> DEFINE r == Removal("dir", d, name)
  <2>1. /\ r \in Records /\ Taken(st, r) = Entry(st, d, name) /\ r.what = "dir" /\ r.kind = "remove"
        /\ r.parent = d /\ r.name = name
    BY <1>2
  <2>2. Admits(st, r) /\ Commit(r) /\ status' = status /\ slots' = slots /\ fds' = fds
    BY <1>4 DEF Rmdir, Quietly
  <2> HIDE DEF r
  <2>3. PICK i \in Entry(st, d, name) : st.nodes[i].kind = "dir"
    BY <2>1, <2>2 DEF Admits, AdmitsRemoval
  <2>4. \A j \in Entry(st, d, name) : j = i
    <3> SUFFICES ASSUME NEW j \in Entry(st, d, name) PROVE j = i
      OBVIOUS
    <3>1. (CHOOSE k \in Entry(st, d, name) : TRUE) = i
      BY <1>1, OneEntry
    <3>2. (CHOOSE k \in Entry(st, d, name) : TRUE) = j
      BY <1>1, OneEntry
    <3> QED BY <3>1, <3>2
  <2>5. Taken(st, r) \cap Files(st) = {}
    BY <2>1, <2>3, <2>4 DEF Files
  <2> QED BY <2>1, <2>2, <2>5, PlainSound
<1> QED BY <1>3, <1>4

LEMMA MovesSound ==
    ASSUME LogInv, SoundInv, NEW d \in Dirs(st), NEW name \in Names, NEW newDir \in Dirs(st), NEW newName \in Names,
           Move(d, name, newDir, newName)
    PROVE  SoundInv'
<1> DEFINE r == Rename(d, name, newDir, newName)
<1>1. st \in States /\ st \in Sound /\ FdsOK /\ d \in DOMAIN st.nodes /\ newDir \in DOMAIN st.nodes
  BY InodesAre DEF LogInv, Typed, SoundInv, LiveSound
<1>2. r \in Records /\ Taken(st, r) = Entry(st, newDir, newName)
  <2>1. r \in Records
    BY <1>1, OtherTypes
  <2> QED BY <2>1 DEF Rename, Taken
<1>3. /\ Admits(st, r) /\ Commit(r) /\ status' = status /\ slots' = slots
      /\ Orphaned(Entry(st, newDir, newName))
  BY DEF Move, Quietly
<1> HIDE DEF r
<1>4. \A e \in FDs : fds'[e].on > 0 => fds'[e].on = fds[e].on /\ fds[e].on \notin Taken(st, r)
  BY <1>2, <1>3, OrphanedFds
<1>5. st' = Apply(st, r)
  BY <1>3 DEF Commit
<1>6. FdsOK'
  BY <1>1, <1>2, <1>3, <1>4, <1>5, FdsStay
<1> QED BY <1>2, <1>3, <1>6, CallSound DEF Recorded

LEMMA FilesSound ==
    ASSUME LogInv, SoundInv, NEW i \in Files(st)
    PROVE  /\ \A k \in 0 .. (MaxSize - 1) : WriteFile(i, k) => SoundInv'
           /\ \A size \in Sizes : Truncate(i, size) => SoundInv'
           /\ SetAttributes(i) => SoundInv'
<1>1. st \in States /\ i \in DOMAIN st.nodes /\ i \in Nat /\ Sizes \subseteq Nat /\ FdsOK
  BY InodesAre, SizeAssumption DEF LogInv, Typed, Sizes, SoundInv
<1>2. ASSUME NEW k \in 0 .. (MaxSize - 1), WriteFile(i, k) PROVE SoundInv'
  <2>0. k \in Nat /\ k + 1 \in Nat
    BY SizeAssumption
  <2> DEFINE r == Resize(st, i, k + 1, "write")
  <2>1. r \in Records /\ r.kind = "resize"
    BY <1>1, <2>0, ResizeType DEF Resize
  <2> HIDE DEF r
  <2>2. /\ status' = status /\ slots' = slots /\ fds' = fds
        /\ (Admits(st, r) /\ Commit(r)) \/ (meta' = meta /\ st' = st)
    BY <1>2 DEF WriteFile, Quietly, r
  <2>3. CASE Admits(st, r) /\ Commit(r)
    <3>1. Taken(st, r) = {}
      BY <2>1 DEF Taken
    <3> QED BY <2>1, <2>2, <2>3, <3>1, PlainSound
  <2>4. CASE meta' = meta /\ st' = st
    <3>1. FdsOK'
      BY <1>1, <2>2, <2>4 DEF FdsOK
    <3> QED BY <2>2, <2>4, <3>1, CallSound
  <2> QED BY <2>2, <2>3, <2>4
<1>3. ASSUME NEW size \in Sizes, Truncate(i, size) PROVE SoundInv'
  <2> DEFINE r == Resize(st, i, size, "truncate")
  <2>1. r \in Records /\ r.kind = "resize"
    BY <1>1, ResizeType DEF Resize
  <2> HIDE DEF r
  <2>2. Admits(st, r) /\ Commit(r) /\ status' = status /\ slots' = slots /\ fds' = fds
    BY <1>3 DEF Truncate, Quietly, r
  <2>3. Taken(st, r) = {}
    BY <2>1 DEF Taken
  <2> QED BY <2>1, <2>2, <2>3, PlainSound
<1>4. ASSUME SetAttributes(i) PROVE SoundInv'
  <2> DEFINE r == Attributes(i)
  <2>1. r \in Records /\ r.kind = "attributes"
    BY <1>1, MoreTypes DEF Attributes
  <2>2. Admits(st, r)
    BY <1>1 DEF Admits, Attributes
  <2> HIDE DEF r
  <2>3. Commit(r) /\ status' = status /\ slots' = slots /\ fds' = fds
    BY <1>4 DEF SetAttributes, Quietly, r
  <2>4. Taken(st, r) = {}
    BY <2>1 DEF Taken
  <2> QED BY <2>1, <2>2, <2>3, <2>4, PlainSound
<1> QED BY <1>2, <1>3, <1>4

LEMMA DescriptorsSound ==
    ASSUME LogInv, SoundInv, NEW d \in FDs
    PROVE  /\ \A i \in Files(st) : OpenFile(d, i) => SoundInv'
           /\ CloseFile(d) => SoundInv'
           /\ \A k \in 0 .. (MaxSize - 1) : WriteOrphan(d, k) => SoundInv'
<1>1. st \in States /\ fds \in [FDs -> Descriptors] /\ FdsOK
  BY DEF LogInv, Typed, SoundInv
<1>2. ASSUME NEW i \in Files(st), OpenFile(d, i) PROVE SoundInv'
  <2>1. fds' = [fds EXCEPT ![d].on = i] /\ status' = status /\ slots' = slots /\ meta' = meta /\ st' = st
    BY <1>2 DEF OpenFile
  <2>2. \A e \in FDs : fds'[e].on = IF e = d THEN i ELSE fds[e].on
    BY <1>1, <2>1 DEF Descriptors
  <2>3. FdsOK'
    BY <1>1, <2>1, <2>2 DEF FdsOK
  <2> QED BY <2>1, <2>3, CallSound
<1>3. ASSUME CloseFile(d) PROVE SoundInv'
  <2>1. fds' = [fds EXCEPT ![d] = NotOpen] /\ status' = status /\ slots' = slots /\ meta' = meta /\ st' = st
    BY <1>3 DEF CloseFile
  <2>2. \A e \in FDs : fds'[e].on = IF e = d THEN 0 ELSE fds[e].on
    BY <1>1, <2>1 DEF NotOpen
  <2>3. FdsOK'
    BY <1>1, <2>1, <2>2 DEF FdsOK
  <2> QED BY <2>1, <2>3, CallSound
<1>4. ASSUME NEW k \in 0 .. (MaxSize - 1), WriteOrphan(d, k) PROVE SoundInv'
  <2> DEFINE o == fds[d]
             more == CountFor(k + 1) - Len(o.extents)
             r == Reserve(st, more)
             xs == o.extents \o IF more > 0 THEN r.extents ELSE <<>>
  <2>1. /\ fds' = [fds EXCEPT ![d].extents = xs, ![d].size = Greater(@, k + 1)]
        /\ status' = status /\ slots' = slots
        /\ (more > 0 /\ Admits(st, r) /\ Commit(r)) \/ (meta' = meta /\ st' = st)
    BY <1>4 DEF WriteOrphan, Quietly
  <2>2. more > 0 => r \in Records /\ r.kind = "reserve"
    <3>1. k + 1 \in Nat
      BY SizeAssumption
    <3>2. CountFor(k + 1) \in Nat /\ Len(o.extents) \in Nat
      BY <1>1, <3>1, Counts DEF Descriptors
    <3>3. more \in Int
      BY <3>2
    <3> HIDE DEF more
    <3> QED BY <1>1, <3>3, MoreTypes DEF Reserve
  <2> HIDE DEF xs, more, r
  <2>3. \A e \in FDs : fds'[e].on = fds[e].on
    <3>1. fds' = [fds EXCEPT ![d] = [[o EXCEPT !.extents = xs] EXCEPT !.size = Greater(o.size, k + 1)]]
      BY <1>1, <2>1 DEF Descriptors
    <3>2. [[o EXCEPT !.extents = xs] EXCEPT !.size = Greater(o.size, k + 1)].on = o.on
      BY <1>1 DEF Descriptors
    <3> QED BY <1>1, <3>1, <3>2
  <2>4. CASE more > 0 /\ Admits(st, r) /\ Commit(r)
    <3>1. r \in Records /\ Taken(st, r) = {}
      BY <2>2, <2>4 DEF Taken
    <3> QED BY <2>1, <2>3, <2>4, <3>1, PlainSound
  <2>5. CASE meta' = meta /\ st' = st
    <3>1. FdsOK'
      BY <1>1, <2>3, <2>5 DEF FdsOK
    <3> QED BY <2>1, <2>5, <3>1, CallSound
  <2> QED BY <2>1, <2>4, <2>5
<1> QED BY <1>2, <1>3, <1>4

LEMMA CallsSound == ASSUME LogInv, SoundInv, Calls PROVE SoundInv'
<1>1. ASSUME NEW d \in Dirs(st), NEW name \in Names,
             \/ Mkdir(d, name) \/ \E size \in Sizes : WriteNewFile(d, name, size)
             \/ Unlink(d, name) \/ Rmdir(d, name)
             \/ \E newDir \in Dirs(st), newName \in Names : Move(d, name, newDir, newName)
      PROVE  SoundInv'
  BY <1>1, EntriesSound, RemovalsSound, MovesSound
<1>2. ASSUME NEW name \in Names, Symlink(Root, name) PROVE SoundInv'
  <2>1. Root \in DOMAIN st.nodes /\ MakeEntry(Create(st, "link", Root, name, 0)) /\ fds' = fds
    BY <1>2, RootIsThere DEF Symlink, CreateSymlink
  <2> QED BY <2>1, MakeSound
<1>3. ASSUME NEW i \in Files(st),
             \/ \E k \in 0 .. (MaxSize - 1) : WriteFile(i, k)
             \/ \E size \in Sizes : Truncate(i, size)
             \/ SetAttributes(i)
      PROVE  SoundInv'
  BY <1>3, FilesSound
<1>4. ASSUME NEW d \in FDs,
             \/ \E i \in Files(st) : OpenFile(d, i)
             \/ CloseFile(d)
             \/ \E k \in 0 .. (MaxSize - 1) : WriteOrphan(d, k)
      PROVE  SoundInv'
  BY <1>4, DescriptorsSound
<1> QED BY <1>1, <1>2, <1>3, <1>4 DEF Calls

-----------------------------------------------------------------------------
(***************************************************************************)
(* Syncs, repacks and failures keep it.                                    *)
(***************************************************************************)
\* The active file with the pending resize appended.
LEMMA DueSound ==
    ASSUME LogInv, SoundInv, IdleOpen,
           NEW due, due = [meta[st.active] EXCEPT !.pending = meta[st.active].pending \o Appended(Due)]
    PROVE  /\ due \in MetaFiles /\ SoundFile(due) /\ SoundFile(Image(due))
           /\ meta \in [MetaNames -> MetaFiles] /\ st.active \in MetaNames
<1>1. Typed /\ LiveBody(Selected, Second, meta[st.active], log, st) /\ MetaSound
  BY OpenIsLive DEF SoundInv
<1>2. meta \in [MetaNames -> MetaFiles] /\ st.active \in MetaNames
  BY <1>1, StateFacts DEF Typed
<1>3. due \in MetaFiles
  BY <1>1, DueType
<1>4. PICK X : Due \in Seq(X)
  BY DueListed
<1> DEFINE file == meta[st.active]
<1>5. file \in MetaFiles /\ SoundFile(file) /\ due = [file EXCEPT !.pending = file.pending \o Appended(Due)]
  BY <1>1, <1>2 DEF MetaSound
<1> HIDE DEF file
<1>6. SoundFile(due)
  <2>1. SoundFile([file EXCEPT !.pending = file.pending \o Appended(Due)])
    BY ONLY <1>4, <1>5, FramesSound
  <2> QED BY <1>5, <2>1
<1> QED BY <1>2, <1>3, <1>6, ImageSound

LEMMA SyncSound ==
    ASSUME LogInv, SoundInv, Sync
    PROVE  MetaSound' /\ SlotGens'
<1> DEFINE due == [meta[st.active] EXCEPT !.pending = meta[st.active].pending \o Appended(Due)]
           new == IF log.dirty \/ Due # <<>> THEN Image(due) ELSE due
<1>1. IdleOpen /\ slots' = slots /\ meta' = [meta EXCEPT ![st.active] = new]
  BY DEF Sync, IdleOpen
<1>2. /\ SoundFile(due) /\ SoundFile(Image(due))
      /\ meta \in [MetaNames -> MetaFiles] /\ st.active \in MetaNames
  BY <1>1, DueSound
<1> HIDE DEF due
<1>3. SoundFile(new)
  BY <1>2
<1> HIDE DEF new
<1>4. MetaSound'
  BY <1>1, <1>2, <1>3, MetaSet DEF SoundInv
<1> QED BY <1>1, <1>4, SlotsKeepGens DEF LogInv, Typed, SoundInv

LEMMA SyncsSound ==
    ASSUME LogInv, SoundInv
    PROVE  /\ StrictSync => SoundInv'
           /\ CloseStore => SoundInv'
           /\ RunScheduled => SoundInv'
<1>1. ASSUME StrictSync PROVE SoundInv'
  <2>1. Sync /\ status' = status /\ st' = st /\ fds' = fds
    BY <1>1 DEF StrictSync
  <2>2. MetaSound' /\ SlotGens'
    BY <2>1, SyncSound
  <2> QED BY <2>1, <2>2 DEF SoundInv, StatusOK, LiveSound, FdsOK
<1>2. ASSUME CloseStore PROVE SoundInv'
  <2>1. Sync /\ status' = "down" /\ st' = InitialState /\ fds' = Closed
    BY <1>2 DEF CloseStore, Gone
  <2>2. MetaSound' /\ SlotGens'
    BY <2>1, SyncSound
  <2>3. StatusOK' /\ LiveSound' /\ FdsOK'
    BY <2>1, InitialIsSound, InitialRetains, FdsClosed DEF StatusOK, LiveSound
  <2> QED BY <2>2, <2>3 DEF SoundInv
<1>3. ASSUME RunScheduled PROVE SoundInv'
  <2>1. Append2Log(Due) /\ status' = status /\ st' = st /\ fds' = fds /\ slots' = slots
    BY <1>3 DEF RunScheduled
  <2>2. meta \in [MetaNames -> MetaFiles] /\ st.active \in MetaNames /\ SlotsOK
    BY StateFacts DEF LogInv, Typed
  <2>3. PICK X : Due \in Seq(X)
    BY DueListed
  <2>4. MetaSound'
    BY <2>1, <2>2, <2>3, AppendSound DEF SoundInv
  <2>5. SlotGens'
    BY <2>1, <2>2, SlotsKeepGens DEF SoundInv
  <2> QED BY <2>1, <2>4, <2>5 DEF SoundInv, StatusOK, LiveSound, FdsOK
<1> QED BY <1>1, <1>2, <1>3

\* What a repack writes is sound, and in the file it does not replay from.
LEMMA RepackWritesSound == ASSUME LogInv, SoundInv, RepackWrites PROVE SoundInv'
<1> DEFINE a == st.active
           b == Other(st.active)
           due == [meta[a] EXCEPT !.pending = meta[a].pending \o Appended(Due)]
           effects == <<[op |-> "reset"], [op |-> "base", state |-> Projected]>>
           next == [meta[b] EXCEPT !.pending = meta[b].pending \o effects]
<1>1. /\ IdleOpen /\ slots' = slots /\ status' = status /\ st' = st /\ fds' = fds
      /\ meta' = [meta EXCEPT ![st.active].pending = @ \o Appended(Due), ![Projected.active].pending = @ \o effects]
  BY DEF RepackWrites, IdleOpen
<1>2. /\ Projected.active = b /\ a \in MetaNames /\ b \in MetaNames /\ a # b
      /\ meta \in [MetaNames -> MetaFiles] /\ SlotsOK /\ MetaSound
  BY ProjectedIs DEF LogInv, Typed, SoundInv
<1>3. SoundFile(due)
  BY <1>1, DueSound
<1>4. Projected \in Sound
  BY ProjectSound DEF Projected, SoundInv, LiveSound
<1>5. SoundFile(next)
  <2> DEFINE file == meta[b]
             s == Projected
             e == [op |-> "base", state |-> s]
             reset == [op |-> "reset"]
  <2>1. file \in MetaFiles /\ SoundFile(file) /\ s \in Sound
    BY <1>2, <1>4 DEF MetaSound
  <2>2. e.op = "base" /\ e.state = s /\ reset.op = "reset"
    OBVIOUS
  <2>3. next = [file EXCEPT !.pending = file.pending \o <<reset, e>>]
    OBVIOUS
  <2> HIDE DEF next, file, s, e, reset
  <2>4. /\ <<reset, e>> \in Seq({reset, e}) /\ Len(<<reset, e>>) = 2
        /\ <<reset, e>>[1] = reset /\ <<reset, e>>[2] = e
    OBVIOUS
  <2>5. \A k \in 1 .. Len(<<reset, e>>) : <<reset, e>>[k].op = "base" => <<reset, e>>[k].state \in Sound
    <3> SUFFICES ASSUME NEW k \in 1 .. 2 PROVE <<reset, e>>[k].op = "base" => <<reset, e>>[k].state \in Sound
      BY <2>4
    <3>1. k = 1 \/ k = 2
      OBVIOUS
    <3> QED BY <2>1, <2>2, <2>4, <3>1
  <2>6. SoundFile([file EXCEPT !.pending = file.pending \o <<reset, e>>])
    BY <2>1, <2>4, <2>5, PendingSound
  <2> QED BY <2>3, <2>6
<1>6. meta' = [[meta EXCEPT ![a] = due] EXCEPT ![b] = next]
  <2> HIDE DEF effects
  <2> QED BY <1>1, <1>2
<1> HIDE DEF next, effects, due, a, b
<1>7. meta' = [f \in MetaNames |-> IF f = b THEN next ELSE IF f = a THEN due ELSE meta[f]]
  BY <1>2, <1>6
<1>8. MetaSound'
  <2> SUFFICES ASSUME NEW f \in MetaNames PROVE SoundFile(meta'[f])
    BY DEF MetaSound
  <2>1. meta'[f] = IF f = b THEN next ELSE IF f = a THEN due ELSE meta[f]
    BY <1>7
  <2>2. SoundFile(meta[f])
    BY <1>2 DEF MetaSound
  <2> QED BY <1>3, <1>5, <2>1, <2>2
<1>9. SlotGens'
  BY <1>1, <1>2, SlotsKeepGens DEF SoundInv
<1> QED BY <1>1, <1>8, <1>9 DEF SoundInv, StatusOK, LiveSound, FdsOK

\* The next slot's turn is the next generation.
LEMMA RepackActivatesSound == ASSUME LogInv, SoundInv, RepackActivates PROVE SoundInv'
<1> DEFINE b == Other(st.active)
           next == NextSlot
           i == (next.seq - 1) % 2
           cell == [now |-> next, maybe |-> slots[i].maybe \cup {NoSlot, next}]
<1>1. /\ phase = "written" /\ status' = status /\ st' = st /\ fds' = fds
      /\ meta' = [meta EXCEPT ![Projected.active] = Image(@)]
      /\ slots' = [slots EXCEPT ![i] = [now |-> next, maybe |-> @.maybe \cup {NoSlot, next}]]
  BY DEF RepackActivates, SlotWritten
<1>2. Typed /\ SlotsOK /\ LiveBody(Selected, Second, meta[st.active], log, st) /\ MetaSound /\ SlotGens
  BY <1>1 DEF LogInv, PhaseOK, LiveOK, Typed, SoundInv
<1>3. Projected.active = b /\ Projected.gen = st.gen + 1 /\ b \in MetaNames /\ meta \in [MetaNames -> MetaFiles]
  BY <1>2, ProjectedIs DEF Typed
<1>4. Selected.gen = st.gen /\ Selected.gen = Selected.seq /\ Selected \in Slots
  BY <1>2, SlotFacts, SlotsKeepGens DEF LiveBody
<1>5. next.gen = next.seq /\ next.seq - 1 \in Nat
  <2>1. Selected.seq \in Nat
    BY <1>4 DEF Slots
  <2>2. next.seq = Selected.seq + 1 /\ next.gen = Projected.gen
    BY DEF NextSlot
  <2> HIDE DEF next
  <2>3. next.gen = Selected.seq + 1
    BY ONLY <1>3, <1>4, <2>2
  <2> DEFINE n == Selected.seq
  <2>4. n \in Nat /\ next.gen = n + 1 /\ next.seq = n + 1
    BY <2>1, <2>2, <2>3
  <2> HIDE DEF n
  <2> QED BY ONLY <2>4
<1>6. i \in {0, 1}
  <2> HIDE DEF next
  <2> QED BY <1>5
<1> HIDE DEF next, i
<1>7. SlotGens'
  <2>1. slots \in [{0, 1} -> [now : Slots, maybe : SUBSET Slots]]
    BY <1>2 DEF SlotsOK
  <2>2. \A j \in {0, 1} : slots'[j].maybe = IF j = i THEN slots[i].maybe \cup {NoSlot, next} ELSE slots[j].maybe
    BY <1>1, <1>6, <2>1
  <2>3. NoSlot.gen = NoSlot.seq
    BY DEF NoSlot
  <2> QED BY <1>2, <1>5, <1>6, <2>2, <2>3 DEF SlotGens
<1>8. MetaSound'
  <2> DEFINE file == meta[b]
             new == Image(file)
  <2>1. file \in MetaFiles /\ SoundFile(file) /\ meta' = [meta EXCEPT ![b] = new]
    BY <1>1, <1>2, <1>3 DEF MetaSound
  <2>2. SoundFile(new)
    <3> HIDE DEF file
    <3> QED BY <2>1, ImageSound
  <2> HIDE DEF new, b
  <2> QED BY <1>2, <1>3, <2>1, <2>2, MetaSet
<1> QED BY <1>1, <1>7, <1>8 DEF SoundInv, StatusOK, LiveSound, FdsOK

LEMMA RepackInstallsSound == ASSUME LogInv, SoundInv, RepackInstalls PROVE SoundInv'
<1>1. /\ st' = Projected /\ fds' = fds /\ meta' = meta /\ status' = status
      /\ slots' = [i \in {0, 1} |-> Sure(slots[i].now)]
  BY DEF RepackInstalls
<1>2. LiveSound'
  BY <1>1, ProjectSound DEF Projected, SoundInv, LiveSound
<1>3. FdsOK'
  <2>1. Files(st') = Files(st)
    BY <1>1, ProjectFiles DEF Projected, LogInv, Typed
  <2> QED BY <1>1, <2>1 DEF FdsOK, SoundInv
<1>4. MetaSound' /\ StatusOK'
  BY <1>1 DEF MetaSound, StatusOK, SoundInv
<1>5. SlotGens'
  BY <1>1, SlotsKeepGens DEF LogInv, Typed, SoundInv
<1> QED BY <1>2, <1>3, <1>4, <1>5 DEF SoundInv

LEMMA FailuresSound ==
    ASSUME LogInv, SoundInv
    PROVE  /\ WriteFails => SoundInv'
           /\ RepackFails => SoundInv'
           /\ ActivationFails => SoundInv'
           /\ CloseFailed => SoundInv'
           /\ \A d \in Dirs(st), name \in Names : UnlinkFails(d, name) => SoundInv'
<1>1. SlotsOK /\ SlotGens
  BY DEF LogInv, Typed, SoundInv
<1>2. ASSUME status' \in {"failed", status}, meta' = meta, slots' = slots, st' = st, fds' = fds PROVE SoundInv'
  BY <1>2 DEF SoundInv, StatusOK, LiveSound, MetaSound, SlotGens, FdsOK
<1>3. WriteFails \/ RepackFails \/ ActivationFails => SoundInv'
  BY <1>2 DEF WriteFails, RepackFails, ActivationFails, Poisoned
<1>4. ASSUME CloseFailed PROVE SoundInv'
  <2>1. meta' = meta /\ slots' = slots /\ status' = "down" /\ st' = InitialState /\ fds' = Closed
    BY <1>4 DEF CloseFailed, Gone
  <2>2. StatusOK' /\ LiveSound' /\ FdsOK'
    BY <2>1, InitialIsSound, InitialRetains, FdsClosed DEF StatusOK, LiveSound
  <2> QED BY <2>1, <2>2 DEF SoundInv, MetaSound, SlotGens
<1>5. ASSUME NEW d \in Dirs(st), NEW name \in Names, UnlinkFails(d, name) PROVE SoundInv'
  <2> DEFINE f == Frame(Removal("file", d, name), EndAfter(Due), log.next)
  <2>1. /\ slots' = slots /\ status' = "failed" /\ st' = st /\ fds' = fds
        /\ Append2Log(Due) \/ Append2Log(Append(Due, f))
    BY <1>5 DEF UnlinkFails, Poisoned
  <2>2. meta \in [MetaNames -> MetaFiles] /\ st.active \in MetaNames
    BY StateFacts DEF LogInv, Typed
  <2> HIDE DEF f
  <2>3. PICK X : Due \in Seq(X) /\ Append(Due, f) \in Seq(X)
    BY DueListed
  <2>4. MetaSound'
    BY <2>1, <2>2, <2>3, AppendSound DEF SoundInv
  <2> QED BY <2>1, <2>4 DEF SoundInv, StatusOK, LiveSound, SlotGens, FdsOK
<1> QED BY <1>3, <1>4, <1>5

LEMMA SoundInvStep == LogInv /\ SoundInv /\ [Next]_vars => SoundInv'
<1> SUFFICES ASSUME LogInv, SoundInv, [Next]_vars PROVE SoundInv'
  OBVIOUS
<1>1. CASE Open
  BY <1>1, OpenSound
<1>2. CASE BootstrapFlushes
  BY <1>2, BootstrapFlushesSound
<1>3. CASE Calls
  BY <1>3, CallsSound
<1>4. CASE StrictSync \/ CloseStore \/ RunScheduled
  BY <1>4, SyncsSound
<1>5. CASE Repack
  BY <1>5, RepackWritesSound, RepackActivatesSound, RepackInstallsSound DEF Repack
<1>6. CASE CloseFailed
  BY <1>6, FailuresSound
<1>7. CASE Troubles
  BY <1>7, FailuresSound, CrashSound DEF Troubles
<1>8. CASE UNCHANGED vars
  BY <1>8 DEF vars, SoundInv, StatusOK, LiveSound, MetaSound, SlotGens, FdsOK
<1> QED BY <1>1, <1>2, <1>3, <1>4, <1>5, <1>6, <1>7, <1>8 DEF Next

\* Whatever is called, crashes, fails or is repacked, the live metadata is one that
\* validateState accepts (a tree whose files have the extents their sizes need, every
\* extent in one class, every quarantine tag of this generation), and descriptors are
\* open on files that are there.
THEOREM StoreTypeTheorem == Spec => []TypeOK
<1>1. Init => LogInv /\ SoundInv
  BY LogInvInit, SoundInvInit
<1>2. LogInv /\ SoundInv /\ [Next]_vars => LogInv' /\ SoundInv'
  BY LogInvStep, SoundInvStep
<1>3. LogInv /\ SoundInv => TypeOK
  BY SoundTypes
<1> QED BY <1>1, <1>2, <1>3, PTL DEF Spec
=============================================================================
