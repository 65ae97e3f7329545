------------------------------ MODULE VfsState ------------------------------
(***************************************************************************)
(* The metadata of the packed OPFS store as a value, and the one reducer   *)
(* that live commits and replay share                                      *)
(* (packages/pgwasm/src/opfs/core/state-machine.ts).                       *)
(*                                                                         *)
(* A directory's entries and the parent index mirror each other in the     *)
(* code; here both are the parent and name of an inode.  Modes, times and  *)
(* link targets are left out, sizes count blocks, and the available        *)
(* extents are a set of which a planner takes the greatest.                *)
(***************************************************************************)
EXTENDS Integers, Sequences, FiniteSets, SequencesExt

CONSTANTS
    ExtentSize,      \* blocks per extent
    MaxInodes,       \* MAX_INODES
    MaxExtents       \* MAX_TOTAL_EXTENTS

ASSUME ExtentAssumption == ExtentSize \in Nat \ {0}
ASSUME LimitAssumption == MaxInodes \in Nat \ {0} /\ MaxExtents \in Nat

Root == 1
Other(file) == IF file = "a" THEN "b" ELSE "a"

\* gen and retained: the generation of this state and of each metadata file
\* (0 = none); quar: extent -> the first generation without its owner (0 = untagged).
InitialState ==
    [gen |-> 1, next |-> 2, active |-> "a", retained |-> [a |-> 1, b |-> 0],
     nodes |-> [i \in {Root} |-> [kind |-> "dir", parent |-> 0, name |-> "/", size |-> 0,
                                  extents |-> <<>>, owner |-> "/"]],
     total |-> 0, avail |-> {}, quar |-> [x \in {} |-> 0]]

Dirs(s) == {i \in DOMAIN s.nodes : s.nodes[i].kind = "dir"}
Files(s) == {i \in DOMAIN s.nodes : s.nodes[i].kind = "file"}
Children(s, d) == {i \in DOMAIN s.nodes : s.nodes[i].parent = d}
Entry(s, d, name) == {i \in Children(s, d) : s.nodes[i].name = name}

Owned(s) == UNION {ToSet(s.nodes[i].extents) : i \in DOMAIN s.nodes}

\* extentCountForSize
CountFor(size) == (size + ExtentSize - 1) \div ExtentSize

-----------------------------------------------------------------------------
(***************************************************************************)
(* The allocator: the available extents first, then the arena grows.       *)
(***************************************************************************)
Greatest(S, k) == CHOOSE T \in SUBSET S :
    Cardinality(T) = k /\ \A x \in T, y \in S \ T : y < x

ChooseExtents(s, count) ==
    LET k == IF count < Cardinality(s.avail) THEN count ELSE Cardinality(s.avail)
    IN  SetToSeq(Greatest(s.avail, k)) \o [j \in 1..(count - k) |-> s.total + j - 1]

Fresh(s, xs) == {x \in ToSet(xs) : x >= s.total}

\* validateExtentAssignment
Assignable(s, xs) ==
    /\ Cardinality(ToSet(xs)) = Len(xs)
    /\ ToSet(xs) \ Fresh(s, xs) \subseteq s.avail
    /\ Fresh(s, xs) = s.total..(s.total + Cardinality(Fresh(s, xs)) - 1)
    /\ s.total + Cardinality(Fresh(s, xs)) <= MaxExtents

Allocate(s, xs) == [s EXCEPT !.avail = @ \ ToSet(xs), !.total = @ + Cardinality(Fresh(s, xs))]

\* Freed extents wait untagged.
Quarantine(s, X) ==
    [s EXCEPT !.quar = [x \in DOMAIN s.quar \cup X |-> IF x \in X THEN 0 ELSE s.quar[x]]]

-----------------------------------------------------------------------------
(***************************************************************************)
(* The transaction records: what a planner admits, and the reducer.        *)
(***************************************************************************)
Create(s, what, parent, name, size) ==
    [kind |-> "create", what |-> what, parent |-> parent, name |-> name, id |-> s.next, size |-> size,
     extents |-> ChooseExtents(s, CountFor(size))]
CreateDirectory(s, parent, name) == Create(s, "dir", parent, name, 0)
CreateSymlink(s, parent, name) == Create(s, "link", parent, name, 0)
Resize(s, i, size, operation) ==
    LET more == CountFor(size) - Len(s.nodes[i].extents)
    IN  [kind |-> "resize", operation |-> operation, id |-> i, size |-> size,
         extents |-> ChooseExtents(s, IF more > 0 THEN more ELSE 0)]
Removal(what, parent, name) == [kind |-> "remove", what |-> what, parent |-> parent, name |-> name]
Rename(parent, name, newParent, newName) ==
    [kind |-> "rename", parent |-> parent, name |-> name, newParent |-> newParent, newName |-> newName]
Reserve(s, count) == [kind |-> "reserve", extents |-> ChooseExtents(s, count)]
Attributes(i) == [kind |-> "attributes", id |-> i]

\* The directories on the way from i to the root, i included.
Ancestors(s, i) ==
    LET up[j \in DOMAIN s.nodes] == IF j = Root THEN {Root} ELSE {j} \cup up[s.nodes[j].parent]
    IN  up[i]

\* validateRenameTypes
Replaceable(s, i, j) ==
    /\ (s.nodes[i].kind = "dir") = (s.nodes[j].kind = "dir")
    /\ Children(s, j) = {}

AdmitsCreate(s, r) ==
    /\ r.parent \in Dirs(s) /\ Entry(s, r.parent, r.name) = {}
    /\ r.id = s.next /\ Cardinality(DOMAIN s.nodes) < MaxInodes
    /\ Len(r.extents) = CountFor(r.size) /\ Assignable(s, r.extents)

AdmitsRemoval(s, r) ==
    \E i \in Entry(s, r.parent, r.name) :
        IF r.what = "dir" THEN s.nodes[i].kind = "dir" /\ Children(s, i) = {} ELSE s.nodes[i].kind # "dir"

AdmitsResize(s, r) ==
    /\ r.id \in Files(s) /\ Assignable(s, r.extents)
    /\ LET more == CountFor(r.size) - Len(s.nodes[r.id].extents)
       IN  Len(r.extents) = IF more > 0 THEN more ELSE 0

AdmitsRename(s, r) ==
    /\ <<r.parent, r.name>> # <<r.newParent, r.newName>>
    /\ r.newParent \in Dirs(s)
    /\ \E i \in Entry(s, r.parent, r.name) :
          /\ i \notin Ancestors(s, r.newParent)
          /\ \A j \in Entry(s, r.newParent, r.newName) : Replaceable(s, i, j)

Admits(s, r) ==
    CASE r.kind = "create" -> AdmitsCreate(s, r)
      [] r.kind = "remove" -> AdmitsRemoval(s, r)
      [] r.kind = "resize" -> AdmitsResize(s, r)
      [] r.kind = "rename" -> AdmitsRename(s, r)
      [] r.kind = "reserve" -> r.extents # <<>> /\ Assignable(s, r.extents)
      [] r.kind = "attributes" -> r.id \in DOMAIN s.nodes

Without(s, i) == [s EXCEPT !.nodes = [j \in DOMAIN @ \ {i} |-> @[j]]]
RemovedLeaks(s, i) == Without(s, i)     \* mutant: the extents are forgotten
Removed(s, i) == Quarantine(Without(s, i), ToSet(s.nodes[i].extents))

ApplyCreate(s, r) ==
    LET node == [kind |-> r.what, parent |-> r.parent, name |-> r.name, size |-> r.size,
                 extents |-> r.extents, owner |-> r.name]
    IN  [Allocate(s, r.extents) EXCEPT
            !.next = @ + 1,
            !.nodes = [j \in DOMAIN @ \cup {r.id} |-> IF j = r.id THEN node ELSE @[j]]]

\* A shrink releases whole trailing extents.
ApplyResize(s, r) ==
    LET old == s.nodes[r.id].extents
        kept == SubSeq(old, 1, IF CountFor(r.size) < Len(old) THEN CountFor(r.size) ELSE Len(old))
        freed == ToSet(old) \ ToSet(kept)
    IN  Quarantine([Allocate(s, r.extents) EXCEPT !.nodes[r.id].size = r.size,
                                                  !.nodes[r.id].extents = kept \o r.extents], freed)

ApplyRename(s, r) ==
    LET i == CHOOSE k \in Entry(s, r.parent, r.name) : TRUE
        over == Entry(s, r.newParent, r.newName)
        t == IF over = {} THEN s ELSE Removed(s, CHOOSE j \in over : TRUE)
    IN  [t EXCEPT !.nodes[i].parent = r.newParent, !.nodes[i].name = r.newName]

\* An orphan's new extents go straight to the quarantine.
ApplyReserve(s, r) == Quarantine(Allocate(s, r.extents), ToSet(r.extents))

\* applyTxn
Apply(s, r) ==
    CASE r.kind = "create" -> ApplyCreate(s, r)
      [] r.kind = "remove" -> Removed(s, CHOOSE i \in Entry(s, r.parent, r.name) : TRUE)
      [] r.kind = "resize" -> ApplyResize(s, r)
      [] r.kind = "rename" -> ApplyRename(s, r)
      [] r.kind = "reserve" -> ApplyReserve(s, r)
      [] r.kind = "attributes" -> s

-----------------------------------------------------------------------------
(***************************************************************************)
(* projectRepack: the next generation, in the other metadata file.         *)
(***************************************************************************)
\* An aged extent is released once the file about to be overwritten is the last
\* that could name its owner.
Released(s, pinned) ==
    LET previous == s.retained[Other(s.active)]
    IN  {x \in DOMAIN s.quar : /\ x \notin pinned /\ s.quar[x] # 0
                               /\ previous = 0 \/ previous < s.quar[x]}

\* The available tail of the arena is given up.
Trimmed(total, free) == CHOOSE t \in 0..total :
    /\ t..(total - 1) \subseteq free
    /\ t > 0 => t - 1 \notin free

ProjectRepack(s, pinned) ==
    LET free == s.avail \cup Released(s, pinned)
        t == Trimmed(s.total, free)
    IN  [s EXCEPT
            !.gen = @ + 1,
            !.active = Other(@),
            !.retained[Other(s.active)] = s.gen + 1,
            !.quar = [x \in DOMAIN s.quar \ Released(s, pinned) |->
                        IF x \in pinned THEN 0 ELSE IF s.quar[x] = 0 THEN s.gen + 1 ELSE s.quar[x]],
            !.avail = {x \in free : x < t},
            !.total = t]

\* validateState: the tree is a tree, sizes and extents agree, and every extent
\* is in exactly one of owned, available and quarantine.
WellFormed(s) ==
    /\ \A i \in DOMAIN s.nodes \ {Root} : s.nodes[i].parent \in Dirs(s) /\ i < s.next
    /\ \A i, j \in DOMAIN s.nodes :
          i # j => <<s.nodes[i].parent, s.nodes[i].name>> # <<s.nodes[j].parent, s.nodes[j].name>>
    /\ \A i \in DOMAIN s.nodes : Len(s.nodes[i].extents) = CountFor(s.nodes[i].size)
    /\ \A i, j \in DOMAIN s.nodes :
          i # j => ToSet(s.nodes[i].extents) \cap ToSet(s.nodes[j].extents) = {}
    /\ Owned(s) \cup s.avail \cup DOMAIN s.quar = 0..(s.total - 1)
    /\ Owned(s) \cap s.avail = {} /\ Owned(s) \cap DOMAIN s.quar = {} /\ s.avail \cap DOMAIN s.quar = {}
    /\ s.retained[s.active] = s.gen
    /\ s.retained[Other(s.active)] \in {0, s.gen - 1}
    /\ \A x \in DOMAIN s.quar : s.quar[x] \in {0, s.gen}
=============================================================================
