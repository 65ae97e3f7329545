-------------------------- MODULE StoreBootProofs --------------------------
(***************************************************************************)
(* Proofs about StoreBoot, for every number of contexts and every bound,   *)
(* when operations of different contexts follow one another.  The last     *)
(* section is about ClientLifecycle, whose store is the one a boot opens.  *)
(***************************************************************************)
EXTENDS StoreBoot, ClientLifecycle, TLAPS, FiniteSetTheorems, SequenceTheorems

-----------------------------------------------------------------------------
(***************************************************************************)
(* The inductive invariant.                                                *)
(***************************************************************************)
Labels == {"idle", "effects", "resolve", "gate", "mint", "handle", "acquire",
           "open", "milestone", "expose", "up", "stuck", "none"}
Grants == {"none", "granted", "denied", "blind"}
Modes == {"none", "boot", "adopted", "committed", "fresh", "idb", "destroy"}
Contents == {"blank", "loose", "synced"}

\* What a context does; the effects are looked at one plan at a time.
CtxShape(k) ==
    k \in [at : Labels, home : Grants, mode : Modes, todo : {k.todo},
           then : Labels, round : Nat, handle : Nat]

StoreShape ==
    /\ record \in Phases /\ sentinel \in BOOLEAN /\ pending \in BOOLEAN
    /\ minted \in Nat /\ minted <= MaxMints
    /\ dir \in 0..minted /\ idb \in 0..minted
    /\ disk \in [1..MaxMints -> Contents]
    /\ exposed \subseteq 1..minted /\ condemned \subseteq 1..minted

Shape ==
    /\ StoreShape
    /\ troubles \in Nat
    /\ owner \in Contexts \cup {NoOne}
    /\ ctx = [c \in Contexts |-> ctx[c]]
    /\ \A c \in Contexts : CtxShape(ctx[c])

\* Operations follow one another.
Alone == \A c, d \in Contexts : InFlight(c) /\ InFlight(d) => c = d

Unclaimed == record \in {"none", "idb-authoritative"}
Claimed == record \in {"opfs-candidate", "opfs-committed"}

\* What the durable authorities say of each other and of the stores, in every
\* state a crash can leave.
Durable ==
    /\ Unclaimed /\ ~pending => ~sentinel /\ dir = NoStore
    /\ pending => ~Claimed /\ dir \in {NoStore} \cup condemned
    /\ Unclaimed => idb \notin condemned
    /\ Claimed => idb = NoStore /\ dir \notin condemned
    /\ record = "opfs-committed" => sentinel
    /\ sentinel => dir # NoStore /\ disk[dir] = "synced"
    /\ record = "deleting" => {dir, idb} \subseteq {NoStore} \cup condemned
    /\ \A s \in exposed \ condemned :
          \/ Unclaimed /\ s = idb
          \/ record = "opfs-committed" /\ s = dir

\* The lock is held by a context that opens the store, has it open, or boots
\* again over the engine that it left open.
Holds(k) == k.at # "idle" /\ k.mode # "destroy"
Owned == \A c \in Contexts : owner = c => Holds(ctx[c])

\* Where the deletions of a boot lead back to.
BackToBoot(k) ==
    k.then = "resolve" /\ k.mode = "boot" /\ k.home = "granted" /\ k.round = 1 /\ ~pending

\* The plans a context can be in the middle of, each with what its earlier
\* effects have established.
Settling(k) ==
    /\ k.mode = "boot" /\ pending
    /\ \/ k.then = "resolve" /\ k.home = "granted" /\ k.round = 0
       \/ k.then = "gate" /\ k.home # "granted"
    /\ \/ k.todo = <<"deleteSentinel", "deleteDirectory", "clearPending">>
       \/ k.todo = <<"deleteDirectory", "clearPending">> /\ ~sentinel
       \/ k.todo = <<"clearPending">> /\ ~sentinel /\ dir = NoStore

Condemning(k) ==
    /\ k.mode = "destroy" /\ k.then = "idle"
    /\ \/ k.todo = <<"deleting", "deleteSentinel", "deleteDirectory", "deleteIdb", "deleteRecord">>
       \/ k.todo = <<"deleting", "notePending", "notePendingOwned", "deleteIdb", "deleteRecord">>

Deleting(k) ==
    /\ record = "deleting"
    /\ \/ k.then = "idle" /\ k.mode = "destroy"
       \/ BackToBoot(k)
       \/ k.then = "gate" /\ k.mode = "boot" /\ k.home = "blind"
    /\ \/ k.todo = <<"deleteSentinel", "deleteDirectory", "deleteIdb", "deleteRecord">>
       \/ k.todo = <<"deleteDirectory", "deleteIdb", "deleteRecord">> /\ ~sentinel
       \/ k.todo = <<"notePending", "notePendingOwned", "deleteIdb", "deleteRecord">> /\ k.then = "idle"
       \/ k.todo = <<"notePendingOwned", "deleteIdb", "deleteRecord">> /\ k.then = "idle" /\ pending
       \/ /\ pending \/ (~sentinel /\ dir = NoStore)
          /\ \/ k.todo = <<"deleteIdb", "deleteRecord">>
             \/ k.todo = <<"deleteRecord">> /\ idb = NoStore

Retiring(k) ==
    /\ record = "opfs-candidate" /\ BackToBoot(k)
    /\ \/ k.todo = <<"deleteSentinel", "deleteDirectory", "deleteRecord">>
       \/ k.todo = <<"deleteDirectory", "deleteRecord">> /\ ~sentinel
       \/ k.todo = <<"deleteRecord">> /\ ~sentinel /\ dir = NoStore

FallingBack(k) ==
    /\ ~pending /\ k.then = "gate" /\ k.mode = "boot"
    /\ \/ /\ k.todo = <<"deleteIdb", "deleteSentinel", "deleteDirectory", "idb-authoritative">>
          /\ record = "deleting"
       \/ /\ record \in {"opfs-candidate", "deleting"} /\ idb = NoStore
          /\ \/ k.todo = <<"deleteSentinel", "deleteDirectory", "idb-authoritative">>
             \/ k.todo = <<"deleteDirectory", "idb-authoritative">> /\ ~sentinel
       \/ /\ k.todo = <<"idb-authoritative">>
          /\ ~sentinel /\ dir = NoStore
          /\ \/ record = "none"
             \/ record \in {"opfs-candidate", "deleting"} /\ idb = NoStore

Starting(k) ==
    /\ ~pending /\ k.then = "handle" /\ k.home = "granted"
    /\ \/ /\ ProvableVirgin
          /\ \/ k.todo = <<"opfs-candidate", "createDirectory">> /\ k.mode = "fresh"
             \/ k.todo = <<"opfs-candidate">> /\ k.mode = "adopted" /\ k.round = 0
       \/ k.todo = <<"createDirectory">> /\ k.mode = "fresh" /\ record = "opfs-candidate"

Committing(k) ==
    /\ ~pending /\ k.then = "expose" /\ k.mode \in {"fresh", "adopted"}
    /\ record = "opfs-candidate" /\ k.handle = dir /\ dir # NoStore
    /\ \/ k.todo = <<"strictSync", "publishSentinel", "opfs-committed">>
       \/ k.todo = <<"publishSentinel", "opfs-committed">> /\ disk[dir] = "synced"
       \/ k.todo = <<"opfs-committed">> /\ sentinel

Planned(k) ==
    \/ Settling(k) \/ Condemning(k) \/ Deleting(k) \/ Retiring(k)
    \/ FallingBack(k) \/ Starting(k) \/ Committing(k)

\* A store on its way to being opened in its directory.
Opening(k) ==
    /\ ~pending /\ k.home = "granted"
    /\ \/ k.mode = "fresh" /\ record = "opfs-candidate"
       \/ k.mode = "committed" /\ record = "opfs-committed"
       \/ k.mode = "adopted" /\ k.round = 0 /\ Claimed

\* What holds of the store at each place of an operation.
Fits(k) ==
    /\ k.at # "none"
    /\ k.at = "effects" => Planned(k)
    /\ k.at = "resolve" =>
          /\ k.mode = "boot" /\ k.home = "granted"
          /\ k.round = 0 \/ (k.round = 1 /\ record = "none" /\ ~pending)
    /\ k.at = "gate" =>
          k.mode = "boot" /\ (k.home = "granted" => record = "idb-authoritative" /\ ~pending)
    /\ k.at = "mint" => Unclaimed
    /\ k.at \in {"handle", "acquire", "open", "milestone"} => Opening(k)
    /\ k.at \in {"acquire", "open", "milestone"} => k.handle = dir /\ dir # NoStore
    /\ k.at = "expose" =>
          IF k.mode = "idb" THEN Unclaimed /\ k.handle = idb /\ idb # NoStore
          ELSE record = "opfs-committed" /\ k.handle = dir

Inv == Shape /\ Alone /\ Durable /\ Owned /\ \A c \in Contexts : Fits(ctx[c])

LEMMA InitInv == Init => Inv
<1> SUFFICES ASSUME Init PROVE Inv OBVIOUS
<1>1. CtxShape(Idle) /\ Idle.at = "idle" BY DEF CtxShape, Idle, NoStore, Labels, Grants, Modes
<1>2. \A c \in Contexts : ctx[c] = Idle BY DEF Init
<1>3. StoreShape
  <2>1. disk \in [1..MaxMints -> Contents] BY DEF Init, Contents
  <2>2. record \in Phases /\ sentinel \in BOOLEAN /\ pending \in BOOLEAN BY DEF Init, Phases
  <2>3. /\ minted \in Nat /\ minted <= MaxMints /\ dir \in 0..minted /\ idb \in 0..minted
        /\ exposed \subseteq 1..minted /\ condemned \subseteq 1..minted
    BY BootAssumption DEF Init, NoStore
  <2> QED BY <2>1, <2>2, <2>3 DEF StoreShape
<1>4. ctx = [c \in Contexts |-> ctx[c]] BY DEF Init
<1>5. Shape BY <1>1, <1>2, <1>3, <1>4 DEF Init, Shape
<1>6. Alone BY <1>1, <1>2 DEF Alone, InFlight
<1>7. Durable BY DEF Init, Durable, Unclaimed, Claimed
<1>8. Owned BY BootAssumption DEF Init, Owned
<1>9. \A c \in Contexts : Fits(ctx[c]) BY <1>1, <1>2 DEF Fits
<1> QED BY <1>5, <1>6, <1>7, <1>8, <1>9 DEF Inv

-----------------------------------------------------------------------------
(***************************************************************************)
(* How the contexts move.                                                  *)
(***************************************************************************)
Moves(c) ==
    /\ ctx' = [d \in Contexts |-> ctx'[d]]
    /\ \A d \in Contexts \ {c} : ctx'[d] = ctx[d]

LEMMA StepKeeps ==
    ASSUME Inv, NEW c \in Contexts, \A d \in Contexts \ {c} : ~InFlight(d), Moves(c),
           StoreShape', Durable', troubles' \in Nat, owner' \in {owner, c, NoOne},
           CtxShape(ctx'[c]), Fits(ctx[c])', owner' = c => Holds(ctx'[c])
    PROVE  Inv'
<1>1. Shape' BY DEF Inv, Shape, Moves
<1>2. \A d \in Contexts \ {c} : ~InFlight(d)' BY DEF Moves, InFlight
<1>3. Alone' BY <1>2 DEF Alone
<1>4. Owned' BY BootAssumption DEF Inv, Owned, Moves, Holds
<1>5. \A d \in Contexts \ {c} : Fits(ctx[d])'
  <2> SUFFICES ASSUME NEW d \in Contexts \ {c} PROVE Fits(ctx[d])' OBVIOUS
  <2>1. ctx'[d].at \in {"idle", "up", "stuck"} BY <1>2 DEF InFlight
  <2> QED BY <2>1 DEF Fits
<1> QED BY <1>1, <1>3, <1>4, <1>5 DEF Inv

LEMMA OthersRest ==
    ASSUME Inv, NEW c \in Contexts, InFlight(c)
    PROVE  \A d \in Contexts \ {c} : ~InFlight(d)
  BY DEF Inv, Alone

LEMMA AdvanceMoves ==
    ASSUME Inv, NEW c \in Contexts, Advance(c), ctx[c].at = "effects"
    PROVE  /\ Moves(c) /\ CtxShape(ctx'[c])
           /\ ctx'[c].todo = Tail(ctx[c].todo)
           /\ Tail(ctx[c].todo) = <<>> => ctx'[c].at = ctx[c].then
           /\ Tail(ctx[c].todo) # <<>> => ctx'[c].at = "effects"
           /\ ctx'[c].home = ctx[c].home /\ ctx'[c].mode = ctx[c].mode /\ ctx'[c].then = ctx[c].then
           /\ ctx'[c].round = ctx[c].round /\ ctx'[c].handle = ctx[c].handle
<1> DEFINE k == ctx[c]
           rest == Tail(k.todo)
           k1 == [k EXCEPT !.todo = rest]
           k2 == [k1 EXCEPT !.at = IF rest = <<>> THEN k.then ELSE k.at]
<1>1. CtxShape(k) BY DEF Inv, Shape
<1>2. k1.at = k.at /\ CtxShape(k1) /\ k1.todo = rest /\ k1.then = k.then /\ k1.home = k.home
      /\ k1.mode = k.mode /\ k1.round = k.round /\ k1.handle = k.handle
  BY <1>1 DEF CtxShape
<1>3. ctx' = [ctx EXCEPT ![c] = k2] BY <1>1, <1>2 DEF Advance, Inv, Shape, CtxShape
<1> HIDE DEF k1
<1>4. CtxShape(k2) /\ k2.todo = rest /\ k2.then = k.then /\ k2.home = k.home
      /\ k2.mode = k.mode /\ k2.round = k.round /\ k2.handle = k.handle
      /\ k2.at = IF rest = <<>> THEN k.then ELSE k.at
  BY <1>1, <1>2 DEF CtxShape
<1> HIDE DEF k2
<1>5. Moves(c) /\ ctx'[c] = k2 BY <1>3 DEF Moves, Inv, Shape
<1> QED BY <1>4, <1>5

LEMMA GotoMoves ==
    ASSUME Inv, NEW c \in Contexts, NEW at \in Labels, Goto(c, at)
    PROVE  /\ Moves(c) /\ CtxShape(ctx'[c]) /\ ctx'[c].at = at
           /\ ctx'[c].home = ctx[c].home /\ ctx'[c].mode = ctx[c].mode /\ ctx'[c].then = ctx[c].then
           /\ ctx'[c].round = ctx[c].round /\ ctx'[c].handle = ctx[c].handle
<1>1. CtxShape(ctx[c]) BY DEF Inv, Shape
<1>2. ctx' = [ctx EXCEPT ![c] = [ctx[c] EXCEPT !.at = at]] BY DEF Goto
<1>3. Moves(c) /\ ctx'[c] = [ctx[c] EXCEPT !.at = at] BY <1>2 DEF Moves, Inv, Shape
<1> QED BY <1>1, <1>3 DEF CtxShape

LEMMA RunMoves ==
    ASSUME Inv, NEW c \in Contexts, NEW todo, NEW then \in Labels, Run(c, todo, then)
    PROVE  /\ Moves(c) /\ CtxShape(ctx'[c]) /\ ctx'[c].at = "effects"
           /\ ctx'[c].todo = todo /\ ctx'[c].then = then
           /\ ctx'[c].home = ctx[c].home /\ ctx'[c].mode = ctx[c].mode
           /\ ctx'[c].round = ctx[c].round /\ ctx'[c].handle = ctx[c].handle
<1> DEFINE k == ctx[c]
           k1 == [k EXCEPT !.at = "effects"]
           k2 == [k1 EXCEPT !.todo = todo]
           k3 == [k2 EXCEPT !.then = then]
<1>1. CtxShape(k) BY DEF Inv, Shape
<1>2. ctx' = [ctx EXCEPT ![c] = k3] BY <1>1 DEF Run, Inv, Shape
<1>3. CtxShape(k1) /\ k1.at = "effects" /\ k1.home = k.home
      /\ k1.mode = k.mode /\ k1.round = k.round /\ k1.handle = k.handle
  BY <1>1 DEF CtxShape, Labels
<1> HIDE DEF k1
<1>4. CtxShape(k2) /\ k2.at = "effects" /\ k2.todo = todo /\ k2.home = k.home
      /\ k2.mode = k.mode /\ k2.round = k.round /\ k2.handle = k.handle
  BY <1>3 DEF CtxShape, Labels
<1> HIDE DEF k2
<1>5. CtxShape(k3) /\ k3.at = "effects" /\ k3.todo = todo /\ k3.then = then /\ k3.home = k.home
      /\ k3.mode = k.mode /\ k3.round = k.round /\ k3.handle = k.handle
  BY <1>4 DEF CtxShape, Labels
<1> HIDE DEF k3
<1>6. Moves(c) /\ ctx'[c] = k3 BY <1>2 DEF Moves, Inv, Shape
<1> QED BY <1>5, <1>6

\* What is left of an operation that rejects over an open engine.
LEMMA RejectedIs ==
    ASSUME NEW c \in Contexts
    PROVE  Rejected(c) = [at |-> "stuck", home |-> "none", mode |-> ctx[c].mode, todo |-> <<>>,
                          then |-> "none", round |-> 0, handle |-> ctx[c].handle]
<1> DEFINE k1 == [Idle EXCEPT !.at = "stuck"]
           k2 == [k1 EXCEPT !.mode = ctx[c].mode]
<1>1. k1 = [at |-> "stuck", home |-> "none", mode |-> "none", todo |-> <<>>, then |-> "none", round |-> 0,
            handle |-> NoStore]
  BY DEF Idle
<1> HIDE DEF k1
<1>2. k2 = [at |-> "stuck", home |-> "none", mode |-> ctx[c].mode, todo |-> <<>>, then |-> "none", round |-> 0,
            handle |-> NoStore]
  BY <1>1
<1> HIDE DEF k2
<1>3. [k2 EXCEPT !.handle = ctx[c].handle] =
      [at |-> "stuck", home |-> "none", mode |-> ctx[c].mode, todo |-> <<>>, then |-> "none", round |-> 0,
       handle |-> ctx[c].handle]
  BY <1>2
<1> QED BY <1>3 DEF k1, k2, Rejected

\* An operation that rejects leaves a state in which everything still fits.
LEMMA RejectKeeps ==
    ASSUME Inv, NEW c \in Contexts, InFlight(c), Reject(c), troubles' \in Nat,
           UNCHANGED <<durable, disk, owner, minted, exposed, condemned>>
    PROVE  Inv'
<1> DEFINE k == ctx[c]
           d == IF owner = c THEN Rejected(c) ELSE Idle
<1>1. CtxShape(k) BY DEF Inv, Shape
<1>2. Rejected(c) = [at |-> "stuck", home |-> "none", mode |-> k.mode, todo |-> <<>>,
                     then |-> "none", round |-> 0, handle |-> k.handle]
  BY RejectedIs
<1>3. ctx' = [ctx EXCEPT ![c] = d] BY DEF Reject
<1>4. CtxShape(Rejected(c)) BY <1>1, <1>2 DEF CtxShape, Labels, Grants
<1>5. /\ CtxShape(d) /\ d.at \in {"idle", "stuck"}
      /\ owner = c => d.at = "stuck" /\ d.mode = k.mode
  BY <1>2, <1>4 DEF CtxShape, Idle, Labels, Grants, Modes, NoStore
<1>9. owner = c => Holds(d) BY <1>5 DEF Inv, Owned, Holds
<1> HIDE DEF d
<1>6. Moves(c) /\ ctx'[c] = d BY <1>3 DEF Moves, Inv, Shape
<1>7. StoreShape' /\ Durable'
  BY DEF Inv, Shape, StoreShape, Durable, durable, Unclaimed, Claimed
<1>8. Fits(ctx[c])' /\ (owner' = c => Holds(ctx'[c])) BY <1>5, <1>6, <1>9 DEF Fits
<1> QED BY <1>1, <1>5, <1>6, <1>7, <1>8, OthersRest, StepKeeps

-----------------------------------------------------------------------------
(***************************************************************************)
(* What each effect does, and when it leaves the authorities in agreement. *)
(***************************************************************************)
LEMMA DeleteSentinel ==
    ASSUME Inv, NEW c \in Contexts, Perform(c, "deleteSentinel"), exposed' = exposed,
           record # "opfs-committed"
    PROVE  /\ sentinel' = FALSE /\ UNCHANGED <<record, dir, idb, pending, disk, minted, condemned>>
           /\ StoreShape' /\ Durable'
<1>1. sentinel' = FALSE /\ UNCHANGED <<record, dir, idb, pending, disk, minted, condemned>>
  BY DEF Perform, Phases
<1> QED BY <1>1 DEF Inv, Shape, StoreShape, Durable, Unclaimed, Claimed

LEMMA PublishSentinel ==
    ASSUME Inv, NEW c \in Contexts, Perform(c, "publishSentinel"), exposed' = exposed,
           Claimed, dir # NoStore, disk[dir] = "synced"
    PROVE  /\ sentinel' = TRUE /\ UNCHANGED <<record, dir, idb, pending, disk, minted, condemned>>
           /\ StoreShape' /\ Durable'
<1>1. sentinel' = TRUE /\ UNCHANGED <<record, dir, idb, pending, disk, minted, condemned>>
  BY DEF Perform, Phases
<1> QED BY <1>1 DEF Inv, Shape, StoreShape, Durable, Unclaimed, Claimed

LEMMA DeleteDirectory ==
    ASSUME Inv, NEW c \in Contexts, Perform(c, "deleteDirectory"), exposed' = exposed,
           ~sentinel
    PROVE  /\ dir' = NoStore /\ UNCHANGED <<record, sentinel, idb, pending, disk, minted, condemned>>
           /\ StoreShape' /\ Durable'
<1>1. dir' = NoStore /\ UNCHANGED <<record, sentinel, idb, pending, disk, minted, condemned>>
  BY DEF Perform, Phases
<1>2. NoStore \notin condemned BY DEF Inv, Shape, StoreShape, NoStore
<1>3. StoreShape' BY <1>1 DEF Inv, Shape, StoreShape, NoStore
<1>4. Durable' BY <1>1, <1>2 DEF Inv, Durable, Unclaimed, Claimed
<1> QED BY <1>1, <1>3, <1>4

LEMMA DeleteIdb ==
    ASSUME Inv, NEW c \in Contexts, Perform(c, "deleteIdb"), exposed' = exposed,
           record = "deleting"
    PROVE  /\ idb' = NoStore /\ UNCHANGED <<record, sentinel, dir, pending, disk, minted, condemned>>
           /\ StoreShape' /\ Durable'
<1>1. idb' = NoStore /\ UNCHANGED <<record, sentinel, dir, pending, disk, minted, condemned>>
  BY DEF Perform, Phases
<1>3. StoreShape' BY <1>1 DEF Inv, Shape, StoreShape, NoStore
<1>4. Durable' BY <1>1 DEF Inv, Durable, Unclaimed, Claimed
<1> QED BY <1>1, <1>3, <1>4

LEMMA NotePending ==
    ASSUME Inv, NEW c \in Contexts, NEW e \in {"notePending", "notePendingOwned"}, Perform(c, e), exposed' = exposed,
           record = "deleting"
    PROVE  /\ pending' = TRUE /\ UNCHANGED <<record, sentinel, dir, idb, disk, minted, condemned>>
           /\ StoreShape' /\ Durable'
<1>1. pending' = TRUE /\ UNCHANGED <<record, sentinel, dir, idb, disk, minted, condemned>>
  BY DEF Perform, Phases
<1>3. StoreShape' BY <1>1 DEF Inv, Shape, StoreShape
<1>4. Durable' BY <1>1 DEF Inv, Durable, Unclaimed, Claimed
<1> QED BY <1>1, <1>3, <1>4

LEMMA ClearPending ==
    ASSUME Inv, NEW c \in Contexts, Perform(c, "clearPending"), exposed' = exposed,
           ~sentinel, dir = NoStore
    PROVE  /\ pending' = FALSE /\ UNCHANGED <<record, sentinel, dir, idb, disk, minted, condemned>>
           /\ StoreShape' /\ Durable'
<1>1. pending' = FALSE /\ UNCHANGED <<record, sentinel, dir, idb, disk, minted, condemned>>
  BY DEF Perform, Phases
<1>3. StoreShape' BY <1>1 DEF Inv, Shape, StoreShape
<1>4. Durable' BY <1>1 DEF Inv, Durable, Unclaimed, Claimed
<1> QED BY <1>1, <1>3, <1>4

LEMMA StrictSync ==
    ASSUME Inv, NEW c \in Contexts, Perform(c, "strictSync"), exposed' = exposed,
           ctx[c].handle = dir, dir # NoStore
    PROVE  /\ disk'[dir] = "synced" /\ UNCHANGED <<record, sentinel, dir, idb, pending, minted, condemned>>
           /\ StoreShape' /\ Durable'
<1>1. disk' = [disk EXCEPT ![dir] = "synced"] /\ UNCHANGED <<record, sentinel, dir, idb, pending, minted, condemned>>
  BY DEF Perform, Phases, durable
<1>2. dir \in 1..MaxMints BY BootAssumption DEF Inv, Shape, StoreShape, NoStore
<1>3. StoreShape' /\ disk'[dir] = "synced" BY <1>1, <1>2 DEF Inv, Shape, StoreShape, Contents
<1>4. Durable' BY <1>1, <1>3 DEF Inv, Durable, Unclaimed, Claimed
<1> QED BY <1>1, <1>3, <1>4

LEMMA CreatesDirectory ==
    ASSUME Inv, CreateDirectory, Claimed, exposed' = exposed,
           UNCHANGED <<record, sentinel, idb, pending, disk, condemned>>
    PROVE  /\ dir' # NoStore
           /\ StoreShape' /\ Durable'
<1>1. dir' # NoStore /\ dir' \in 0..minted' /\ minted' \in Nat /\ minted <= minted' /\ minted' <= MaxMints
  BY DEF Inv, Shape, StoreShape, CreateDirectory, NoStore
<1>2. dir' = dir \/ (dir = NoStore /\ dir' = minted + 1) BY DEF CreateDirectory
<1>3. minted + 1 \notin condemned BY DEF Inv, Shape, StoreShape
<1>4. StoreShape' BY <1>1 DEF Inv, Shape, StoreShape
<1>5. Durable' BY <1>1, <1>2, <1>3 DEF Inv, Durable, Unclaimed, Claimed
<1> QED BY <1>1, <1>4, <1>5

\* The phases.
LEMMA WritesDeleting ==
    ASSUME Inv, NEW c \in Contexts, Perform(c, "deleting"), exposed' = exposed
    PROVE  /\ record' = "deleting" /\ UNCHANGED <<sentinel, dir, idb, pending, disk, minted>>
           /\ StoreShape' /\ Durable'
<1>1. record' = "deleting" /\ UNCHANGED <<sentinel, dir, idb, pending, disk, minted>>
      /\ condemned' = condemned \cup ({dir, idb} \ {NoStore})
  BY DEF Perform, WritePhase, Phases
<1>2. StoreShape' BY <1>1 DEF Inv, Shape, StoreShape, Phases, NoStore
<1>3. \A s \in exposed' \ condemned' : FALSE BY <1>1 DEF Inv, Shape, StoreShape, Durable, NoStore
<1>4. Durable' BY <1>1, <1>3 DEF Inv, Durable, Unclaimed, Claimed
<1> QED BY <1>1, <1>2, <1>4

LEMMA WritesPhase ==
    ASSUME Inv, NEW c \in Contexts, NEW e \in {"idb-authoritative", "opfs-candidate", "opfs-committed"}, Perform(c, e)
    PROVE  record' = e /\ UNCHANGED <<sentinel, dir, idb, pending, disk, minted, condemned>>
  BY DEF Perform, WritePhase, Phases

LEMMA DeleteRecord ==
    ASSUME Inv, NEW c \in Contexts, Perform(c, "deleteRecord")
    PROVE  record' = "none" /\ UNCHANGED <<sentinel, dir, idb, pending, disk, minted, condemned>>
  BY DEF Perform, WritePhase, Phases

LEMMA WritesUnclaimed ==
    ASSUME Inv, Unclaimed', UNCHANGED <<sentinel, dir, idb, pending, disk, minted, condemned, exposed>>,
           pending \/ (~sentinel /\ dir = NoStore), ~pending \/ record # "opfs-committed",
           record = "none" \/ (record \in {"opfs-candidate", "deleting"} /\ idb = NoStore)
    PROVE  StoreShape' /\ Durable'
<1>1. NoStore \notin condemned /\ NoStore \notin exposed BY DEF Inv, Shape, StoreShape, NoStore
<1>2. StoreShape' BY DEF Inv, Shape, StoreShape, Unclaimed, Phases
<1>3. Durable' BY <1>1 DEF Inv, Durable, Unclaimed, Claimed
<1> QED BY <1>2, <1>3

LEMMA WritesCandidate ==
    ASSUME Inv, ProvableVirgin, ~pending, record' = "opfs-candidate",
           UNCHANGED <<sentinel, dir, idb, pending, disk, minted, condemned, exposed>>
    PROVE  StoreShape' /\ Durable'
<1>1. NoStore \notin condemned /\ NoStore \notin exposed BY DEF Inv, Shape, StoreShape, NoStore
<1>2. StoreShape' BY DEF Inv, Shape, StoreShape, Phases
<1>3. Durable' BY <1>1 DEF Inv, Durable, Unclaimed, Claimed, ProvableVirgin
<1> QED BY <1>2, <1>3

LEMMA WritesCommitted ==
    ASSUME Inv, record = "opfs-candidate", sentinel, record' = "opfs-committed",
           UNCHANGED <<sentinel, dir, idb, pending, disk, minted, condemned, exposed>>
    PROVE  StoreShape' /\ Durable'
<1>2. StoreShape' BY DEF Inv, Shape, StoreShape, Phases
<1>3. Durable' BY DEF Inv, Durable, Unclaimed, Claimed
<1> QED BY <1>2, <1>3

-----------------------------------------------------------------------------
(***************************************************************************)
(* One effect of each plan.                                                *)
(***************************************************************************)
\* An effect that leaves the authorities in agreement, and brings its context
\* to a place that fits.
LEMMA EffectKeeps ==
    ASSUME Inv, NEW c \in Contexts, Effect(c), StoreShape', Durable', Fits(ctx[c])'
    PROVE  Inv'
<1>1. InFlight(c) /\ ctx[c].at = "effects" /\ Advance(c) BY DEF Effect, InFlight
<1>2. /\ Moves(c) /\ CtxShape(ctx'[c]) /\ ctx'[c].mode = ctx[c].mode
      /\ ctx'[c].at \in {"effects", ctx[c].then}
  BY <1>1, AdvanceMoves
<1>5. ctx[c].then = "idle" => ctx[c].mode = "destroy"
  BY <1>1 DEF Inv, Fits, Planned, Settling, Condemning, Deleting, Retiring, FallingBack, Starting, Committing, BackToBoot
<1>3. troubles' \in Nat /\ owner' = owner BY DEF Effect, Inv, Shape
<1>4. owner' = c => Holds(ctx'[c])
  BY <1>1, <1>2, <1>3, <1>5 DEF Inv, Owned, Holds
<1> QED BY <1>1, <1>2, <1>3, <1>4, OthersRest, StepKeeps

LEMMA EffectTakes ==
    ASSUME Inv, NEW c \in Contexts, Effect(c)
    PROVE  /\ Perform(c, Head(ctx[c].todo)) /\ exposed' = exposed
           /\ ctx'[c].todo = Tail(ctx[c].todo)
           /\ Tail(ctx[c].todo) = <<>> => ctx'[c].at = ctx[c].then
           /\ Tail(ctx[c].todo) # <<>> => ctx'[c].at = "effects"
           /\ ctx'[c].home = ctx[c].home /\ ctx'[c].mode = ctx[c].mode /\ ctx'[c].then = ctx[c].then
           /\ ctx'[c].round = ctx[c].round /\ ctx'[c].handle = ctx[c].handle
<1>1. Advance(c) /\ ctx[c].at = "effects" BY DEF Effect
<1> QED BY <1>1, AdvanceMoves DEF Effect

LEMMA SettlingKeeps ==
    ASSUME Inv, NEW c \in Contexts, Effect(c), Settling(ctx[c])
    PROVE  Inv'
<1> DEFINE k == ctx[c]
<1>1. Perform(c, Head(k.todo)) /\ exposed' = exposed BY EffectTakes
<1>2. /\ ctx'[c].todo = Tail(k.todo)
      /\ Tail(k.todo) = <<>> => ctx'[c].at = k.then
      /\ Tail(k.todo) # <<>> => ctx'[c].at = "effects"
      /\ ctx'[c].home = k.home /\ ctx'[c].mode = k.mode /\ ctx'[c].then = k.then
      /\ ctx'[c].round = k.round /\ ctx'[c].handle = k.handle
  BY EffectTakes
<1>3. pending /\ record # "opfs-committed" BY DEF Settling, Inv, Durable, Claimed
<1>4. k.then # "expose" BY DEF Settling
<1>5. CASE k.todo = <<"deleteSentinel", "deleteDirectory", "clearPending">>
  <2>1. Head(k.todo) = "deleteSentinel" /\ Tail(k.todo) = <<"deleteDirectory", "clearPending">> BY <1>5
  <2>2. sentinel' = FALSE /\ pending' = pending /\ StoreShape' /\ Durable' BY <1>1, <1>3, <2>1, DeleteSentinel
  <2>3. Settling(ctx[c])' /\ ctx'[c].at = "effects" BY <1>2, <2>1, <2>2 DEF Settling
  <2>4. Fits(ctx[c])' BY <2>3 DEF Fits, Planned
  <2> QED BY <1>4, <2>2, <2>4, EffectKeeps
<1>6. CASE k.todo = <<"deleteDirectory", "clearPending">> /\ ~sentinel
  <2>1. Head(k.todo) = "deleteDirectory" /\ Tail(k.todo) = <<"clearPending">> BY <1>6
  <2>2. dir' = NoStore /\ sentinel' = sentinel /\ pending' = pending /\ StoreShape' /\ Durable'
    BY <1>1, <1>6, <2>1, DeleteDirectory
  <2>3. Settling(ctx[c])' /\ ctx'[c].at = "effects" BY <1>2, <1>6, <2>1, <2>2 DEF Settling
  <2>4. Fits(ctx[c])' BY <2>3 DEF Fits, Planned
  <2> QED BY <1>4, <2>2, <2>4, EffectKeeps
<1>7. CASE k.todo = <<"clearPending">> /\ ~sentinel /\ dir = NoStore
  <2>1. Head(k.todo) = "clearPending" /\ Tail(k.todo) = <<>> BY <1>7
  <2>2. pending' = FALSE /\ StoreShape' /\ Durable' BY <1>1, <1>7, <2>1, ClearPending
  <2>3. ctx'[c].at = k.then BY <1>2, <2>1
  <2>4. Fits(ctx[c])' BY <1>2, <2>2, <2>3 DEF Fits, Settling
  <2> QED BY <1>4, <2>2, <2>4, EffectKeeps
<1> QED BY <1>5, <1>6, <1>7 DEF Settling

LEMMA CondemningKeeps ==
    ASSUME Inv, NEW c \in Contexts, Effect(c), Condemning(ctx[c])
    PROVE  Inv'
<1> DEFINE k == ctx[c]
<1>1. Perform(c, Head(k.todo)) /\ exposed' = exposed BY EffectTakes
<1>2. /\ ctx'[c].todo = Tail(k.todo)
      /\ Tail(k.todo) = <<>> => ctx'[c].at = k.then
      /\ Tail(k.todo) # <<>> => ctx'[c].at = "effects"
      /\ ctx'[c].home = k.home /\ ctx'[c].mode = k.mode /\ ctx'[c].then = k.then
      /\ ctx'[c].round = k.round /\ ctx'[c].handle = k.handle
  BY EffectTakes
<1>3. k.mode = "destroy" /\ k.then = "idle" BY DEF Condemning
<1>4. k.then # "expose" BY <1>3
<1>5. CASE k.todo = <<"deleting", "deleteSentinel", "deleteDirectory", "deleteIdb", "deleteRecord">>
  <2>1. Head(k.todo) = "deleting" /\ Tail(k.todo) = <<"deleteSentinel", "deleteDirectory", "deleteIdb", "deleteRecord">> BY <1>5
  <2>2. record' = "deleting" /\ UNCHANGED <<sentinel, dir, idb, pending>> /\ StoreShape' /\ Durable'
    BY <1>1, <1>3, <1>5, <2>1, WritesDeleting
  <2>3. Deleting(ctx[c])' /\ ctx'[c].at = "effects" BY <1>2, <1>3, <1>5, <2>1, <2>2 DEF Deleting
  <2>4. Fits(ctx[c])' BY <2>3 DEF Fits, Planned
  <2> QED BY <1>4, <2>2, <2>3, <2>4, EffectKeeps
<1>6. CASE k.todo = <<"deleting", "notePending", "notePendingOwned", "deleteIdb", "deleteRecord">>
  <2>1. Head(k.todo) = "deleting" /\ Tail(k.todo) = <<"notePending", "notePendingOwned", "deleteIdb", "deleteRecord">> BY <1>6
  <2>2. record' = "deleting" /\ UNCHANGED <<sentinel, dir, idb, pending>> /\ StoreShape' /\ Durable'
    BY <1>1, <1>3, <1>6, <2>1, WritesDeleting
  <2>3. Deleting(ctx[c])' /\ ctx'[c].at = "effects" BY <1>2, <1>3, <1>6, <2>1, <2>2 DEF Deleting
  <2>4. Fits(ctx[c])' BY <2>3 DEF Fits, Planned
  <2> QED BY <1>4, <2>2, <2>3, <2>4, EffectKeeps
<1> QED BY <1>3, <1>5, <1>6 DEF Condemning

LEMMA DeletingKeeps ==
    ASSUME Inv, NEW c \in Contexts, Effect(c), Deleting(ctx[c])
    PROVE  Inv'
<1> DEFINE k == ctx[c]
<1>1. Perform(c, Head(k.todo)) /\ exposed' = exposed BY EffectTakes
<1>2. /\ ctx'[c].todo = Tail(k.todo)
      /\ Tail(k.todo) = <<>> => ctx'[c].at = k.then
      /\ Tail(k.todo) # <<>> => ctx'[c].at = "effects"
      /\ ctx'[c].home = k.home /\ ctx'[c].mode = k.mode /\ ctx'[c].then = k.then
      /\ ctx'[c].round = k.round /\ ctx'[c].handle = k.handle
  BY EffectTakes
<1>3. /\ record = "deleting"
      /\ \/ k.then = "idle" /\ k.mode = "destroy"
         \/ BackToBoot(k)
         \/ k.then = "gate" /\ k.mode = "boot" /\ k.home = "blind"
  BY DEF Deleting
<1>4. k.then # "expose" BY <1>3 DEF BackToBoot
<1>5. CASE k.todo = <<"deleteSentinel", "deleteDirectory", "deleteIdb", "deleteRecord">>
  <2>1. Head(k.todo) = "deleteSentinel" /\ Tail(k.todo) = <<"deleteDirectory", "deleteIdb", "deleteRecord">> BY <1>5
  <2>2. sentinel' = FALSE /\ UNCHANGED <<record, dir, idb, pending>> /\ StoreShape' /\ Durable'
    BY <1>1, <1>3, <1>5, <2>1, DeleteSentinel
  <2>3. Deleting(ctx[c])' /\ ctx'[c].at = "effects" BY <1>2, <1>3, <1>5, <2>1, <2>2 DEF Deleting, BackToBoot
  <2>4. Fits(ctx[c])' BY <2>3 DEF Fits, Planned
  <2> QED BY <1>4, <2>2, <2>3, <2>4, EffectKeeps
<1>6. CASE k.todo = <<"deleteDirectory", "deleteIdb", "deleteRecord">> /\ ~sentinel
  <2>1. Head(k.todo) = "deleteDirectory" /\ Tail(k.todo) = <<"deleteIdb", "deleteRecord">> BY <1>6
  <2>2. dir' = NoStore /\ UNCHANGED <<record, sentinel, idb, pending>> /\ StoreShape' /\ Durable'
    BY <1>1, <1>3, <1>6, <2>1, DeleteDirectory
  <2>3. Deleting(ctx[c])' /\ ctx'[c].at = "effects" BY <1>2, <1>3, <1>6, <2>1, <2>2 DEF Deleting, BackToBoot
  <2>4. Fits(ctx[c])' BY <2>3 DEF Fits, Planned
  <2> QED BY <1>4, <2>2, <2>3, <2>4, EffectKeeps
<1>7. CASE k.todo = <<"notePending", "notePendingOwned", "deleteIdb", "deleteRecord">> /\ k.then = "idle"
  <2>1. Head(k.todo) = "notePending" /\ Tail(k.todo) = <<"notePendingOwned", "deleteIdb", "deleteRecord">> BY <1>7
  <2>2. pending' = TRUE /\ UNCHANGED <<record, sentinel, dir, idb>> /\ StoreShape' /\ Durable'
    BY <1>1, <1>3, <1>7, <2>1, NotePending
  <2>3. Deleting(ctx[c])' /\ ctx'[c].at = "effects" BY <1>2, <1>3, <1>7, <2>1, <2>2 DEF Deleting, BackToBoot
  <2>4. Fits(ctx[c])' BY <2>3 DEF Fits, Planned
  <2> QED BY <1>4, <2>2, <2>3, <2>4, EffectKeeps
<1>8. CASE k.todo = <<"notePendingOwned", "deleteIdb", "deleteRecord">> /\ k.then = "idle" /\ pending
  <2>1. Head(k.todo) = "notePendingOwned" /\ Tail(k.todo) = <<"deleteIdb", "deleteRecord">> BY <1>8
  <2>2. pending' = TRUE /\ UNCHANGED <<record, sentinel, dir, idb>> /\ StoreShape' /\ Durable'
    BY <1>1, <1>3, <1>8, <2>1, NotePending
  <2>3. Deleting(ctx[c])' /\ ctx'[c].at = "effects" BY <1>2, <1>3, <1>8, <2>1, <2>2 DEF Deleting, BackToBoot
  <2>4. Fits(ctx[c])' BY <2>3 DEF Fits, Planned
  <2> QED BY <1>4, <2>2, <2>3, <2>4, EffectKeeps
<1>9. CASE k.todo = <<"deleteIdb", "deleteRecord">> /\ (pending \/ (~sentinel /\ dir = NoStore))
  <2>1. Head(k.todo) = "deleteIdb" /\ Tail(k.todo) = <<"deleteRecord">> BY <1>9
  <2>2. idb' = NoStore /\ UNCHANGED <<record, sentinel, dir, pending>> /\ StoreShape' /\ Durable'
    BY <1>1, <1>3, <1>9, <2>1, DeleteIdb
  <2>3. Deleting(ctx[c])' /\ ctx'[c].at = "effects" BY <1>2, <1>3, <1>9, <2>1, <2>2 DEF Deleting, BackToBoot
  <2>4. Fits(ctx[c])' BY <2>3 DEF Fits, Planned
  <2> QED BY <1>4, <2>2, <2>3, <2>4, EffectKeeps
<1>10. CASE k.todo = <<"deleteRecord">> /\ idb = NoStore /\ (pending \/ (~sentinel /\ dir = NoStore))
  <2>1. Head(k.todo) = "deleteRecord" /\ Tail(k.todo) = <<>> BY <1>10
  <2>0. record' = "none" /\ UNCHANGED <<sentinel, dir, idb, pending, disk, minted, condemned>>
    BY <1>1, <2>1, DeleteRecord
  <2>2. StoreShape' /\ Durable'
    BY <1>1, <1>3, <1>10, <2>0, WritesUnclaimed DEF Unclaimed, Inv, Durable, Claimed
  <2>3. ctx'[c].at = k.then BY <1>2, <2>1
  <2>4. Fits(ctx[c])' BY <1>2, <1>3, <1>10, <2>0, <2>2, <2>3 DEF Fits, Deleting, BackToBoot
  <2> QED BY <1>4, <2>2, <2>3, <2>4, EffectKeeps
<1> QED BY <1>3, <1>5, <1>6, <1>7, <1>8, <1>9, <1>10 DEF Deleting

LEMMA RetiringKeeps ==
    ASSUME Inv, NEW c \in Contexts, Effect(c), Retiring(ctx[c])
    PROVE  Inv'
<1> DEFINE k == ctx[c]
<1>1. Perform(c, Head(k.todo)) /\ exposed' = exposed BY EffectTakes
<1>2. /\ ctx'[c].todo = Tail(k.todo)
      /\ Tail(k.todo) = <<>> => ctx'[c].at = k.then
      /\ Tail(k.todo) # <<>> => ctx'[c].at = "effects"
      /\ ctx'[c].home = k.home /\ ctx'[c].mode = k.mode /\ ctx'[c].then = k.then
      /\ ctx'[c].round = k.round /\ ctx'[c].handle = k.handle
  BY EffectTakes
<1>3. record = "opfs-candidate" /\ BackToBoot(k) /\ idb = NoStore BY DEF Retiring, Inv, Durable, Claimed
<1>4. k.then # "expose" BY <1>3 DEF BackToBoot
<1>5. CASE k.todo = <<"deleteSentinel", "deleteDirectory", "deleteRecord">>
  <2>1. Head(k.todo) = "deleteSentinel" /\ Tail(k.todo) = <<"deleteDirectory", "deleteRecord">> BY <1>5
  <2>2. sentinel' = FALSE /\ UNCHANGED <<record, dir, idb, pending>> /\ StoreShape' /\ Durable'
    BY <1>1, <1>3, <1>5, <2>1, DeleteSentinel
  <2>3. Retiring(ctx[c])' /\ ctx'[c].at = "effects" BY <1>2, <1>3, <1>5, <2>1, <2>2 DEF Retiring, BackToBoot
  <2>4. Fits(ctx[c])' BY <2>3 DEF Fits, Planned
  <2> QED BY <1>4, <2>2, <2>3, <2>4, EffectKeeps
<1>6. CASE k.todo = <<"deleteDirectory", "deleteRecord">> /\ ~sentinel
  <2>1. Head(k.todo) = "deleteDirectory" /\ Tail(k.todo) = <<"deleteRecord">> BY <1>6
  <2>2. dir' = NoStore /\ UNCHANGED <<record, sentinel, idb, pending>> /\ StoreShape' /\ Durable'
    BY <1>1, <1>3, <1>6, <2>1, DeleteDirectory
  <2>3. Retiring(ctx[c])' /\ ctx'[c].at = "effects" BY <1>2, <1>3, <1>6, <2>1, <2>2 DEF Retiring, BackToBoot
  <2>4. Fits(ctx[c])' BY <2>3 DEF Fits, Planned
  <2> QED BY <1>4, <2>2, <2>3, <2>4, EffectKeeps
<1>7. CASE k.todo = <<"deleteRecord">> /\ ~sentinel /\ dir = NoStore
  <2>1. Head(k.todo) = "deleteRecord" /\ Tail(k.todo) = <<>> BY <1>7
  <2>0. record' = "none" /\ UNCHANGED <<sentinel, dir, idb, pending, disk, minted, condemned>>
    BY <1>1, <2>1, DeleteRecord
  <2>2. StoreShape' /\ Durable'
    BY <1>1, <1>3, <1>7, <2>0, WritesUnclaimed DEF Unclaimed, Inv, Durable, Claimed
  <2>3. ctx'[c].at = k.then BY <1>2, <2>1
  <2>4. Fits(ctx[c])' BY <1>2, <1>3, <1>7, <2>0, <2>2, <2>3 DEF Fits, Retiring, BackToBoot
  <2> QED BY <1>4, <2>2, <2>3, <2>4, EffectKeeps
<1> QED BY <1>3, <1>5, <1>6, <1>7 DEF Retiring

LEMMA FallingBackKeeps ==
    ASSUME Inv, NEW c \in Contexts, Effect(c), FallingBack(ctx[c])
    PROVE  Inv'
<1> DEFINE k == ctx[c]
<1>1. Perform(c, Head(k.todo)) /\ exposed' = exposed BY EffectTakes
<1>2. /\ ctx'[c].todo = Tail(k.todo)
      /\ Tail(k.todo) = <<>> => ctx'[c].at = k.then
      /\ Tail(k.todo) # <<>> => ctx'[c].at = "effects"
      /\ ctx'[c].home = k.home /\ ctx'[c].mode = k.mode /\ ctx'[c].then = k.then
      /\ ctx'[c].round = k.round /\ ctx'[c].handle = k.handle
  BY EffectTakes
<1>3. ~pending /\ k.then = "gate" /\ k.mode = "boot" BY DEF FallingBack
<1>4. k.then # "expose" BY <1>3
<1>5. CASE k.todo = <<"deleteIdb", "deleteSentinel", "deleteDirectory", "idb-authoritative">> /\ record = "deleting"
  <2>1. Head(k.todo) = "deleteIdb" /\ Tail(k.todo) = <<"deleteSentinel", "deleteDirectory", "idb-authoritative">> BY <1>5
  <2>2. idb' = NoStore /\ UNCHANGED <<record, sentinel, dir, pending>> /\ StoreShape' /\ Durable'
    BY <1>1, <1>3, <1>5, <2>1, DeleteIdb
  <2>3. FallingBack(ctx[c])' /\ ctx'[c].at = "effects" BY <1>2, <1>3, <1>5, <2>1, <2>2 DEF FallingBack
  <2>4. Fits(ctx[c])' BY <2>3 DEF Fits, Planned
  <2> QED BY <1>4, <2>2, <2>3, <2>4, EffectKeeps
<1>6. CASE k.todo = <<"deleteSentinel", "deleteDirectory", "idb-authoritative">> /\ record \in {"opfs-candidate", "deleting"} /\ idb = NoStore
  <2>1. Head(k.todo) = "deleteSentinel" /\ Tail(k.todo) = <<"deleteDirectory", "idb-authoritative">> BY <1>6
  <2>2. sentinel' = FALSE /\ UNCHANGED <<record, dir, idb, pending>> /\ StoreShape' /\ Durable'
    BY <1>1, <1>3, <1>6, <2>1, DeleteSentinel
  <2>3. FallingBack(ctx[c])' /\ ctx'[c].at = "effects" BY <1>2, <1>3, <1>6, <2>1, <2>2 DEF FallingBack
  <2>4. Fits(ctx[c])' BY <2>3 DEF Fits, Planned
  <2> QED BY <1>4, <2>2, <2>3, <2>4, EffectKeeps
<1>7. CASE k.todo = <<"deleteDirectory", "idb-authoritative">> /\ record \in {"opfs-candidate", "deleting"} /\ idb = NoStore /\ ~sentinel
  <2>1. Head(k.todo) = "deleteDirectory" /\ Tail(k.todo) = <<"idb-authoritative">> BY <1>7
  <2>2. dir' = NoStore /\ UNCHANGED <<record, sentinel, idb, pending>> /\ StoreShape' /\ Durable'
    BY <1>1, <1>3, <1>7, <2>1, DeleteDirectory
  <2>3. FallingBack(ctx[c])' /\ ctx'[c].at = "effects" BY <1>2, <1>3, <1>7, <2>1, <2>2 DEF FallingBack
  <2>4. Fits(ctx[c])' BY <2>3 DEF Fits, Planned
  <2> QED BY <1>4, <2>2, <2>3, <2>4, EffectKeeps
<1>8. CASE k.todo = <<"idb-authoritative">> /\ ~sentinel /\ dir = NoStore /\ (record = "none" \/ (record \in {"opfs-candidate", "deleting"} /\ idb = NoStore))
  <2>1. Head(k.todo) = "idb-authoritative" /\ Tail(k.todo) = <<>> BY <1>8
  <2>0. record' = "idb-authoritative" /\ UNCHANGED <<sentinel, dir, idb, pending, disk, minted, condemned>>
    BY <1>1, <2>1, WritesPhase
  <2>2. StoreShape' /\ Durable'
    BY <1>1, <1>3, <1>8, <2>0, WritesUnclaimed DEF Unclaimed, Inv, Durable, Claimed
  <2>3. ctx'[c].at = k.then BY <1>2, <2>1
  <2>4. Fits(ctx[c])' BY <1>2, <1>3, <1>8, <2>0, <2>2, <2>3 DEF Fits, FallingBack
  <2> QED BY <1>4, <2>2, <2>3, <2>4, EffectKeeps
<1> QED BY <1>3, <1>5, <1>6, <1>7, <1>8 DEF FallingBack

LEMMA StartingKeeps ==
    ASSUME Inv, NEW c \in Contexts, Effect(c), Starting(ctx[c])
    PROVE  Inv'
<1> DEFINE k == ctx[c]
<1>1. Perform(c, Head(k.todo)) /\ exposed' = exposed BY EffectTakes
<1>2. /\ ctx'[c].todo = Tail(k.todo)
      /\ Tail(k.todo) = <<>> => ctx'[c].at = k.then
      /\ Tail(k.todo) # <<>> => ctx'[c].at = "effects"
      /\ ctx'[c].home = k.home /\ ctx'[c].mode = k.mode /\ ctx'[c].then = k.then
      /\ ctx'[c].round = k.round /\ ctx'[c].handle = k.handle
  BY EffectTakes
<1>3. ~pending /\ k.then = "handle" /\ k.home = "granted" BY DEF Starting
<1>4. k.then # "expose" BY <1>3
<1>5. CASE k.todo = <<"opfs-candidate", "createDirectory">> /\ ProvableVirgin /\ k.mode = "fresh"
  <2>1. Head(k.todo) = "opfs-candidate" /\ Tail(k.todo) = <<"createDirectory">> BY <1>5
  <2>0. record' = "opfs-candidate" /\ UNCHANGED <<sentinel, dir, idb, pending, disk, minted, condemned>>
    BY <1>1, <2>1, WritesPhase
  <2>2. StoreShape' /\ Durable'
    BY <1>1, <1>3, <1>5, <2>0, WritesCandidate
  <2>3. Starting(ctx[c])' /\ ctx'[c].at = "effects" BY <1>2, <1>3, <1>5, <2>0, <2>1, <2>2 DEF Starting, Opening, Claimed
  <2>4. Fits(ctx[c])' BY <2>3 DEF Fits, Planned
  <2> QED BY <1>4, <2>2, <2>3, <2>4, EffectKeeps
<1>6. CASE k.todo = <<"opfs-candidate">> /\ ProvableVirgin /\ k.mode = "adopted" /\ k.round = 0
  <2>1. Head(k.todo) = "opfs-candidate" /\ Tail(k.todo) = <<>> BY <1>6
  <2>0. record' = "opfs-candidate" /\ UNCHANGED <<sentinel, dir, idb, pending, disk, minted, condemned>>
    BY <1>1, <2>1, WritesPhase
  <2>2. StoreShape' /\ Durable'
    BY <1>1, <1>3, <1>6, <2>0, WritesCandidate
  <2>3. ctx'[c].at = k.then BY <1>2, <2>1
  <2>4. Fits(ctx[c])' BY <1>2, <1>3, <1>6, <2>0, <2>2, <2>3 DEF Fits, Starting, Opening, Claimed
  <2> QED BY <1>4, <2>2, <2>3, <2>4, EffectKeeps
<1>7. CASE k.todo = <<"createDirectory">> /\ k.mode = "fresh" /\ record = "opfs-candidate"
  <2>1. Head(k.todo) = "createDirectory" /\ Tail(k.todo) = <<>> BY <1>7
  <2>0. CreateDirectory /\ UNCHANGED <<record, sentinel, idb, pending, disk, condemned>>
    BY <1>1, <2>1 DEF Perform, Phases
  <2>2. StoreShape' /\ Durable'
    BY <1>1, <1>3, <1>7, <2>0, CreatesDirectory DEF Claimed
  <2>3. ctx'[c].at = k.then BY <1>2, <2>1
  <2>4. Fits(ctx[c])' BY <1>2, <1>3, <1>7, <2>0, <2>2, <2>3 DEF Fits, Starting, Opening, Claimed
  <2> QED BY <1>4, <2>2, <2>3, <2>4, EffectKeeps
<1> QED BY <1>3, <1>5, <1>6, <1>7 DEF Starting

LEMMA CommittingKeeps ==
    ASSUME Inv, NEW c \in Contexts, Effect(c), Committing(ctx[c])
    PROVE  Inv'
<1> DEFINE k == ctx[c]
<1>1. Perform(c, Head(k.todo)) /\ exposed' = exposed BY EffectTakes
<1>2. /\ ctx'[c].todo = Tail(k.todo)
      /\ Tail(k.todo) = <<>> => ctx'[c].at = k.then
      /\ Tail(k.todo) # <<>> => ctx'[c].at = "effects"
      /\ ctx'[c].home = k.home /\ ctx'[c].mode = k.mode /\ ctx'[c].then = k.then
      /\ ctx'[c].round = k.round /\ ctx'[c].handle = k.handle
  BY EffectTakes
<1>3. /\ ~pending /\ k.then = "expose" /\ k.mode \in {"fresh", "adopted"}
      /\ record = "opfs-candidate" /\ k.handle = dir /\ dir # NoStore
  BY DEF Committing
<1>4. ctx'[c].at \in {"effects", "expose"} BY <1>2, <1>3
<1>5. CASE k.todo = <<"strictSync", "publishSentinel", "opfs-committed">>
  <2>1. Head(k.todo) = "strictSync" /\ Tail(k.todo) = <<"publishSentinel", "opfs-committed">> BY <1>5
  <2>2. disk'[dir] = "synced" /\ UNCHANGED <<record, sentinel, dir, idb, pending>> /\ StoreShape' /\ Durable'
    BY <1>1, <1>3, <1>5, <2>1, StrictSync
  <2>3. Committing(ctx[c])' /\ ctx'[c].at = "effects" BY <1>2, <1>3, <1>5, <2>1, <2>2 DEF Committing
  <2>4. Fits(ctx[c])' BY <2>3 DEF Fits, Planned
  <2> QED BY <1>4, <2>2, <2>3, <2>4, EffectKeeps
<1>6. CASE k.todo = <<"publishSentinel", "opfs-committed">> /\ disk[dir] = "synced"
  <2>1. Head(k.todo) = "publishSentinel" /\ Tail(k.todo) = <<"opfs-committed">> BY <1>6
  <2>2. sentinel' = TRUE /\ UNCHANGED <<record, dir, idb, pending>> /\ StoreShape' /\ Durable'
    BY <1>1, <1>3, <1>6, <2>1, PublishSentinel DEF Claimed
  <2>3. Committing(ctx[c])' /\ ctx'[c].at = "effects" BY <1>2, <1>3, <1>6, <2>1, <2>2 DEF Committing
  <2>4. Fits(ctx[c])' BY <2>3 DEF Fits, Planned
  <2> QED BY <1>4, <2>2, <2>3, <2>4, EffectKeeps
<1>7. CASE k.todo = <<"opfs-committed">> /\ sentinel
  <2>1. Head(k.todo) = "opfs-committed" /\ Tail(k.todo) = <<>> BY <1>7
  <2>0. record' = "opfs-committed" /\ UNCHANGED <<sentinel, dir, idb, pending, disk, minted, condemned>>
    BY <1>1, <2>1, WritesPhase
  <2>2. StoreShape' /\ Durable'
    BY <1>1, <1>3, <1>7, <2>0, WritesCommitted
  <2>3. ctx'[c].at = k.then BY <1>2, <2>1
  <2>4. Fits(ctx[c])' BY <1>2, <1>3, <1>7, <2>0, <2>2, <2>3 DEF Fits, Committing
  <2> QED BY <1>4, <2>2, <2>3, <2>4, EffectKeeps
<1> QED BY <1>3, <1>5, <1>6, <1>7 DEF Committing

LEMMA EffectKeepsInv ==
    ASSUME Inv, NEW c \in Contexts, Effect(c)
    PROVE  Inv'
<1>1. Planned(ctx[c]) BY DEF Inv, Fits, Effect
<1> QED BY <1>1, SettlingKeeps, CondemningKeeps, DeletingKeeps, RetiringKeeps, FallingBackKeeps, StartingKeeps,
           CommittingKeeps DEF Planned

-----------------------------------------------------------------------------
(***************************************************************************)
(* The other steps.                                                        *)
(***************************************************************************)
\* A step that moves one context and changes nothing durable.
LEMMA QuietStep ==
    ASSUME Inv, NEW c \in Contexts, \A d \in Contexts \ {c} : ~InFlight(d), Moves(c),
           UNCHANGED <<durable, disk, minted, exposed, condemned>>, troubles' \in Nat,
           owner' \in {owner, c, NoOne}, CtxShape(ctx'[c]), Fits(ctx[c])', owner' = c => Holds(ctx'[c])
    PROVE  Inv'
<1>1. StoreShape' /\ Durable' BY DEF Inv, Shape, StoreShape, Durable, durable, Unclaimed, Claimed
<1> QED BY <1>1, StepKeeps

\* A context that is at rest may begin when no operation is under way.
LEMMA BeginKeeps ==
    ASSUME Inv, NEW c \in Contexts, \A d \in Contexts : ~InFlight(d),
           NEW k, CtxShape(k), Fits(k), k.at # "idle",
           UNCHANGED <<durable, disk, minted, exposed, condemned, troubles>>,
           ctx' = [ctx EXCEPT ![c] = k], owner' \in {owner, NoOne}, owner' = c => Holds(k)
    PROVE  Inv'
<1>1. Moves(c) /\ ctx'[c] = k BY DEF Moves, Inv, Shape
<1>2. Fits(ctx[c])'
  BY <1>1 DEF Fits, Planned, Settling, Condemning, Deleting, Retiring, FallingBack, Starting, Committing, BackToBoot,
     Opening, Unclaimed, Claimed, ProvableVirgin, durable
<1>4. troubles' \in Nat /\ owner' \in {owner, c, NoOne} BY DEF Inv, Shape
<1> QED BY <1>1, <1>2, <1>4, QuietStep

LEMMA RestingOwnsNothing ==
    ASSUME Inv, NEW c \in Contexts, ctx[c].at = "idle"
    PROVE  owner # c
  BY DEF Inv, Owned, Holds

\* The record an operation begins with.
LEMMA BegunAt ==
    ASSUME NEW at, NEW home, NEW mode
    PROVE  [Idle EXCEPT !.at = at, !.home = home, !.mode = mode] =
           [at |-> at, home |-> home, mode |-> mode, todo |-> <<>>, then |-> "none", round |-> 0, handle |-> NoStore]
<1> DEFINE k1 == [Idle EXCEPT !.at = at]
           k2 == [k1 EXCEPT !.home = home]
           k3 == [k2 EXCEPT !.mode = mode]
<1>1. k1 = [at |-> at, home |-> "none", mode |-> "none", todo |-> <<>>, then |-> "none", round |-> 0,
            handle |-> NoStore]
  BY DEF Idle
<1> HIDE DEF k1
<1>2. k2 = [at |-> at, home |-> home, mode |-> "none", todo |-> <<>>, then |-> "none", round |-> 0,
            handle |-> NoStore]
  BY <1>1
<1> HIDE DEF k2
<1>3. k3 = [at |-> at, home |-> home, mode |-> mode, todo |-> <<>>, then |-> "none", round |-> 0, handle |-> NoStore]
  BY <1>2
<1> QED BY <1>3 DEF k1, k2

LEMMA Prepended ==
    ASSUME NEW S, NEW e \in S, NEW a \in S, NEW b \in S, NEW c \in S, NEW d \in S
    PROVE <<e>> \o <<a, b, c, d>> = <<e, a, b, c, d>>
<1>1. /\ <<e>> \in Seq(S) /\ <<a, b, c, d>> \in Seq(S) /\ <<e, a, b, c, d>> \in Seq(S)
      /\ Len(<<e>>) = 1 /\ Len(<<a, b, c, d>>) = 4 /\ Len(<<e, a, b, c, d>>) = 5
  OBVIOUS
<1>2. PICK s \in Seq(S) : s = <<e>> BY <1>1
<1>3. PICK t \in Seq(S) : t = <<a, b, c, d>> BY <1>1
<1>4. PICK u \in Seq(S) : u = <<e, a, b, c, d>> BY <1>1
<1>5. s[1] = e /\ t[1] = a /\ t[2] = b /\ t[3] = c /\ t[4] = d BY <1>2, <1>3
<1>6. u[1] = e /\ u[2] = a /\ u[3] = b /\ u[4] = c /\ u[5] = d BY <1>4
<1>7. Len(s) = 1 /\ Len(t) = 4 /\ Len(u) = 5 BY <1>1, <1>2, <1>3, <1>4
<1>8. /\ s \o t \in Seq(S) /\ Len(s \o t) = Len(s) + Len(t)
      /\ \A i \in 1..Len(s) + Len(t) : (s \o t)[i] = IF i <= Len(s) THEN s[i] ELSE t[i - Len(s)]
  BY ConcatProperties
<1>9. PICK v \in Seq(S) : v = s \o t BY <1>8
<1>10. Len(v) = 5 /\ \A i \in 1..5 : v[i] = IF i <= 1 THEN s[i] ELSE t[i - 1]
  BY <1>7, <1>8, <1>9
<1>11. v[1] = s[1] /\ v[2] = t[1] /\ v[3] = t[2] /\ v[4] = t[3] /\ v[5] = t[4] BY <1>10
<1>12. \A i \in 1..5 : v[i] = u[i] BY <1>5, <1>6, <1>11
<1>13. v = u BY <1>7, <1>10, <1>12, SeqEqual
<1> QED BY <1>2, <1>3, <1>4, <1>9, <1>13
LEMMA TheDestruction ==
    ASSUME NEW home
    PROVE  \/ RunDestruction(home) =
                 <<"deleting", "deleteSentinel", "deleteDirectory", "deleteIdb", "deleteRecord">>
           \/ RunDestruction(home) =
                 <<"deleting", "notePending", "notePendingOwned", "deleteIdb", "deleteRecord">>
<1> DEFINE S == {"deleting", "deleteSentinel", "deleteDirectory", "deleteIdb", "deleteRecord", "notePending",
                 "notePendingOwned"}
<1>0. /\ "deleting" \in S /\ "deleteSentinel" \in S /\ "deleteDirectory" \in S /\ "deleteIdb" \in S
      /\ "deleteRecord" \in S /\ "notePending" \in S /\ "notePendingOwned" \in S
  OBVIOUS
<1> HIDE DEF S
<1>1. <<"deleting">> \o <<"deleteSentinel", "deleteDirectory", "deleteIdb", "deleteRecord">> =
      <<"deleting", "deleteSentinel", "deleteDirectory", "deleteIdb", "deleteRecord">>
  BY <1>0, Prepended
<1>2. <<"deleting">> \o <<"notePending", "notePendingOwned", "deleteIdb", "deleteRecord">> =
      <<"deleting", "notePending", "notePendingOwned", "deleteIdb", "deleteRecord">>
  BY <1>0, Prepended
<1>3. CASE home = "blind" BY <1>2, <1>3 DEF RunDestruction
<1>4. CASE home # "blind" BY <1>1, <1>4 DEF RunDestruction, ResumeDeletion
<1> QED BY <1>3, <1>4

LEMMA BootKeeps ==
    ASSUME Windows = {}, Inv, NEW c \in Contexts, NEW home \in Homes, Boot(c, home)
    PROVE  Inv'
<1> DEFINE at == IF home = "granted" THEN "resolve" ELSE "gate"
           k == [Idle EXCEPT !.at = at, !.home = home, !.mode = "boot"]
<1>1. k = [at |-> at, home |-> home, mode |-> "boot", todo |-> <<>>, then |-> "none", round |-> 0, handle |-> NoStore]
  BY BegunAt
<1>2. ctx' = [ctx EXCEPT ![c] = k] BY DEF Boot, Begin
<1> HIDE DEF k
<1>3. CtxShape(k) /\ Fits(k) /\ k.at # "idle"
  BY <1>1, BootAssumption DEF CtxShape, Fits, Labels, Grants, Modes, NoStore
<1>4. (\A d \in Contexts : ~InFlight(d)) /\ ctx[c].at = "idle" BY DEF Boot, MayBegin, NoneInFlight
<1>5. owner' = owner /\ UNCHANGED <<durable, disk, minted, exposed, condemned, troubles>> BY DEF Boot, history
<1>6. owner # c BY <1>4, RestingOwnsNothing
<1> QED BY <1>2, <1>3, <1>4, <1>5, <1>6, BeginKeeps

LEMMA ProvisionKeeps ==
    ASSUME Windows = {}, Inv, NEW c \in Contexts, Provision(c)
    PROVE  Inv'
<1>1. (\A d \in Contexts : ~InFlight(d)) /\ ctx[c].at = "idle" /\ ~pending BY DEF Provision, MayBegin, NoneInFlight
<1>2. owner' = owner /\ UNCHANGED <<durable, disk, minted, exposed, condemned, troubles>> BY DEF Provision, history
<1>3. owner # c BY <1>1, RestingOwnsNothing
<1>4. CASE record = "opfs-committed" /\ Begin(c, "granted", "adopted", "handle")
  <2> DEFINE k == [Idle EXCEPT !.at = "handle", !.home = "granted", !.mode = "adopted"]
  <2>1. k = [at |-> "handle", home |-> "granted", mode |-> "adopted", todo |-> <<>>, then |-> "none", round |-> 0,
             handle |-> NoStore]
    BY BegunAt
  <2>2. ctx' = [ctx EXCEPT ![c] = k] BY <1>4 DEF Begin
  <2> HIDE DEF k
  <2>3. CtxShape(k) /\ Fits(k) /\ k.at # "idle"
    BY <1>1, <1>4, <2>1 DEF CtxShape, Fits, Labels, Grants, Modes, NoStore, Opening, Claimed
  <2> QED BY <1>1, <1>2, <1>3, <2>2, <2>3, BeginKeeps
<1>5. CASE /\ ProvableVirgin
           /\ ctx' = [ctx EXCEPT ![c] = [Idle EXCEPT !.at = "effects", !.home = "granted", !.mode = "adopted",
                                                     !.then = "handle", !.todo = <<"opfs-candidate">>]]
  <2> DEFINE k == [Idle EXCEPT !.at = "effects", !.home = "granted", !.mode = "adopted",
                               !.then = "handle", !.todo = <<"opfs-candidate">>]
  <2>1. k = [at |-> "effects", home |-> "granted", mode |-> "adopted", todo |-> <<"opfs-candidate">>,
             then |-> "handle", round |-> 0, handle |-> NoStore]
    <3> DEFINE k1 == [Idle EXCEPT !.at = "effects", !.home = "granted", !.mode = "adopted"]
               k2 == [k1 EXCEPT !.then = "handle"]
    <3>1. k1 = [at |-> "effects", home |-> "granted", mode |-> "adopted", todo |-> <<>>, then |-> "none", round |-> 0,
                handle |-> NoStore]
      BY BegunAt
    <3> HIDE DEF k1
    <3>2. k2 = [at |-> "effects", home |-> "granted", mode |-> "adopted", todo |-> <<>>, then |-> "handle", round |-> 0,
                handle |-> NoStore]
      BY <3>1
    <3> HIDE DEF k2
    <3>3. [k2 EXCEPT !.todo = <<"opfs-candidate">>] =
          [at |-> "effects", home |-> "granted", mode |-> "adopted", todo |-> <<"opfs-candidate">>,
           then |-> "handle", round |-> 0, handle |-> NoStore]
      BY <3>2
    <3> QED BY <3>3 DEF k, k1, k2
  <2>2. ctx' = [ctx EXCEPT ![c] = k] BY <1>5
  <2> HIDE DEF k
  <2>3. CtxShape(k) /\ k.at = "effects" BY <2>1 DEF CtxShape, Labels, Grants, Modes, NoStore
  <2>4. Starting(k) BY <1>1, <1>5, <2>1 DEF Starting
  <2>5. Fits(k) BY <2>3, <2>4 DEF Fits, Planned
  <2> QED BY <1>1, <1>2, <1>3, <2>2, <2>3, <2>5, BeginKeeps
<1> QED BY <1>4, <1>5 DEF Provision

LEMMA BootAgainKeeps ==
    ASSUME Windows = {}, Inv, NEW c \in Contexts, BootAgain(c)
    PROVE  Inv'
<1>1. (\A d \in Contexts : ~InFlight(d)) /\ ctx[c].at = "stuck" BY DEF BootAgain, NoneInFlight
<1>2. owner' = owner /\ UNCHANGED <<durable, disk, minted, exposed, condemned, troubles>> BY DEF BootAgain, history
<1>3. CASE /\ Undisturbed(c)
           /\ ctx' = [ctx EXCEPT ![c] = [Idle EXCEPT !.at = "milestone", !.home = "granted",
                                                     !.mode = "adopted", !.handle = ctx[c].handle]]
  <2> DEFINE k1 == [Idle EXCEPT !.at = "milestone", !.home = "granted", !.mode = "adopted"]
             k == [k1 EXCEPT !.handle = ctx[c].handle]
  <2>1. ctx' = [ctx EXCEPT ![c] = k] BY <1>3
  <2>2. k1 = [at |-> "milestone", home |-> "granted", mode |-> "adopted", todo |-> <<>>, then |-> "none", round |-> 0,
              handle |-> NoStore]
    BY BegunAt
  <2> HIDE DEF k1
  <2>3. k = [at |-> "milestone", home |-> "granted", mode |-> "adopted", todo |-> <<>>, then |-> "none", round |-> 0,
             handle |-> ctx[c].handle]
    BY <2>2
  <2> HIDE DEF k
  <2>4. ctx[c].handle \in Nat BY DEF Inv, Shape, CtxShape
  <2>5. CtxShape(k) BY <2>3, <2>4 DEF CtxShape, Labels, Grants, Modes
  <2>6. Claimed /\ ~pending /\ dir # NoStore /\ ctx[c].handle = dir
    BY <1>3 DEF Undisturbed, Inv, Durable, Claimed
  <2>7. Fits(k) /\ Holds(k) /\ k.at # "idle" BY <2>3, <2>6 DEF Fits, Opening, Holds
  <2> QED BY <1>1, <1>2, <2>1, <2>5, <2>7, BeginKeeps
<1>4. CASE Begin(c, "granted", "boot", "resolve")
  <2> DEFINE k == [Idle EXCEPT !.at = "resolve", !.home = "granted", !.mode = "boot"]
  <2>1. k = [at |-> "resolve", home |-> "granted", mode |-> "boot", todo |-> <<>>, then |-> "none", round |-> 0,
             handle |-> NoStore]
    BY BegunAt
  <2>2. ctx' = [ctx EXCEPT ![c] = k] BY <1>4 DEF Begin
  <2> HIDE DEF k
  <2>3. CtxShape(k) /\ Fits(k) /\ Holds(k) /\ k.at # "idle"
    BY <2>1 DEF CtxShape, Fits, Labels, Grants, Modes, NoStore, Holds
  <2> QED BY <1>1, <1>2, <2>2, <2>3, BeginKeeps
<1> QED BY <1>3, <1>4 DEF BootAgain

LEMMA BeginDestructionKeeps ==
    ASSUME Inv, NEW c \in Contexts, NEW home \in Grants, BeginDestruction(c, home),
           \A d \in Contexts : ~InFlight(d),
           UNCHANGED <<durable, disk, minted, exposed, condemned, troubles>>,
           owner' = IF owner = c THEN NoOne ELSE owner
    PROVE  Inv'
<1> DEFINE todo == RunDestruction(home)
           k == [Idle EXCEPT !.at = "effects", !.home = home, !.mode = "destroy", !.todo = todo, !.then = "idle"]
<1>1. \/ todo = <<"deleting", "deleteSentinel", "deleteDirectory", "deleteIdb", "deleteRecord">>
      \/ todo = <<"deleting", "notePending", "notePendingOwned", "deleteIdb", "deleteRecord">>
  BY TheDestruction
<1>2. ctx' = [ctx EXCEPT ![c] = k] BY DEF BeginDestruction
<1> HIDE DEF todo
<1>3. k = [at |-> "effects", home |-> home, mode |-> "destroy", todo |-> todo, then |-> "idle", round |-> 0,
           handle |-> NoStore]
  <2> DEFINE k1 == [Idle EXCEPT !.at = "effects", !.home = home, !.mode = "destroy"]
             k2 == [k1 EXCEPT !.todo = todo]
  <2>1. k1 = [at |-> "effects", home |-> home, mode |-> "destroy", todo |-> <<>>, then |-> "none", round |-> 0,
              handle |-> NoStore]
    BY BegunAt
  <2> HIDE DEF k1
  <2>2. k2 = [at |-> "effects", home |-> home, mode |-> "destroy", todo |-> todo, then |-> "none", round |-> 0,
              handle |-> NoStore]
    BY <2>1
  <2> HIDE DEF k2
  <2>3. [k2 EXCEPT !.then = "idle"] = [at |-> "effects", home |-> home, mode |-> "destroy", todo |-> todo,
                                       then |-> "idle", round |-> 0, handle |-> NoStore]
    BY <2>2
  <2> QED BY <2>3 DEF k, k1, k2
<1> HIDE DEF k
<1>4. CtxShape(k) /\ k.at = "effects" BY <1>3 DEF CtxShape, Labels, Modes, NoStore
<1>5. Condemning(k) BY <1>1, <1>3 DEF Condemning
<1>6. Fits(k) BY <1>4, <1>5 DEF Fits, Planned
<1>7. owner' \in {owner, NoOne} /\ owner' # c BY BootAssumption
<1> QED BY <1>2, <1>4, <1>6, <1>7, BeginKeeps

LEMMA DestroyKeeps ==
    ASSUME Windows = {}, Inv, NEW c \in Contexts,
           Destroy(c) \/ \E home \in Homes : DestroyStoreArtifacts(c, home)
    PROVE  Inv'
<1>1. CASE Destroy(c)
  <2>1. BeginDestruction(c, ctx[c].home) /\ (\A d \in Contexts : ~InFlight(d))
        /\ UNCHANGED <<durable, disk, minted, exposed, condemned, troubles>>
        /\ owner' = IF owner = c THEN NoOne ELSE owner
    BY <1>1 DEF Destroy, Released
  <2>2. ctx[c].home \in Grants BY DEF Inv, Shape, CtxShape
  <2> QED BY <2>1, <2>2, BeginDestructionKeeps
<1>2. CASE \E home \in Homes : DestroyStoreArtifacts(c, home)
  <2>1. PICK home \in Homes : DestroyStoreArtifacts(c, home) BY <1>2
  <2>2. BeginDestruction(c, home) /\ (\A d \in Contexts : ~InFlight(d)) /\ ctx[c].at = "idle"
        /\ UNCHANGED <<durable, disk, minted, exposed, condemned, troubles, owner>>
    BY <2>1 DEF DestroyStoreArtifacts, MayBegin, NoneInFlight
  <2>3. owner # c BY <2>2, RestingOwnsNothing
  <2>4. home \in Grants BY BootAssumption DEF Grants
  <2> QED BY <2>2, <2>3, <2>4, BeginDestructionKeeps
<1> QED BY <1>1, <1>2

LEMMA FailedStepKeeps ==
    ASSUME Inv, NEW c \in Contexts, EffectTimesOut(c) \/ EffectFails(c) \/ LocalInitFails(c)
    PROVE  Inv'
<1>1. InFlight(c) /\ Reject(c) /\ UNCHANGED <<durable, disk, owner, minted, exposed, condemned>>
  BY DEF EffectTimesOut, EffectFails, LocalInitFails, InFlight, history
<1>2. troubles' \in Nat BY DEF EffectTimesOut, EffectFails, LocalInitFails, Trouble, Inv, Shape
<1> QED BY <1>1, <1>2, RejectKeeps

\* One classification: what the verdict is on each state that can be met, when
\* nothing is pending.
LEMMA VerdictOf ==
    ASSUME Inv, ~pending
    PROVE  LET v == Verdict(ClassifyStoreBoot)
           IN  \/ record = "deleting" /\ v = [todo |-> ResumeDeletion, then |-> "resolve", mode |-> "boot"]
               \/ /\ record = "opfs-candidate"
                  /\ v = [todo |-> RetireCandidate, then |-> "resolve", mode |-> "boot"]
               \/ record = "opfs-committed" /\ v = [todo |-> <<>>, then |-> "handle", mode |-> "committed"]
               \/ record = "idb-authoritative" /\ v = [todo |-> <<>>, then |-> "gate", mode |-> "boot"]
               \/ /\ record = "none" /\ ~sentinel /\ dir = NoStore
                  /\ v = [todo |-> <<"idb-authoritative">>, then |-> "gate", mode |-> "boot"]
               \/ ProvableVirgin /\ v = [todo |-> BeginFreshCandidate, then |-> "handle", mode |-> "fresh"]
<1>1. record = "none" => ~sentinel /\ dir = NoStore BY DEF Inv, Durable, Unclaimed
<1>2. record \in Phases BY DEF Inv, Shape, StoreShape
<1>3. CASE record = "deleting" BY <1>3 DEF Verdict, ClassifyStoreBoot
<1>4. CASE record = "opfs-candidate" BY <1>4 DEF Verdict, ClassifyStoreBoot
<1>5. CASE record = "opfs-committed" BY <1>5 DEF Verdict, ClassifyStoreBoot
<1>6. CASE record = "idb-authoritative" BY <1>6 DEF Verdict, ClassifyStoreBoot
<1>7. CASE record = "none" /\ idb # NoStore BY <1>1, <1>7 DEF Verdict, ClassifyStoreBoot
<1>8. CASE record = "none" /\ idb = NoStore BY <1>1, <1>8 DEF Verdict, ClassifyStoreBoot, ProvableVirgin
<1> QED BY <1>2, <1>3, <1>4, <1>5, <1>6, <1>7, <1>8 DEF Phases

LEMMA ResolveKeeps ==
    ASSUME Inv, NEW c \in Contexts, ResolveStoreBoot(c)
    PROVE  Inv'
<1> DEFINE k == ctx[c]
           v == Verdict(ClassifyStoreBoot)
<1>1. /\ k.at = "resolve" /\ k.mode = "boot" /\ k.home = "granted"
      /\ k.round = 0 \/ (k.round = 1 /\ record = "none" /\ ~pending)
  BY DEF ResolveStoreBoot, Inv, Fits
<1>2. /\ UNCHANGED <<durable, disk, minted, exposed, condemned>> /\ owner' = owner /\ troubles' \in Nat
      /\ owner' \in {owner, c, NoOne}
  BY DEF ResolveStoreBoot, history, Inv, Shape
<1>3. InFlight(c) BY <1>1 DEF InFlight
<1>4. \A d \in Contexts \ {c} : ~InFlight(d) BY <1>3, OthersRest
<1>5. CASE pending
  <2>1. Run(c, SettlePendingOpfsDeletion, "resolve") BY <1>5 DEF ResolveStoreBoot
  <2>2. /\ Moves(c) /\ CtxShape(ctx'[c]) /\ ctx'[c].at = "effects"
        /\ ctx'[c].todo = SettlePendingOpfsDeletion /\ ctx'[c].then = "resolve"
        /\ ctx'[c].home = k.home /\ ctx'[c].mode = k.mode /\ ctx'[c].round = k.round
    BY <2>1, RunMoves DEF Labels
  <2>3. Settling(ctx[c])' BY <1>1, <1>2, <1>5, <2>2 DEF Settling, SettlePendingOpfsDeletion, durable
  <2>4. Fits(ctx[c])' /\ Holds(ctx'[c]) BY <1>1, <2>2, <2>3 DEF Fits, Planned, Holds
  <2> QED BY <1>2, <1>3, <1>4, <2>2, <2>4, QuietStep
<1>6. CASE ~pending
  <2> DEFINE at == IF v.todo = <<>> THEN v.then ELSE "effects"
             k1 == [k EXCEPT !.at = at]
             k2 == [k1 EXCEPT !.todo = v.todo]
             k3 == [k2 EXCEPT !.then = v.then]
             k4 == [k3 EXCEPT !.mode = v.mode]
             k5 == [k4 EXCEPT !.round = @ + 1]
  <2>1. ctx' = [ctx EXCEPT ![c].at = IF v.todo = <<>> THEN v.then ELSE "effects",
                           ![c].todo = v.todo, ![c].then = v.then, ![c].mode = v.mode, ![c].round = @ + 1]
    BY <1>1, <1>6 DEF ResolveStoreBoot, MaxDeletionReclassify
  <2>2. /\ v.then \in {"resolve", "handle", "gate"} /\ v.mode \in {"boot", "committed", "fresh"}
    BY <1>6, VerdictOf
  <2> HIDE DEF v
  <2>3. ctx' = [ctx EXCEPT ![c] = k5]
    <3> DEFINE f == [ctx EXCEPT ![c].at = IF v.todo = <<>> THEN v.then ELSE "effects",
                                ![c].todo = v.todo, ![c].then = v.then, ![c].mode = v.mode]
    <3>1. f = [ctx EXCEPT ![c] = k4] BY DEF Inv, Shape
    <3>2. ctx' = [f EXCEPT ![c].round = @ + 1] BY <2>1
    <3> HIDE DEF f, k4
    <3>3. f[c] = k4 BY <3>1 DEF Inv, Shape
    <3> QED BY <3>1, <3>2, <3>3 DEF Inv, Shape
  <2>4. CtxShape(k) BY DEF Inv, Shape
  <2>5. at \in Labels BY <2>2 DEF Labels
  <2> HIDE DEF at
  <2>6. CtxShape(k1) /\ k1.at = at /\ k1.home = k.home /\ k1.round = k.round BY <2>4, <2>5 DEF CtxShape
  <2> HIDE DEF k1
  <2>7. CtxShape(k2) /\ k2.at = at /\ k2.home = k.home /\ k2.round = k.round /\ k2.todo = v.todo
    BY <2>6 DEF CtxShape
  <2> HIDE DEF k2
  <2>8. CtxShape(k3) /\ k3.at = at /\ k3.home = k.home /\ k3.round = k.round /\ k3.todo = v.todo /\ k3.then = v.then
    BY <2>2, <2>7 DEF CtxShape, Labels
  <2> HIDE DEF k3
  <2>9. CtxShape(k4) /\ k4.at = at /\ k4.home = k.home /\ k4.round = k.round /\ k4.todo = v.todo /\ k4.then = v.then
        /\ k4.mode = v.mode
    BY <2>2, <2>8 DEF CtxShape, Modes
  <2> HIDE DEF k4
  <2>10. CtxShape(k5) /\ k5.at = at /\ k5.home = k.home /\ k5.round = k.round + 1 /\ k5.todo = v.todo
         /\ k5.then = v.then /\ k5.mode = v.mode
    BY <2>9 DEF CtxShape
  <2> HIDE DEF k5
  <2>11. Moves(c) /\ ctx'[c] = k5 BY <2>3 DEF Moves, Inv, Shape
  <2>12. UNCHANGED <<record, sentinel, dir, idb, pending>> BY <1>2 DEF durable
  <2>13. Fits(ctx[c])'
    <3>1. CASE record = "deleting" /\ v = [todo |-> ResumeDeletion, then |-> "resolve", mode |-> "boot"]
      <4>1. k5.at = "effects" BY <2>10, <3>1 DEF at, ResumeDeletion
      <4>2. Deleting(ctx[c])' BY <1>1, <1>6, <2>10, <2>11, <2>12, <3>1 DEF Deleting, BackToBoot, ResumeDeletion
      <4> QED BY <2>11, <4>1, <4>2 DEF Fits, Planned
    <3>2. CASE record = "opfs-candidate" /\ v = [todo |-> RetireCandidate, then |-> "resolve", mode |-> "boot"]
      <4>1. k5.at = "effects" BY <2>10, <3>2 DEF at, RetireCandidate
      <4>2. Retiring(ctx[c])' BY <1>1, <1>6, <2>10, <2>11, <2>12, <3>2 DEF Retiring, BackToBoot, RetireCandidate
      <4> QED BY <2>11, <4>1, <4>2 DEF Fits, Planned
    <3>3. CASE record = "opfs-committed" /\ v = [todo |-> <<>>, then |-> "handle", mode |-> "committed"]
      <4>1. k5.at = "handle" /\ k5.mode = "committed" BY <2>10, <3>3 DEF at
      <4> QED BY <1>1, <1>6, <2>10, <2>11, <2>12, <3>3, <4>1 DEF Fits, Opening
    <3>4. CASE record = "idb-authoritative" /\ v = [todo |-> <<>>, then |-> "gate", mode |-> "boot"]
      <4>1. k5.at = "gate" /\ k5.mode = "boot" BY <2>10, <3>4 DEF at
      <4> QED BY <1>6, <2>11, <2>12, <3>4, <4>1 DEF Fits
    <3>5. CASE /\ record = "none" /\ ~sentinel /\ dir = NoStore
               /\ v = [todo |-> <<"idb-authoritative">>, then |-> "gate", mode |-> "boot"]
      <4>1. k5.at = "effects" BY <2>10, <3>5 DEF at
      <4>2. FallingBack(ctx[c])' BY <1>6, <2>10, <2>11, <2>12, <3>5 DEF FallingBack
      <4> QED BY <2>11, <4>1, <4>2 DEF Fits, Planned
    <3>6. CASE ProvableVirgin /\ v = [todo |-> BeginFreshCandidate, then |-> "handle", mode |-> "fresh"]
      <4>1. k5.at = "effects" BY <2>10, <3>6 DEF at, BeginFreshCandidate
      <4>2. Starting(ctx[c])'
        BY <1>1, <1>6, <2>10, <2>11, <2>12, <3>6 DEF Starting, ProvableVirgin, BeginFreshCandidate
      <4> QED BY <2>11, <4>1, <4>2 DEF Fits, Planned
    <3> QED BY <1>6, <3>1, <3>2, <3>3, <3>4, <3>5, <3>6, VerdictOf DEF v
  <2>14. k5.at \in {"resolve", "handle", "gate", "effects"} BY <2>2, <2>10 DEF at
  <2>15. Holds(ctx'[c]) BY <2>2, <2>10, <2>11, <2>14 DEF Holds
  <2> QED BY <1>2, <1>3, <1>4, <2>10, <2>11, <2>13, <2>15, QuietStep
<1> QED BY <1>5, <1>6

LEMMA GateKeeps ==
    ASSUME Inv, NEW c \in Contexts, ResolveDeniedBootAuthority(c)
    PROVE  Inv'
<1> DEFINE k == ctx[c]
<1>1. /\ k.at = "gate" /\ k.mode = "boot"
      /\ k.home = "granted" => record = "idb-authoritative" /\ ~pending
  BY DEF ResolveDeniedBootAuthority, Inv, Fits
<1>2. /\ UNCHANGED <<durable, disk, minted, exposed, condemned>> /\ owner' = owner /\ troubles' \in Nat
      /\ owner' \in {owner, c, NoOne}
  BY DEF ResolveDeniedBootAuthority, history, Inv, Shape
<1>3. InFlight(c) BY <1>1 DEF InFlight
<1>4. \A d \in Contexts \ {c} : ~InFlight(d) BY <1>3, OthersRest
<1>5. UNCHANGED <<record, sentinel, dir, idb, pending>> BY <1>2 DEF durable
<1>6. ASSUME NEW todo, Run(c, todo, "gate"),
             /\ ctx'[c].todo = todo /\ ctx'[c].then = "gate" /\ ctx'[c].home = k.home /\ ctx'[c].mode = "boot" =>
                  Planned(ctx[c])'
      PROVE  Inv'
  <2>1. /\ Moves(c) /\ CtxShape(ctx'[c]) /\ ctx'[c].at = "effects" /\ ctx'[c].todo = todo
        /\ ctx'[c].then = "gate" /\ ctx'[c].home = k.home /\ ctx'[c].mode = k.mode
    BY <1>6, RunMoves DEF Labels
  <2>2. Fits(ctx[c])' /\ Holds(ctx'[c]) BY <1>1, <1>6, <2>1 DEF Fits, Holds
  <2> QED BY <1>2, <1>3, <1>4, <2>1, <2>2, QuietStep
<1>7. CASE pending /\ k.home # "blind" /\ Run(c, SettlePendingOpfsDeletion, "gate")
  BY <1>1, <1>5, <1>6, <1>7 DEF Planned, Settling, SettlePendingOpfsDeletion
<1>8. CASE Reject(c) BY <1>2, <1>3, <1>8, RejectKeeps
<1>9. CASE /\ record = "deleting" /\ pending /\ k.home = "blind"
           /\ Run(c, <<"deleteIdb", "deleteRecord">>, "gate")
  BY <1>5, <1>6, <1>9 DEF Planned, Deleting
<1>10. CASE /\ record = "deleting" /\ ~pending
            /\ Run(c, <<"deleteIdb", "deleteSentinel", "deleteDirectory", "idb-authoritative">>, "gate")
  BY <1>5, <1>6, <1>10 DEF Planned, FallingBack
<1>11. CASE /\ record = "opfs-candidate" /\ ~pending
            /\ Run(c, <<"deleteSentinel", "deleteDirectory", "idb-authoritative">>, "gate")
  <2>1. idb = NoStore BY <1>11 DEF Inv, Durable, Claimed
  <2> QED BY <1>5, <1>6, <1>11, <2>1 DEF Planned, FallingBack
<1>12. CASE record \in {"none", "idb-authoritative"} /\ Goto(c, "mint")
  <2>1. Moves(c) /\ CtxShape(ctx'[c]) /\ ctx'[c].at = "mint" /\ ctx'[c].mode = k.mode
    BY <1>12, GotoMoves DEF Labels
  <2>2. Fits(ctx[c])' /\ Holds(ctx'[c]) BY <1>1, <1>5, <1>12, <2>1 DEF Fits, Unclaimed, Holds
  <2> QED BY <1>2, <1>3, <1>4, <2>1, <2>2, QuietStep
<1> QED BY <1>7, <1>8, <1>9, <1>10, <1>11, <1>12 DEF ResolveDeniedBootAuthority

LEMMA MintKeeps ==
    ASSUME Inv, NEW c \in Contexts, MintIdb(c)
    PROVE  Inv'
<1> DEFINE k == ctx[c]
           k1 == [k EXCEPT !.at = "expose"]
           k2 == [k1 EXCEPT !.mode = "idb"]
           k3 == [k2 EXCEPT !.handle = idb']
<1>1. k.at = "mint" /\ Unclaimed BY DEF MintIdb, Inv, Fits
<1>2. InFlight(c) /\ owner' = owner /\ troubles' \in Nat
  BY <1>1 DEF InFlight, Inv, MintIdb, Shape
<1>3. \A d \in Contexts \ {c} : ~InFlight(d) BY <1>2, OthersRest
<1>4. /\ idb' \in 1..minted' /\ minted' \in Nat /\ minted <= minted' /\ minted' <= MaxMints
      /\ idb' = idb \/ (idb = NoStore /\ idb' = minted + 1)
      /\ UNCHANGED <<record, sentinel, dir, pending, disk, exposed, condemned>>
  BY DEF MintIdb, history, Inv, Shape, StoreShape, NoStore
<1>5. minted + 1 \notin condemned /\ NoStore \notin exposed BY DEF Inv, Shape, StoreShape, NoStore
<1>6. StoreShape' BY <1>4 DEF Inv, Shape, StoreShape
<1>7. Durable' BY <1>1, <1>4, <1>5 DEF Inv, Durable, Unclaimed, Claimed
<1>8. CtxShape(k) BY DEF Inv, Shape
<1>9. ctx' = [ctx EXCEPT ![c] = k3] BY DEF MintIdb, Inv, Shape
<1>10. CtxShape(k1) /\ k1.at = "expose" BY <1>8 DEF CtxShape, Labels
<1> HIDE DEF k1
<1>11. CtxShape(k2) /\ k2.at = "expose" /\ k2.mode = "idb" BY <1>10 DEF CtxShape, Modes
<1> HIDE DEF k2
<1>12. CtxShape(k3) /\ k3.at = "expose" /\ k3.mode = "idb" /\ k3.handle = idb' BY <1>4, <1>11 DEF CtxShape
<1> HIDE DEF k3
<1>13. Moves(c) /\ ctx'[c] = k3 BY <1>9 DEF Moves, Inv, Shape
<1>14. Fits(ctx[c])' BY <1>1, <1>4, <1>12, <1>13 DEF Fits, Unclaimed, NoStore
<1>15. Holds(ctx'[c]) BY <1>12, <1>13 DEF Holds
<1> QED BY <1>2, <1>3, <1>6, <1>7, <1>12, <1>13, <1>14, <1>15, StepKeeps

LEMMA HandleKeeps ==
    ASSUME Inv, NEW c \in Contexts, GetStoreDirectoryHandle(c)
    PROVE  Inv'
<1> DEFINE k == ctx[c]
           k1 == [k EXCEPT !.at = "acquire"]
           k2 == [k1 EXCEPT !.handle = dir']
<1>1. k.at = "handle" /\ Opening(k) BY DEF GetStoreDirectoryHandle, Inv, Fits
<1>2. InFlight(c) /\ owner' = owner /\ troubles' \in Nat
  BY <1>1 DEF InFlight, Inv, GetStoreDirectoryHandle, Shape
<1>3. \A d \in Contexts \ {c} : ~InFlight(d) BY <1>2, OthersRest
<1>4. CreateDirectory /\ UNCHANGED <<record, sentinel, idb, pending, disk, exposed, condemned>> /\ Claimed
  BY <1>1 DEF GetStoreDirectoryHandle, history, Opening, Claimed
<1>5. dir' # NoStore /\ StoreShape' /\ Durable' BY <1>4, CreatesDirectory
<1>6. dir' \in Nat BY <1>5 DEF StoreShape
<1>7. CtxShape(k) BY DEF Inv, Shape
<1>8. ctx' = [ctx EXCEPT ![c] = k2] BY DEF GetStoreDirectoryHandle, Inv, Shape
<1>9. CtxShape(k1) /\ k1.at = "acquire" /\ k1.mode = k.mode /\ k1.home = k.home /\ k1.round = k.round
  BY <1>7 DEF CtxShape, Labels
<1> HIDE DEF k1
<1>10. CtxShape(k2) /\ k2.at = "acquire" /\ k2.mode = k.mode /\ k2.home = k.home /\ k2.round = k.round /\ k2.handle = dir'
  BY <1>6, <1>9 DEF CtxShape
<1> HIDE DEF k2
<1>11. Moves(c) /\ ctx'[c] = k2 BY <1>8 DEF Moves, Inv, Shape
<1>12. Fits(ctx[c])' BY <1>1, <1>4, <1>5, <1>10, <1>11 DEF Fits, Opening, Claimed
<1>13. Holds(ctx'[c]) BY <1>1, <1>10, <1>11 DEF Holds, Opening
<1> QED BY <1>2, <1>3, <1>5, <1>10, <1>11, <1>12, <1>13, StepKeeps

LEMMA AcquireKeeps ==
    ASSUME Inv, NEW c \in Contexts, AcquireStoreOwnership(c)
    PROVE  Inv'
<1>1. ctx[c].at = "acquire" /\ Opening(ctx[c]) /\ ctx[c].handle = dir /\ dir # NoStore
  BY DEF AcquireStoreOwnership, Inv, Fits
<1>2. /\ InFlight(c) /\ UNCHANGED <<durable, disk, minted, exposed, condemned>> /\ owner' = c /\ troubles' \in Nat
  BY <1>1 DEF InFlight, AcquireStoreOwnership, history, Inv, Shape
<1>3. \A d \in Contexts \ {c} : ~InFlight(d) BY <1>2, OthersRest
<1>4. Goto(c, "open") BY DEF AcquireStoreOwnership
<1>5. /\ Moves(c) /\ CtxShape(ctx'[c]) /\ ctx'[c].at = "open" /\ ctx'[c].home = ctx[c].home
      /\ ctx'[c].mode = ctx[c].mode /\ ctx'[c].handle = ctx[c].handle /\ ctx'[c].round = ctx[c].round
  BY <1>4, GotoMoves DEF Labels
<1>6. Fits(ctx[c])' BY <1>1, <1>2, <1>5 DEF Fits, Opening, Claimed, durable
<1>7. Holds(ctx'[c]) BY <1>1, <1>5 DEF Holds, Opening
<1> QED BY <1>2, <1>3, <1>5, <1>6, <1>7, QuietStep

LEMMA OpenKeeps ==
    ASSUME Inv, NEW c \in Contexts, OpenStore(c)
    PROVE  Inv'
<1>1. ctx[c].at = "open" /\ Opening(ctx[c]) /\ ctx[c].handle = dir /\ dir # NoStore
  BY DEF OpenStore, Inv, Fits
<1>2. /\ InFlight(c) /\ UNCHANGED <<durable, minted, exposed, condemned>> /\ owner' = owner /\ troubles' \in Nat
      /\ disk' = [disk EXCEPT ![dir] = IF disk[dir] = "blank" THEN "loose" ELSE disk[dir]]
  BY <1>1 DEF InFlight, OpenStore, history, Inv, Shape
<1>3. \A d \in Contexts \ {c} : ~InFlight(d) BY <1>2, OthersRest
<1>4. dir \in 1..MaxMints BY <1>1, BootAssumption DEF Inv, Shape, StoreShape, NoStore
<1>5. StoreShape' BY <1>2, <1>4 DEF Inv, Shape, StoreShape, Contents, durable
<1>6. disk[dir] = "synced" => disk'[dir] = "synced" BY <1>2, <1>4 DEF Inv, Shape, StoreShape
<1>7. Durable' BY <1>2, <1>6 DEF Inv, Durable, durable, Unclaimed, Claimed
<1>8. Goto(c, "milestone") BY DEF OpenStore
<1>9. /\ Moves(c) /\ CtxShape(ctx'[c]) /\ ctx'[c].at = "milestone" /\ ctx'[c].home = ctx[c].home
      /\ ctx'[c].mode = ctx[c].mode /\ ctx'[c].handle = ctx[c].handle /\ ctx'[c].round = ctx[c].round
  BY <1>8, GotoMoves DEF Labels
<1>10. Fits(ctx[c])' BY <1>1, <1>2, <1>9 DEF Fits, Opening, Claimed, durable
<1>11. Holds(ctx'[c]) BY <1>1, <1>9 DEF Holds, Opening
<1> QED BY <1>2, <1>3, <1>5, <1>7, <1>9, <1>10, <1>11, StepKeeps

LEMMA OpenFailsKeeps ==
    ASSUME Inv, NEW c \in Contexts, OpenFails(c)
    PROVE  Inv'
<1> DEFINE k == ctx[c]
<1>1. /\ k.at \in {"acquire", "open"} /\ Opening(k)
  BY DEF OpenFails, CannotOpen, Inv, Fits
<1>2. /\ InFlight(c) /\ UNCHANGED <<durable, disk, minted, exposed, condemned>> /\ troubles' \in Nat
      /\ owner' = IF k.at = "open" THEN NoOne ELSE owner
  BY <1>1 DEF InFlight, OpenFails, Trouble, history, Inv, Shape
<1>3. owner' \in {owner, c, NoOne} BY <1>2
<1>4. \A d \in Contexts \ {c} : ~InFlight(d) BY <1>2, OthersRest
<1>5. UNCHANGED <<record, sentinel, dir, idb, pending>> BY <1>2 DEF durable
<1>6. CtxShape(k) BY DEF Inv, Shape
<1>7. CASE k.mode = "fresh"
  <2> DEFINE todo == FallbackVirginCandidateToIdb
             k1 == [k EXCEPT !.at = "effects"]
             k2 == [k1 EXCEPT !.then = "gate"]
             k3 == [k2 EXCEPT !.mode = "boot"]
             k4 == [k3 EXCEPT !.todo = todo]
  <2> HIDE DEF todo
  <2>1. ctx' = [ctx EXCEPT ![c] = k4] BY <1>7 DEF OpenFails, todo
  <2>2. CtxShape(k1) /\ k1.at = "effects" BY <1>6 DEF CtxShape, Labels
  <2> HIDE DEF k1
  <2>3. CtxShape(k2) /\ k2.at = "effects" /\ k2.then = "gate" BY <2>2 DEF CtxShape, Labels
  <2> HIDE DEF k2
  <2>4. CtxShape(k3) /\ k3.at = "effects" /\ k3.then = "gate" /\ k3.mode = "boot" BY <2>3 DEF CtxShape, Modes
  <2> HIDE DEF k3
  <2>5. CtxShape(k4) /\ k4.at = "effects" /\ k4.then = "gate" /\ k4.mode = "boot" /\ k4.todo = todo
    BY <2>4 DEF CtxShape
  <2> HIDE DEF k4
  <2>6. Moves(c) /\ ctx'[c] = k4 BY <2>1 DEF Moves, Inv, Shape
  <2>7. record = "opfs-candidate" /\ ~pending /\ idb = NoStore
    BY <1>1, <1>7 DEF Opening, Inv, Durable, Claimed
  <2>8. FallingBack(ctx[c])' BY <1>5, <2>5, <2>6, <2>7 DEF FallingBack, todo, FallbackVirginCandidateToIdb
  <2>9. Fits(ctx[c])' /\ Holds(ctx'[c]) BY <2>5, <2>6, <2>8 DEF Fits, Planned, Holds
  <2> QED BY <1>2, <1>3, <1>4, <2>5, <2>6, <2>9, QuietStep
<1>8. CASE k.mode = "adopted"
  <2> DEFINE k1 == [k EXCEPT !.at = "resolve"]
             k2 == [k1 EXCEPT !.mode = "boot"]
  <2>1. ctx' = [ctx EXCEPT ![c] = k2] BY <1>8 DEF OpenFails
  <2>2. CtxShape(k1) /\ k1.at = "resolve" /\ k1.home = k.home /\ k1.round = k.round BY <1>6 DEF CtxShape, Labels
  <2> HIDE DEF k1
  <2>3. CtxShape(k2) /\ k2.at = "resolve" /\ k2.home = k.home /\ k2.round = k.round /\ k2.mode = "boot"
    BY <2>2 DEF CtxShape, Modes
  <2> HIDE DEF k2
  <2>4. Moves(c) /\ ctx'[c] = k2 BY <2>1 DEF Moves, Inv, Shape
  <2>5. Fits(ctx[c])' /\ Holds(ctx'[c]) BY <1>1, <1>8, <2>3, <2>4 DEF Fits, Opening, Holds
  <2> QED BY <1>2, <1>3, <1>4, <2>3, <2>4, <2>5, QuietStep
<1>9. CASE k.mode = "committed"
  <2> DEFINE d == IF owner' = c THEN Rejected(c) ELSE Idle
  <2>1. ctx' = [ctx EXCEPT ![c] = d] BY <1>9 DEF OpenFails
  <2>2. Rejected(c) = [at |-> "stuck", home |-> "none", mode |-> k.mode, todo |-> <<>>,
                       then |-> "none", round |-> 0, handle |-> k.handle]
    BY RejectedIs
  <2>3. CtxShape(Rejected(c)) BY <1>6, <2>2 DEF CtxShape, Labels, Grants
  <2>4. CtxShape(Idle) /\ Idle.at = "idle" BY DEF CtxShape, Idle, NoStore, Labels, Grants, Modes
  <2>5. /\ CtxShape(d) /\ d.at \in {"idle", "stuck"}
        /\ owner' = c => d.at = "stuck" /\ d.mode = "committed"
    BY <1>9, <2>2, <2>3, <2>4
  <2> HIDE DEF d
  <2>6. Moves(c) /\ ctx'[c] = d BY <2>1 DEF Moves, Inv, Shape
  <2>7. Fits(ctx[c])' /\ (owner' = c => Holds(ctx'[c])) BY <2>5, <2>6 DEF Fits, Holds
  <2> QED BY <1>2, <1>3, <1>4, <2>5, <2>6, <2>7, QuietStep
<1> QED BY <1>1, <1>7, <1>8, <1>9 DEF Opening

LEMMA MilestoneKeeps ==
    ASSUME Inv, NEW c \in Contexts, Milestone(c)
    PROVE  Inv'
<1> DEFINE k == ctx[c]
<1>1. k.at = "milestone" /\ Opening(k) /\ k.handle = dir /\ dir # NoStore
  BY DEF Milestone, Inv, Fits
<1>2. /\ InFlight(c) /\ UNCHANGED <<durable, disk, minted, exposed, condemned>> /\ owner' = owner /\ troubles' \in Nat
  BY <1>1 DEF InFlight, Milestone, history, Inv, Shape
<1>3. \A d \in Contexts \ {c} : ~InFlight(d) BY <1>2, OthersRest
<1>4. UNCHANGED <<record, sentinel, dir, idb, pending>> BY <1>2 DEF durable
<1>5. CASE OwesBarrier(c)
  <2>1. Run(c, RunCommitmentBarrier, "expose") BY <1>5 DEF Milestone
  <2>2. /\ Moves(c) /\ CtxShape(ctx'[c]) /\ ctx'[c].at = "effects" /\ ctx'[c].todo = RunCommitmentBarrier
        /\ ctx'[c].then = "expose" /\ ctx'[c].mode = k.mode /\ ctx'[c].handle = k.handle
    BY <2>1, RunMoves DEF Labels
  <2>3. record = "opfs-candidate" /\ k.mode \in {"fresh", "adopted"} /\ ~pending
    BY <1>1, <1>5 DEF Opening, OwesBarrier, Claimed
  <2>4. Committing(ctx[c])' BY <1>1, <1>4, <2>2, <2>3 DEF Committing, RunCommitmentBarrier
  <2>5. Fits(ctx[c])' BY <2>2, <2>4 DEF Fits, Planned
  <2>6. Holds(ctx'[c]) BY <1>1, <2>2 DEF Holds, Opening
  <2> QED BY <1>2, <1>3, <2>2, <2>5, <2>6, QuietStep
<1>6. CASE ~OwesBarrier(c)
  <2>1. Goto(c, "expose") BY <1>6 DEF Milestone
  <2>2. /\ Moves(c) /\ CtxShape(ctx'[c]) /\ ctx'[c].at = "expose" /\ ctx'[c].mode = k.mode
        /\ ctx'[c].handle = k.handle
    BY <2>1, GotoMoves DEF Labels
  <2>3. record = "opfs-committed" /\ k.mode # "idb" BY <1>1, <1>6 DEF Opening, OwesBarrier, Claimed
  <2>4. Fits(ctx[c])' BY <1>1, <1>4, <2>2, <2>3 DEF Fits
  <2>5. Holds(ctx'[c]) BY <1>1, <2>2 DEF Holds, Opening
  <2> QED BY <1>2, <1>3, <2>2, <2>4, <2>5, QuietStep
<1> QED BY <1>5, <1>6

\* What is handed out: a store that nothing condemns, under an authority that
\* speaks for it.
LEMMA ExposedStore ==
    ASSUME Inv, NEW c \in Contexts, Expose(c)
    PROVE  /\ ctx[c].handle \in 1..minted /\ ctx[c].handle \notin condemned
           /\ \/ Unclaimed /\ ctx[c].handle = idb
              \/ record = "opfs-committed" /\ ctx[c].handle = dir
<1>1. IF ctx[c].mode = "idb" THEN Unclaimed /\ ctx[c].handle = idb /\ idb # NoStore
      ELSE record = "opfs-committed" /\ ctx[c].handle = dir
  BY DEF Expose, Inv, Fits
<1>2. record = "opfs-committed" => dir # NoStore /\ dir \notin condemned BY DEF Inv, Durable, Claimed
<1>3. Unclaimed => idb \notin condemned BY DEF Inv, Durable
<1>4. dir \in 0..minted /\ idb \in 0..minted /\ minted \in Nat BY DEF Inv, Shape, StoreShape
<1> QED BY <1>1, <1>2, <1>3, <1>4 DEF NoStore

LEMMA ExposeKeeps ==
    ASSUME Inv, NEW c \in Contexts, Expose(c)
    PROVE  Inv'
<1>1. /\ ctx[c].at = "expose" /\ InFlight(c) /\ Goto(c, "up") /\ exposed' = exposed \cup {ctx[c].handle}
      /\ UNCHANGED <<durable, disk, minted, condemned>> /\ owner' = owner /\ troubles' \in Nat
  BY DEF Expose, InFlight, Inv, Shape
<1>2. \A d \in Contexts \ {c} : ~InFlight(d) BY <1>1, OthersRest
<1>3. Moves(c) /\ CtxShape(ctx'[c]) /\ ctx'[c].at = "up" /\ ctx'[c].mode = ctx[c].mode
  BY <1>1, GotoMoves DEF Labels
<1>4. StoreShape' BY <1>1, ExposedStore DEF Inv, Shape, StoreShape, durable
<1>5. Durable' BY <1>1, ExposedStore DEF Inv, Durable, durable, Unclaimed, Claimed
<1>6. Fits(ctx[c])' /\ (owner' = c => Holds(ctx'[c])) BY <1>1, <1>3 DEF Fits, Inv, Owned, Holds
<1> QED BY <1>1, <1>2, <1>3, <1>4, <1>5, <1>6, StepKeeps

\* A context that stops or ends, whatever the others are doing.
LEMMA LeavingKeeps ==
    ASSUME Inv, NEW c \in Contexts, Stop(c) \/ End(c)
    PROVE  Inv'
<1>1. /\ UNCHANGED <<record, sentinel, dir, idb, pending, minted, exposed, condemned>> /\ owner' = Released(c)
      /\ ctx' = [ctx EXCEPT ![c] = Idle] /\ troubles' \in Nat
  BY DEF Stop, End, durable, history, Trouble, Inv, Shape
<1>2. /\ disk' \in [1..MaxMints -> Contents]
      /\ \A i \in 1..MaxMints : disk[i] = "synced" => disk'[i] = "synced"
  <2>1. CASE Stop(c) BY <2>1 DEF Stop, Inv, Shape, StoreShape
  <2>2. CASE End(c)
    <3>1. PICK lost \in SUBSET {i \in 1..MaxMints : disk[i] = "loose"} :
             disk' = [i \in 1..MaxMints |-> IF i \in lost THEN "blank" ELSE disk[i]]
      BY <2>2 DEF End
    <3> QED BY <3>1 DEF Inv, Shape, StoreShape, Contents
  <2> QED BY <2>1, <2>2
<1>3. Moves(c) /\ ctx'[c] = Idle BY <1>1 DEF Moves, Inv, Shape
<1>4. CtxShape(Idle) /\ Idle.at = "idle" BY DEF CtxShape, Idle, NoStore, Labels, Grants, Modes
<1>5. StoreShape' BY <1>1, <1>2 DEF Inv, Shape, StoreShape
<1>6. dir \in 0..MaxMints BY BootAssumption DEF Inv, Shape, StoreShape
<1>7. dir # NoStore /\ disk[dir] = "synced" => disk'[dir] = "synced" BY <1>2, <1>6 DEF NoStore
<1>8. Durable' BY <1>1, <1>7 DEF Inv, Durable, Unclaimed, Claimed
<1>9. owner' \in {owner, NoOne} /\ owner' # c BY <1>1, BootAssumption DEF Released
<1>10. Shape' BY <1>1, <1>3, <1>4, <1>5, <1>9 DEF Inv, Shape, Moves
<1>11. Alone' BY <1>3, <1>4 DEF Inv, Alone, InFlight, Moves
<1>12. Owned' BY <1>3, <1>9, BootAssumption DEF Inv, Owned, Moves
<1>13. \A d \in Contexts : Fits(ctx[d])'
  <2> SUFFICES ASSUME NEW d \in Contexts PROVE Fits(ctx[d])' OBVIOUS
  <2>1. CASE d = c BY <1>3, <1>4, <2>1 DEF Fits
  <2>2. CASE d # c
    <3>1. ctx'[d] = ctx[d] /\ Fits(ctx[d]) BY <1>3, <2>2 DEF Moves, Inv
    <3>2. Opening(ctx[d]) => Opening(ctx[d])' BY <1>1, <3>1 DEF Opening, Claimed
    <3>3. Planned(ctx[d]) => Planned(ctx[d])'
      BY <1>1, <1>7, <3>1 DEF Planned, Settling, Condemning, Deleting, Retiring, FallingBack, Starting, Committing,
         BackToBoot, ProvableVirgin
    <3> QED BY <1>1, <3>1, <3>2, <3>3 DEF Fits, Unclaimed
  <2> QED BY <2>1, <2>2
<1> QED BY <1>8, <1>10, <1>11, <1>12, <1>13 DEF Inv

LEMMA NextInv == Windows = {} /\ Inv /\ [Next]_vars => Inv'
<1> SUFFICES ASSUME Windows = {}, Inv, [Next]_vars PROVE Inv' OBVIOUS
<1>1. CASE UNCHANGED vars
  BY <1>1 DEF vars, durable, history, Inv, Shape, StoreShape, Alone, InFlight, Durable, Owned, Fits, Opening, Planned,
     Settling, Condemning, Deleting, Retiring, FallingBack, Starting, Committing, BackToBoot, ProvableVirgin,
     Unclaimed, Claimed
<1>2. CASE Next
  <2>1. PICK c \in Contexts :
          \/ \E home \in Homes : Boot(c, home) \/ DestroyStoreArtifacts(c, home)
          \/ "granted" \in Homes /\ Provision(c)
          \/ BootAgain(c)
          \/ Effect(c) \/ EffectTimesOut(c) \/ EffectFails(c)
          \/ ResolveStoreBoot(c) \/ ResolveDeniedBootAuthority(c)
          \/ MintIdb(c) \/ GetStoreDirectoryHandle(c)
          \/ AcquireStoreOwnership(c) \/ OpenStore(c) \/ OpenFails(c)
          \/ Milestone(c) \/ LocalInitFails(c) \/ Expose(c)
          \/ Stop(c) \/ Destroy(c) \/ End(c)
    BY <1>2 DEF Next
  <2>2. CASE \E home \in Homes : Boot(c, home) BY <2>2, BootKeeps
  <2>3. CASE Destroy(c) \/ \E home \in Homes : DestroyStoreArtifacts(c, home) BY <2>3, DestroyKeeps
  <2>4. CASE Provision(c) \/ BootAgain(c) BY <2>4, ProvisionKeeps, BootAgainKeeps
  <2>5. CASE Effect(c) \/ EffectTimesOut(c) \/ EffectFails(c) \/ LocalInitFails(c)
    BY <2>5, EffectKeepsInv, FailedStepKeeps
  <2>6. CASE ResolveStoreBoot(c) \/ ResolveDeniedBootAuthority(c) BY <2>6, ResolveKeeps, GateKeeps
  <2>7. CASE MintIdb(c) \/ GetStoreDirectoryHandle(c) BY <2>7, MintKeeps, HandleKeeps
  <2>8. CASE AcquireStoreOwnership(c) \/ OpenStore(c) \/ OpenFails(c)
    BY <2>8, AcquireKeeps, OpenKeeps, OpenFailsKeeps
  <2>9. CASE Milestone(c) \/ Expose(c) BY <2>9, MilestoneKeeps, ExposeKeeps
  <2>10. CASE Stop(c) \/ End(c) BY <2>10, LeavingKeeps
  <2> QED BY <2>1, <2>2, <2>3, <2>4, <2>5, <2>6, <2>7, <2>8, <2>9, <2>10
<1> QED BY <1>1, <1>2

LEMMA InvHolds == ASSUME Windows = {} PROVE Spec => []Inv
<1>1. Inv /\ [Next]_vars => Inv' BY NextInv
<1> QED BY <1>1, InitInv, PTL DEF Spec

-----------------------------------------------------------------------------
(***************************************************************************)
(* The theorems.                                                           *)
(***************************************************************************)
\* When operations follow one another, a store an application has used keeps
\* its files until a destroy condemns it, and until then no other store is
\* handed out at its path, whichever operation failed or was cut off where.
THEOREM UsedTheorem == ASSUME Windows = {} PROVE Spec => []UsedStoreIsKept
<1>1. Inv => UsedStoreIsKept
  <2> SUFFICES ASSUME Inv PROVE UsedStoreIsKept OBVIOUS
  <2> DEFINE kept == exposed \ condemned
  <2>1. \E s : kept \subseteq {s} /\ s \in {dir, idb}
    <3>1. CASE Unclaimed BY <3>1 DEF Inv, Durable, Unclaimed
    <3>2. CASE ~Unclaimed BY <3>2 DEF Inv, Durable
    <3> QED BY <3>1, <3>2
  <2>2. PICK s : kept \subseteq {s} /\ s \in {dir, idb} BY <2>1
  <2>3. kept = {} \/ kept = {s} BY <2>2
  <2>4. Cardinality(kept) <= 1
    <3>1. CASE kept = {} BY <3>1, FS_EmptySet
    <3>2. CASE kept = {s}
      <4>1. Cardinality({s}) = 1 BY FS_Singleton
      <4> QED BY <3>2, <4>1
    <3> QED BY <2>3, <3>1, <3>2
  <2> QED BY <2>2, <2>4 DEF UsedStoreIsKept
<1> QED BY <1>1, InvHolds, PTL

\* When operations follow one another, neither the record nor the sentinel ever
\* speaks of a directory that is missing or that a crash could empty.
THEOREM CommittedTheorem == ASSUME Windows = {} PROVE Spec => []CommittedIsWhole
<1>1. Inv => CommittedIsWhole BY DEF Inv, Durable, CommittedIsWhole
<1> QED BY <1>1, InvHolds, PTL

-----------------------------------------------------------------------------
(***************************************************************************)
(* Where each step leaves its context.                                     *)
(***************************************************************************)
LEMMA BeginsAt ==
    ASSUME Inv, NEW c \in Contexts,
           \/ \E home \in Homes : Boot(c, home) \/ DestroyStoreArtifacts(c, home)
           \/ Provision(c) \/ BootAgain(c) \/ Destroy(c)
    PROVE  Moves(c) /\ ctx'[c].at \in {"resolve", "gate", "handle", "milestone", "effects"}
<1>1. CASE \E home \in Homes : Boot(c, home)
  <2>1. PICK home \in Homes : Boot(c, home) BY <1>1
  <2> QED BY <2>1 DEF Boot, Begin, Idle, Moves, Inv, Shape
<1>2. CASE Provision(c) BY <1>2 DEF Provision, Begin, Idle, Moves, Inv, Shape
<1>3. ASSUME NEW home, BeginDestruction(c, home)
      PROVE  Moves(c) /\ ctx'[c].at \in {"resolve", "gate", "handle", "milestone", "effects"}
  <2> DEFINE todo == RunDestruction(home)
  <2> HIDE DEF todo
  <2>1. ctx' = [ctx EXCEPT ![c] = [Idle EXCEPT !.at = "effects", !.home = home, !.mode = "destroy",
                                               !.todo = todo, !.then = "idle"]]
    BY <1>3 DEF BeginDestruction, todo
  <2> QED BY <2>1 DEF Idle, Moves, Inv, Shape
<1>4. CASE Destroy(c) BY <1>3, <1>4 DEF Destroy
<1>5. CASE \E home \in Homes : DestroyStoreArtifacts(c, home) BY <1>3, <1>5 DEF DestroyStoreArtifacts
<1>6. CASE BootAgain(c)
  <2>1. CASE Begin(c, "granted", "boot", "resolve") BY <2>1 DEF Begin, Idle, Moves, Inv, Shape
  <2>2. CASE ctx' = [ctx EXCEPT ![c] = [Idle EXCEPT !.at = "milestone", !.home = "granted",
                                                    !.mode = "adopted", !.handle = ctx[c].handle]]
    BY <2>2 DEF Idle, Moves, Inv, Shape
  <2> QED BY <1>6, <2>1, <2>2 DEF BootAgain
<1> QED BY <1>1, <1>2, <1>4, <1>5, <1>6

LEMMA RejectsAt ==
    ASSUME Inv, NEW c \in Contexts, Reject(c)
    PROVE  Moves(c) /\ ctx'[c].at \in {"idle", "stuck"}
<1> DEFINE k == IF owner = c THEN Rejected(c) ELSE Idle
<1>1. ctx' = [ctx EXCEPT ![c] = k] BY DEF Reject
<1>3. k.at \in {"idle", "stuck"} BY RejectedIs DEF Idle
<1> HIDE DEF k
<1> QED BY <1>1, <1>3 DEF Moves, Inv, Shape

LEMMA EffectAt ==
    ASSUME Inv, NEW c \in Contexts, Effect(c)
    PROVE  /\ Moves(c) /\ ctx'[c].at \notin {"up", "stuck"}
           /\ ctx'[c].at = "idle" => ctx[c].mode = "destroy"
<1>1. Advance(c) /\ ctx[c].at = "effects" BY DEF Effect
<1>2. Moves(c) /\ ctx'[c].at \in {"effects", ctx[c].then} BY <1>1, AdvanceMoves
<1>3. Planned(ctx[c]) BY <1>1 DEF Inv, Fits
<1>4. ctx[c].then \in {"resolve", "gate", "idle", "handle", "expose"} /\ (ctx[c].then = "idle" => ctx[c].mode = "destroy")
  BY <1>3 DEF Planned, Settling, Condemning, Deleting, Retiring, FallingBack, Starting, Committing, BackToBoot
<1> QED BY <1>2, <1>4

LEMMA ResolveAt ==
    ASSUME Inv, NEW c \in Contexts, ResolveStoreBoot(c)
    PROVE  Moves(c) /\ ctx'[c].at \in {"effects", "resolve", "handle", "gate"}
<1> DEFINE v == Verdict(ClassifyStoreBoot)
<1>1. CASE pending
  <2>1. Run(c, SettlePendingOpfsDeletion, "resolve") BY <1>1 DEF ResolveStoreBoot
  <2> QED BY <2>1, RunMoves DEF Labels
<1>2. CASE ~pending
  <2>1. ctx[c].round # MaxDeletionReclassify BY DEF ResolveStoreBoot, Inv, Fits, MaxDeletionReclassify
  <2>2. ctx' = [ctx EXCEPT ![c].at = IF v.todo = <<>> THEN v.then ELSE "effects",
                           ![c].todo = v.todo, ![c].then = v.then, ![c].mode = v.mode, ![c].round = @ + 1]
    BY <1>2, <2>1 DEF ResolveStoreBoot
  <2>3. v.then \in {"resolve", "handle", "gate"} BY <1>2, VerdictOf
  <2> HIDE DEF v
  <2>4. CtxShape(ctx[c]) BY DEF Inv, Shape
  <2> QED BY <2>2, <2>3, <2>4 DEF Moves, Inv, Shape, CtxShape
<1> QED BY <1>1, <1>2

LEMMA GateAt ==
    ASSUME Inv, NEW c \in Contexts, ResolveDeniedBootAuthority(c)
    PROVE  /\ Moves(c) /\ ctx'[c].at \in {"effects", "mint", "idle", "stuck"}
           /\ ctx[c].home = "granted" => ctx'[c].at = "mint"
<1>1. \/ Reject(c) \/ Goto(c, "mint") \/ \E todo : Run(c, todo, "gate")
  BY DEF ResolveDeniedBootAuthority
<1>2. Moves(c) /\ ctx'[c].at \in {"effects", "mint", "idle", "stuck"}
  <2>1. CASE Reject(c) BY <2>1, RejectsAt
  <2>2. CASE Goto(c, "mint") BY <2>2, GotoMoves DEF Labels
  <2>3. CASE \E todo : Run(c, todo, "gate")
    <3>1. PICK todo : Run(c, todo, "gate") BY <2>3
    <3> QED BY <3>1, RunMoves DEF Labels
  <2> QED BY <1>1, <2>1, <2>2, <2>3
<1>3. ASSUME ctx[c].home = "granted" PROVE ctx'[c].at = "mint"
  <2>1. record = "idb-authoritative" /\ ~pending BY <1>3 DEF ResolveDeniedBootAuthority, Inv, Fits
  <2>2. Goto(c, "mint") BY <1>3, <2>1 DEF ResolveDeniedBootAuthority
  <2> QED BY <2>2, GotoMoves DEF Labels
<1> QED BY <1>2, <1>3

LEMMA OpeningAt ==
    ASSUME Inv, NEW c \in Contexts,
           MintIdb(c) \/ GetStoreDirectoryHandle(c) \/ AcquireStoreOwnership(c) \/ OpenStore(c) \/ Milestone(c)
    PROVE  Moves(c) /\ ctx'[c].at \in {"expose", "acquire", "open", "milestone", "effects"}
<1>1. CtxShape(ctx[c]) BY DEF Inv, Shape
<1>2. CASE MintIdb(c) BY <1>1, <1>2 DEF MintIdb, Moves, Inv, Shape, CtxShape
<1>3. CASE GetStoreDirectoryHandle(c) BY <1>1, <1>3 DEF GetStoreDirectoryHandle, Moves, Inv, Shape, CtxShape
<1>4. CASE AcquireStoreOwnership(c) BY <1>4, GotoMoves DEF AcquireStoreOwnership, Labels
<1>5. CASE OpenStore(c) BY <1>5, GotoMoves DEF OpenStore, Labels
<1>6. CASE Milestone(c)
  <2>1. CASE Goto(c, "expose") BY <2>1, GotoMoves DEF Labels
  <2>2. CASE Run(c, RunCommitmentBarrier, "expose") BY <2>2, RunMoves DEF Labels
  <2> QED BY <1>6, <2>1, <2>2 DEF Milestone
<1> QED BY <1>2, <1>3, <1>4, <1>5, <1>6

LEMMA OpenFailsAt ==
    ASSUME Inv, NEW c \in Contexts, OpenFails(c)
    PROVE  Moves(c) /\ ctx'[c].at \in {"effects", "resolve", "idle", "stuck"}
<1> DEFINE todo == FallbackVirginCandidateToIdb
           k == CASE ctx[c].mode = "fresh" ->
                       [ctx[c] EXCEPT !.at = "effects", !.then = "gate", !.mode = "boot", !.todo = todo]
                  [] ctx[c].mode = "adopted" -> [ctx[c] EXCEPT !.at = "resolve", !.mode = "boot"]
                  [] ctx[c].mode = "committed" -> IF owner' = c THEN Rejected(c) ELSE Idle
<1>1. ctx' = [ctx EXCEPT ![c] = k] BY DEF OpenFails
<1>2. ctx[c].mode \in {"fresh", "adopted", "committed"} /\ CtxShape(ctx[c])
  BY DEF OpenFails, CannotOpen, Inv, Fits, Opening, Shape
<1> HIDE DEF todo
<1>4. Rejected(c).at = "stuck" BY RejectedIs
<1>3. k.at \in {"effects", "resolve", "idle", "stuck"} BY <1>2, <1>4 DEF CtxShape, Idle
<1> HIDE DEF k
<1> QED BY <1>1, <1>3 DEF Moves, Inv, Shape

LEMMA LeavesAt ==
    ASSUME Inv, NEW c \in Contexts, Stop(c) \/ End(c)
    PROVE  Moves(c) /\ ctx'[c].at = "idle"
  BY DEF Stop, End, Idle, Moves, Inv, Shape

\* When operations follow one another, a store a destroy has condemned is never
\* handed out again, wherever the destroy was cut off and whatever it could
\* only note as pending.
THEOREM DestroyedTheorem == ASSUME Windows = {} PROVE Spec => DestroyedStaysGone
<1> DEFINE Gone(c) == ctx'[c].at = "up" /\ ctx[c].at # "up" => ctx'[c].handle \notin condemned
<1>1. ASSUME Inv, Next PROVE \A c \in Contexts : Gone(c)
  <2>1. PICK c \in Contexts :
          \/ \E home \in Homes : Boot(c, home) \/ DestroyStoreArtifacts(c, home)
          \/ "granted" \in Homes /\ Provision(c)
          \/ BootAgain(c)
          \/ Effect(c) \/ EffectTimesOut(c) \/ EffectFails(c)
          \/ ResolveStoreBoot(c) \/ ResolveDeniedBootAuthority(c)
          \/ MintIdb(c) \/ GetStoreDirectoryHandle(c)
          \/ AcquireStoreOwnership(c) \/ OpenStore(c) \/ OpenFails(c)
          \/ Milestone(c) \/ LocalInitFails(c) \/ Expose(c)
          \/ Stop(c) \/ Destroy(c) \/ End(c)
    BY <1>1 DEF Next
  <2>2. ASSUME Moves(c), Gone(c) PROVE \A d \in Contexts : Gone(d) BY <2>2 DEF Moves
  <2>3. CASE (\E home \in Homes : Boot(c, home) \/ DestroyStoreArtifacts(c, home))
              \/ Provision(c) \/ BootAgain(c) \/ Destroy(c)
    BY <1>1, <2>2, <2>3, BeginsAt
  <2>4. CASE Effect(c) BY <1>1, <2>2, <2>4, EffectAt
  <2>5. CASE EffectTimesOut(c) \/ EffectFails(c) \/ LocalInitFails(c)
    <3>1. Reject(c) BY <2>5 DEF EffectTimesOut, EffectFails, LocalInitFails
    <3> QED BY <1>1, <2>2, <3>1, RejectsAt
  <2>6. CASE ResolveStoreBoot(c) BY <1>1, <2>2, <2>6, ResolveAt
  <2>7. CASE ResolveDeniedBootAuthority(c) BY <1>1, <2>2, <2>7, GateAt
  <2>8. CASE MintIdb(c) \/ GetStoreDirectoryHandle(c) \/ AcquireStoreOwnership(c) \/ OpenStore(c) \/ Milestone(c)
    BY <1>1, <2>2, <2>8, OpeningAt
  <2>9. CASE OpenFails(c) BY <1>1, <2>2, <2>9, OpenFailsAt
  <2>10. CASE Expose(c)
    <3>1. Goto(c, "up") BY <2>10 DEF Expose
    <3>2. Moves(c) /\ ctx'[c].handle = ctx[c].handle BY <1>1, <3>1, GotoMoves DEF Labels
    <3> QED BY <1>1, <2>2, <2>10, <3>2, ExposedStore
  <2>11. CASE Stop(c) \/ End(c) BY <1>1, <2>2, <2>11, LeavesAt
  <2> QED BY <2>1, <2>3, <2>4, <2>5, <2>6, <2>7, <2>8, <2>9, <2>10, <2>11
<1>2. Inv /\ [Next]_vars => [\A c \in Contexts : Gone(c)]_vars BY <1>1
<1> QED BY <1>2, InvHolds, PTL DEF Spec, DestroyedStaysGone

\* The lock is held, or a database connection is open, by another context that
\* is not at rest, or by the engine of an earlier boot of the same context.
LEMMA BlockedByAnother ==
    ASSUME Inv, NEW c \in Contexts, ctx[c].at = "effects", Blocked(Head(ctx[c].todo))
    PROVE  (\E d \in Contexts \ {c} : ctx[d].at # "idle") \/ HeldByEarlierBoot(c)
<1>1. CASE IdbIsOpen BY <1>1 DEF IdbIsOpen
<1>2. CASE owner # NoOne /\ Head(ctx[c].todo) \in {"deleteDirectory", "notePendingOwned"}
  <2>1. owner \in Contexts /\ ctx[owner].at # "idle" BY <1>2 DEF Inv, Shape, Owned, Holds
  <2>2. CASE owner # c BY <2>1, <2>2
  <2>3. CASE owner = c
    <3>1. ASSUME Committing(ctx[c]) PROVE FALSE
      <4>1. CASE ctx[c].todo = <<"strictSync", "publishSentinel", "opfs-committed">> BY <1>2, <4>1
      <4>2. CASE ctx[c].todo = <<"publishSentinel", "opfs-committed">> BY <1>2, <4>2
      <4>3. CASE ctx[c].todo = <<"opfs-committed">> BY <1>2, <4>3
      <4> QED BY <3>1, <4>1, <4>2, <4>3 DEF Committing
    <3>2. ctx[c].then # "expose"
      BY <3>1 DEF Inv, Fits, Planned, Settling, Condemning, Deleting, Retiring, FallingBack, Starting, BackToBoot
    <3> QED BY <2>3, <3>2 DEF HeldByEarlierBoot
  <2> QED BY <2>2, <2>3
<1> QED BY <1>1, <1>2 DEF Blocked

\* When operations follow one another, a boot that has a grant for OPFS fails
\* only in trouble, or while the store is open in another context or in the
\* engine that an earlier boot of the same worker left unclosed.
THEOREM GrantedTheorem == ASSUME Windows = {} PROVE Spec => GrantedBootSucceeds
<1> DEFINE Fine(c) == Booting(c) /\ ctx[c].home = "granted" /\ ctx'[c].at \in {"idle", "stuck"} =>
                         \/ troubles' # troubles
                         \/ \E d \in Contexts \ {c} : ctx[d].at # "idle"
                         \/ HeldByEarlierBoot(c)
<1>1. ASSUME Inv, Next PROVE \A c \in Contexts : Fine(c)
  <2>1. PICK c \in Contexts :
          \/ \E home \in Homes : Boot(c, home) \/ DestroyStoreArtifacts(c, home)
          \/ "granted" \in Homes /\ Provision(c)
          \/ BootAgain(c)
          \/ Effect(c) \/ EffectTimesOut(c) \/ EffectFails(c)
          \/ ResolveStoreBoot(c) \/ ResolveDeniedBootAuthority(c)
          \/ MintIdb(c) \/ GetStoreDirectoryHandle(c)
          \/ AcquireStoreOwnership(c) \/ OpenStore(c) \/ OpenFails(c)
          \/ Milestone(c) \/ LocalInitFails(c) \/ Expose(c)
          \/ Stop(c) \/ Destroy(c) \/ End(c)
    BY <1>1 DEF Next
  <2>2. ASSUME Moves(c), Fine(c) PROVE \A d \in Contexts : Fine(d)
    BY <2>2 DEF Moves, Booting, InFlight
  <2>3. CASE (\E home \in Homes : Boot(c, home) \/ DestroyStoreArtifacts(c, home))
              \/ Provision(c) \/ BootAgain(c) \/ Destroy(c)
    BY <1>1, <2>2, <2>3, BeginsAt
  <2>4. CASE Effect(c) BY <1>1, <2>2, <2>4, EffectAt DEF Booting
  <2>5. troubles \in Nat BY <1>1 DEF Inv, Shape
  <2>6. CASE EffectTimesOut(c)
    <3>1. Reject(c) /\ Blocked(Head(ctx[c].todo)) /\ ctx[c].at = "effects" BY <2>6 DEF EffectTimesOut
    <3> QED BY <1>1, <2>2, <3>1, RejectsAt, BlockedByAnother
  <2>7. CASE EffectFails(c) \/ LocalInitFails(c)
    <3>1. Reject(c) /\ troubles' # troubles BY <2>5, <2>7 DEF EffectFails, LocalInitFails, Trouble
    <3> QED BY <1>1, <2>2, <3>1, RejectsAt
  <2>8. CASE ResolveStoreBoot(c) BY <1>1, <2>2, <2>8, ResolveAt
  <2>9. CASE ResolveDeniedBootAuthority(c) BY <1>1, <2>2, <2>9, GateAt
  <2>10. CASE MintIdb(c) \/ GetStoreDirectoryHandle(c) \/ AcquireStoreOwnership(c) \/ OpenStore(c) \/ Milestone(c)
    BY <1>1, <2>2, <2>10, OpeningAt
  <2>11. CASE OpenFails(c)
    <3>1. CASE CannotOpen(c)
      <4>1. ctx[c].at = "acquire" /\ owner # NoOne BY <1>1, <3>1 DEF CannotOpen, Inv, Fits
      <4>2. owner \in Contexts /\ ctx[owner].at # "idle" BY <1>1, <4>1 DEF Inv, Shape, Owned, Holds
      <4>3. owner = c => HeldByEarlierBoot(c) BY <4>1 DEF HeldByEarlierBoot
      <4> QED BY <1>1, <2>2, <2>11, <4>2, <4>3, OpenFailsAt
    <3>2. CASE Trouble
      <4>1. troubles' # troubles BY <2>5, <3>2 DEF Trouble
      <4> QED BY <1>1, <2>2, <2>11, <4>1, OpenFailsAt
    <3> QED BY <2>11, <3>1, <3>2 DEF OpenFails
  <2>12. CASE Expose(c)
    <3>1. Goto(c, "up") BY <2>12 DEF Expose
    <3> QED BY <1>1, <2>2, <3>1, GotoMoves DEF Labels
  <2>13. CASE Stop(c) \/ End(c)
    <3>1. InFlight(c) => troubles' # troubles BY <2>5, <2>13 DEF Stop, End, InFlight, Trouble
    <3> QED BY <1>1, <2>2, <2>13, <3>1, LeavesAt DEF Booting
  <2> QED BY <2>1, <2>3, <2>4, <2>6, <2>7, <2>8, <2>9, <2>10, <2>11, <2>12, <2>13
<1>2. Inv /\ [Next]_vars => [\A c \in Contexts : Fine(c)]_vars BY <1>1
<1> QED BY <1>2, InvHolds, PTL DEF Spec, GrantedBootSucceeds

-----------------------------------------------------------------------------
(***************************************************************************)
(* The client that a boot's store is opened for: its teardown closes and   *)
(* wipes that store.  ClientLifecycle is another specification, with state *)
(* of its own; nothing above speaks of it.                                 *)
(***************************************************************************)
Teardowns == {"stop", "destroy"}
TeardownSteps == {"idle", "checking", "stopping", "done"}

\* A teardown in progress has halted the driver for good.
Halted ==
    /\ \A op \in Teardowns : pc[op] # "idle" => disposed
    /\ store # "open" => disposed

\* What an unforced destroy() found owed is nothing; later writes are counted.
Owed == unsent + failed + behind + UnitRows
Counted == pc["destroy"] = "stopping" /\ ~force => Owed <= late

ClientShape ==
    /\ pc \in [Teardowns -> TeardownSteps]
    /\ disposed \in BOOLEAN
    /\ unsent \in Nat /\ failed \in Nat /\ behind \in Nat /\ late \in Nat
    /\ units \in [Units -> Nat]

ClientInv == ClientShape /\ Halted /\ Counted /\ ClosedStoreIsQuiet

\* The rows of the units in flight.
LEMMA UnitsCount ==
    ASSUME ClientShape
    PROVE  /\ units["batch"] \in Nat /\ units["transaction"] \in Nat
           /\ UnitRows = units["batch"] + units["transaction"] /\ UnitRows \in Nat
<1>1. units["batch"] \in Nat /\ units["transaction"] \in Nat
  BY DEF ClientShape, Units
<1> QED BY <1>1 DEF UnitRows

LEMMA UnitsCountNext ==
    ASSUME units' \in [Units -> Nat] PROVE UnitRows' \in Nat
BY DEF Units, UnitRows

\* One call more or one less.
LEMMA UnitsMove ==
    ASSUME ClientShape, NEW u \in Units, NEW n \in Nat, units' = [units EXCEPT ![u] = n]
    PROVE  /\ units' \in [Units -> Nat]
           /\ units[u] \in Nat /\ UnitRows' = (UnitRows - units[u]) + n
<1>1. /\ units' \in [Units -> Nat] /\ units[u] \in Nat
      /\ \A v \in Units : units'[v] = IF v = u THEN n ELSE units[v]
  BY DEF ClientShape
<1>2. units["batch"] \in Nat /\ units["transaction"] \in Nat
  BY UnitsCount
<1>3. CASE u = "batch"
  BY <1>1, <1>2, <1>3 DEF UnitRows, Units
<1>4. CASE u = "transaction"
  BY <1>1, <1>2, <1>4 DEF UnitRows, Units
<1> QED BY <1>1, <1>3, <1>4 DEF Units

\* What is owed moves with its parts: a, b, c and d are rows unsent, failed,
\* behind and in units.
LEMMA OwedDrops ==
    ASSUME NEW a \in Nat, NEW b \in Nat, NEW c \in Nat, NEW d \in Nat, NEW k \in Nat,
           NEW a2 \in Nat, NEW b2 \in Nat, NEW c2 \in Nat, NEW d2 \in Nat,
           d2 + k = d, a2 + b2 + c2 <= a + b + c + k
    PROVE  a2 + b2 + c2 + d2 <= a + b + c + d
OBVIOUS

LEMMA OwedNat ==
    ASSUME NEW a \in Nat, NEW b \in Nat, NEW c \in Nat, NEW d \in Nat
    PROVE  a + b + c + d \in Nat
OBVIOUS

\* A drain of the flush, of the driver or of the application, never adds to
\* what is owed.
LEMMA RoundOwesNoMore ==
    ASSUME ClientShape, SendRound
    PROVE  /\ unsent' \in Nat /\ failed' \in Nat /\ behind' \in Nat
           /\ unsent' + failed' + behind' <= unsent + failed + behind
<1>0. unsent \in Nat /\ failed \in Nat /\ behind \in Nat
  BY DEF ClientShape
<1>1. PICK f \in 0 .. unsent + failed + behind, b \in 0 .. unsent + failed + behind :
        /\ unsent' = 0 /\ failed' = f /\ behind' = b
        /\ \/ f <= failed /\ b <= behind
           \/ f + b = unsent + failed + behind
           \/ f + b <= unsent + failed + behind
  BY DEF SendRound, AfterFlush
<1> QED BY <1>0, <1>1

\* The steps of the driver and of its callers preserve the invariant.
LEMMA ClientDriverKeepsInv ==
    ASSUME ClientInv,
           Start \/ Signal \/ GoOffline \/ GoOnline \/ RequestPass
             \/ FlushEnds \/ ReconcileEnds \/ PassThrows \/ PassReturns
    PROVE  ClientInv'
<1>1. UNCHANGED <<pc, store, force, disposed, unsent, failed, behind, units, late>>
  BY DEF Start, Signal, GoOffline, GoOnline, RequestPass,
     FlushEnds, ReconcileEnds, PassThrows, PassReturns, driver,
     rows, teardown
<1>2. (ClientShape /\ Halted /\ Counted)'
  BY <1>1 DEF ClientInv, ClientShape, Halted, Counted, Owed, UnitRows, Teardowns
<1>3. disposed /\ stage \notin {"flush", "reconcile"} => stage' \notin {"flush", "reconcile"}
  BY DEF Start, Signal, GoOffline, GoOnline, RequestPass,
     FlushEnds, ReconcileEnds, PassThrows, PassReturns,
     RunPass, driver, ClientInv, ClientShape
<1> QED BY <1>1, <1>2, <1>3 DEF ClientInv, Halted, ClosedStoreIsQuiet

\* Rows that commit after the check are counted as late.
LEMMA ClientWriteKeepsInv ==
    ASSUME ClientInv, WriteCommits \/ BatchCommits \/ (\E u \in Units : UnitCommits(u))
    PROVE  ClientInv'
<1>0. ClientShape /\ UnitRows \in Nat
  BY UnitsCount DEF ClientInv
<1>1. PICK n \in Nat : Commits(n) /\ behind' \in Nat /\ unsent' \in Nat /\ units' \in [Units -> Nat]
                       /\ unsent' + behind' + UnitRows' = unsent + behind + UnitRows + n
  <2>0. unsent \in Nat /\ behind \in Nat
    BY <1>0 DEF ClientShape
  <2>1. CASE WriteCommits
    <3>1. UnitRows' = UnitRows /\ units' = units
      BY <2>1 DEF WriteCommits, UnitRows
    <3>2. /\ Commits(1) /\ unsent' \in Nat /\ behind' \in Nat
          /\ unsent' + behind' = unsent + behind + 1
      BY <2>0, <2>1 DEF WriteCommits, Enqueue
    <3>3. unsent' + behind' + UnitRows' = unsent + behind + UnitRows + 1
      <4>1. PICK a, c, d, a2, c2 \in Nat :
              a = unsent /\ c = behind /\ d = UnitRows /\ a2 = unsent' /\ c2 = behind'
        BY <1>0, <2>0, <3>2
      <4>2. a2 + c2 = a + c + 1
        BY <4>1, <3>2
      <4>3. a2 + c2 + d = a + c + d + 1
        BY <4>2
      <4> QED BY <3>1, <4>1, <4>3
    <3>4. units' \in [Units -> Nat]
      BY <1>0, <3>1 DEF ClientShape
    <3> QED BY <3>2, <3>3, <3>4
  <2>2. CASE BatchCommits
    <3>1. units' = [units EXCEPT !["batch"] = units["batch"] + 1] /\ "batch" \in Units
      BY <2>2 DEF BatchCommits, Units
    <3>2. units["batch"] + 1 \in Nat
      BY <1>0, UnitsCount
    <3>5. /\ UnitRows' = (UnitRows - units["batch"]) + (units["batch"] + 1)
          /\ units' \in [Units -> Nat] /\ units["batch"] \in Nat
      BY <1>0, <3>1, <3>2, UnitsMove
    <3>3. UnitRows' = UnitRows + 1 /\ units' \in [Units -> Nat]
      BY <1>0, <3>5
    <3>4. /\ Commits(2) /\ unsent' \in Nat /\ behind' \in Nat
          /\ unsent' + behind' = unsent + behind + 1
      BY <2>0, <2>2 DEF BatchCommits, Enqueue
    <3>6. unsent' + behind' + UnitRows' = unsent + behind + UnitRows + 2
      <4>1. PICK a, c, d, a2, c2 \in Nat :
              a = unsent /\ c = behind /\ d = UnitRows /\ a2 = unsent' /\ c2 = behind'
        BY <1>0, <2>0, <3>4
      <4>2. a2 + c2 = a + c + 1
        BY <4>1, <3>4
      <4>3. a2 + c2 + (d + 1) = a + c + d + 2
        BY <4>2
      <4> QED BY <3>3, <4>1, <4>3
    <3> QED BY <3>3, <3>4, <3>6
  <2>3. ASSUME NEW u \in Units, UnitCommits(u)
        PROVE  /\ Commits(1) /\ behind' = behind /\ unsent' = unsent
               /\ UnitRows' = UnitRows + 1 /\ units' \in [Units -> Nat]
    <3>1. units' = [units EXCEPT ![u] = units[u] + 1] /\ units[u] + 1 \in Nat
      BY <1>0, <2>3 DEF UnitCommits, ClientShape
    <3>3. /\ UnitRows' = (UnitRows - units[u]) + (units[u] + 1)
          /\ units' \in [Units -> Nat] /\ units[u] \in Nat
      BY <1>0, <2>3, <3>1, UnitsMove
    <3>2. UnitRows' = UnitRows + 1 /\ units' \in [Units -> Nat]
      BY <1>0, <3>3
    <3> QED BY <2>3, <3>2 DEF UnitCommits
  <2> QED BY <1>0, <2>0, <2>1, <2>2, <2>3
<1>2. UNCHANGED <<failed, pc, store, force, disposed, stage>>
      /\ late' = IF pc["destroy"] = "stopping" THEN late + n ELSE late
  BY <1>1 DEF Commits, driver, teardown
<1>3. Counted'
  <2>1. /\ unsent \in Nat /\ failed \in Nat /\ behind \in Nat /\ late \in Nat
        /\ UnitRows' \in Nat /\ failed' = failed
    BY <1>0, <1>1, <1>2, UnitsCountNext DEF ClientShape
  <2>2. unsent' + failed + behind' + UnitRows' = unsent + failed + behind + UnitRows + n
    <3>1. /\ unsent' \in Nat /\ behind' \in Nat /\ UnitRows \in Nat
          /\ unsent' + behind' + UnitRows' = unsent + behind + UnitRows + n
      BY <1>0, <1>1
    <3>2. PICK a, b, c, d, a2, c2, d2 \in Nat :
            /\ a = unsent /\ b = failed /\ c = behind /\ d = UnitRows
            /\ a2 = unsent' /\ c2 = behind' /\ d2 = UnitRows'
      BY <2>1, <3>1
    <3>3. a2 + c2 + d2 = a + c + d + n
      BY <3>1, <3>2
    <3>4. a2 + b + c2 + d2 = a + b + c + d + n
      BY <3>3
    <3> QED BY <3>2, <3>4
  <2>3. Owed' = Owed + n
    BY <2>1, <2>2 DEF Owed
  <2>4. Owed \in Nat
    BY <1>0, <2>1 DEF Owed
  <2> QED BY <1>2, <2>1, <2>3, <2>4 DEF ClientInv, Counted
<1>4. (ClientShape /\ Halted /\ ClosedStoreIsQuiet)'
  BY <1>0, <1>1, <1>2 DEF ClientInv, ClientShape, Halted, ClosedStoreIsQuiet
<1> QED BY <1>3, <1>4 DEF ClientInv

\* A unit is answered, or its call throws: nothing is owed that was not.
LEMMA ClientUnitKeepsInv == ASSUME ClientInv, UnitEnds PROVE ClientInv'
<1>0. /\ ClientShape /\ UnitRows \in Nat
      /\ unsent \in Nat /\ behind \in Nat /\ failed \in Nat /\ late \in Nat
  BY UnitsCount DEF ClientInv, ClientShape
<1>1. PICK u \in Units : UnitAnswers(u) \/ UnitThrows(u)
  BY DEF UnitEnds
<1>2. units[u] > 0 /\ units' = [units EXCEPT ![u] = units[u] - 1] /\ units[u] \in Nat
  BY <1>0, <1>1 DEF UnitAnswers, UnitThrows, ClientShape
<1>3. UnitRows' = UnitRows - 1 /\ UnitRows' \in Nat /\ units' \in [Units -> Nat]
  <2>1. units[u] - 1 \in Nat
    BY <1>2
  <2>2. units' \in [Units -> Nat] /\ UnitRows' = (UnitRows - units[u]) + (units[u] - 1)
    BY <1>0, <1>2, <2>1, UnitsMove
  <2>3. units[u] <= UnitRows
    BY <1>0, UnitsCount DEF Units
  <2> QED BY <1>0, <1>2, <2>2, <2>3
<1>4. /\ unsent' \in Nat /\ behind' \in Nat /\ failed' \in Nat
      /\ unsent' + failed' + behind' <= unsent + failed + behind + 1
  BY <1>0, <1>1 DEF UnitAnswers, UnitThrows
<1>5. UNCHANGED <<pc, store, force, late, disposed, stage>>
  BY <1>1 DEF UnitAnswers, UnitThrows, teardown
<1>6. Counted'
  <2>3. UnitRows' + 1 = UnitRows
    BY <1>0, <1>3
  <2>5. unsent' + failed' + behind' + UnitRows' <= unsent + failed + behind + UnitRows
    BY <1>0, <1>3, <1>4, <2>3, OwedDrops
  <2>1. Owed' <= Owed
    BY <2>5 DEF Owed
  <2>2. Owed \in Nat /\ Owed' \in Nat
    BY <1>0, <1>3, <1>4, OwedNat DEF Owed
  <2> QED BY <1>0, <1>5, <2>1, <2>2 DEF ClientInv, Counted
<1>7. (ClientShape /\ Halted /\ ClosedStoreIsQuiet)'
  BY <1>3, <1>4, <1>5 DEF ClientInv, ClientShape, Halted, ClosedStoreIsQuiet
<1> QED BY <1>6, <1>7 DEF ClientInv

\* A drain, in a pass or called by the application.
LEMMA ClientRoundKeepsInv == ASSUME ClientInv, FlushRound \/ AppFlush PROVE ClientInv'
<1>1. SendRound /\ UNCHANGED driver BY DEF FlushRound, AppFlush
<1>2. UNCHANGED <<pc, store, force, late, units, disposed, stage>>
  BY <1>1 DEF SendRound, driver, teardown
<1>3. /\ unsent' \in Nat /\ failed' \in Nat /\ behind' \in Nat
      /\ unsent' + failed' + behind' <= unsent + failed + behind
  BY <1>1, RoundOwesNoMore DEF ClientInv
<1>4. unsent \in Nat /\ failed \in Nat /\ behind \in Nat /\ late \in Nat /\ UnitRows \in Nat
  BY UnitsCount DEF ClientInv, ClientShape
<1>5. UnitRows' = UnitRows
  BY <1>2 DEF UnitRows
<1>6. Owed' <= Owed /\ Owed \in Nat /\ Owed' \in Nat
  <2>1. unsent' + failed' + behind' + UnitRows' <= unsent + failed + behind + UnitRows
    <3>1. UnitRows + 0 = UnitRows /\ unsent + failed + behind = unsent + failed + behind + 0
      BY <1>4
    <3>2. unsent' + failed' + behind' <= unsent + failed + behind + 0
      BY <1>3, <3>1
    <3>3. unsent' + failed' + behind' + UnitRows <= unsent + failed + behind + UnitRows
      BY <1>3, <1>4, <3>1, <3>2, OwedDrops
    <3> QED BY <1>5, <3>3
  <2> QED BY <1>3, <1>4, <1>5, <2>1, OwedNat DEF Owed
<1>7. Counted'
  BY <1>2, <1>4, <1>6 DEF ClientInv, Counted
<1>8. (ClientShape /\ Halted /\ ClosedStoreIsQuiet)'
  BY <1>2, <1>3 DEF ClientInv, ClientShape, Halted, ClosedStoreIsQuiet, Teardowns,
     TeardownSteps
<1> QED BY <1>7, <1>8 DEF ClientInv

\* stop() and destroy(): the halt, the check, the close and the wipe.
LEMMA ClientTeardownKeepsInv ==
    ASSUME ClientInv,
           StopClient \/ (\E f \in Forced : DestroyClient(f)) \/ DestroyCheck
             \/ StopCloses \/ DestroyWipes \/ DestroyThrows
    PROVE  ClientInv'
<1>1. CASE StopClient
  BY <1>1 DEF ClientInv, StopClient, HaltActivity, ClientShape, Halted, Counted, Owed, UnitRows,
     ClosedStoreIsQuiet, Teardowns, TeardownSteps, rows
<1>2. CASE \E f \in Forced : DestroyClient(f)
  BY <1>2 DEF ClientInv, DestroyClient, HaltActivity, ClientShape, Halted, Counted, Owed, UnitRows,
     ClosedStoreIsQuiet, Teardowns, TeardownSteps, rows
<1>3. CASE DestroyCheck
  <2>1. /\ UNCHANGED <<unsent, failed, behind, units, store, force, disposed, stage>>
        /\ late' = 0 /\ pc["destroy"] = "checking"
        /\ pc' = [pc EXCEPT !["destroy"] = IF ~force /\ Owed > 0 THEN "idle" ELSE "stopping"]
    BY <1>3 DEF DestroyCheck, OwedRows, Owed, driver
  <2>2. Owed \in Nat /\ Owed' = Owed
    BY <2>1, UnitsCount DEF Owed, UnitRows, ClientInv, ClientShape
  <2>3. pc' \in [Teardowns -> TeardownSteps]
    BY <2>1 DEF ClientInv, ClientShape, Teardowns, TeardownSteps
  <2>4. Counted'
    BY <2>1, <2>2 DEF Counted, ClientInv, ClientShape, Teardowns
  <2>5. (ClientShape /\ Halted /\ ClosedStoreIsQuiet)'
    BY <2>1, <2>3 DEF ClientInv, ClientShape, Halted, ClosedStoreIsQuiet, Teardowns
  <2> QED BY <2>4, <2>5 DEF ClientInv
<1>4. CASE StopCloses
  BY <1>4 DEF ClientInv, StopCloses, PassInFlight, ClientShape, Halted, Counted, Owed, UnitRows,
     ClosedStoreIsQuiet, Teardowns, TeardownSteps, driver, rows
<1>5. CASE DestroyWipes
  BY <1>5 DEF ClientInv, DestroyWipes, PassInFlight, ClientShape, Halted, Counted, Owed, UnitRows,
     ClosedStoreIsQuiet, Teardowns, TeardownSteps, driver
<1>6. CASE DestroyThrows
  BY <1>6 DEF ClientInv, DestroyThrows, ClientShape, Halted, Counted, Owed, UnitRows,
     ClosedStoreIsQuiet, Teardowns, TeardownSteps, driver, rows
<1> QED BY <1>1, <1>2, <1>3, <1>4, <1>5, <1>6

\* Every step preserves the invariant.
LEMMA ClientKeepsInv == ASSUME ClientInv, [ClientNext]_clientVars PROVE ClientInv'
<1>1. CASE UNCHANGED clientVars
  BY <1>1 DEF ClientInv, ClientShape, Halted, Counted, Owed, UnitRows,
     ClosedStoreIsQuiet, clientVars, driver, rows, teardown, Teardowns
<1>2. CASE ClientNext
  BY <1>2, ClientDriverKeepsInv, ClientWriteKeepsInv, ClientUnitKeepsInv,
     ClientRoundKeepsInv, ClientTeardownKeepsInv DEF ClientNext, Pass
<1> QED BY <1>1, <1>2

\* The invariant holds when the client has booted.
LEMMA ClientInvInit == ClientInit => ClientInv
<1> SUFFICES ASSUME ClientInit PROVE ClientInv OBVIOUS
<1>1. pc = [op \in Teardowns |-> "idle"] BY DEF ClientInit, Teardowns
<1>2. pc \in [Teardowns -> TeardownSteps] BY <1>1 DEF TeardownSteps
<1>3. \A op \in Teardowns : pc[op] = "idle" BY <1>1 DEF TeardownSteps
<1>4. Halted BY <1>3 DEF ClientInit, Halted
<1>5. /\ disposed \in BOOLEAN /\ unsent \in Nat /\ failed \in Nat /\ behind \in Nat
      /\ late \in Nat /\ units \in [Units -> Nat]
  BY DEF ClientInit
<1>6. Counted BY DEF ClientInit, Counted
<1>7. ClosedStoreIsQuiet BY DEF ClientInit, ClosedStoreIsQuiet
<1> QED BY <1>2, <1>4, <1>5, <1>6, <1>7 DEF ClientInv, ClientShape

(***************************************************************************)
(* stop() and destroy() never close or wipe the store under a pass, and no *)
(* pass starts on a closed store (`await currentPass`, the disposed flag). *)
(***************************************************************************)
THEOREM QuietTheorem == ClientSpec => []ClosedStoreIsQuiet
<1>1. ClientInit => ClientInv
  BY ClientInvInit
<1>2. ClientInv /\ [ClientNext]_clientVars => ClientInv'
  BY ClientKeepsInv
<1>3. ClientInv => ClosedStoreIsQuiet
  BY DEF ClientInv
<1> QED BY <1>1, <1>2, <1>3, PTL DEF ClientSpec

(***************************************************************************)
(* An unforced destroy() wipes no write that was owed at its check.        *)
(***************************************************************************)
THEOREM DestroyTheorem == ClientSpec => DestroyKeepsCheckedWrites
<1>1. ClientInit => ClientInv
  BY ClientInvInit
<1>2. ClientInv /\ [ClientNext]_clientVars => ClientInv'
  BY ClientKeepsInv
<1>3. ClientInv /\ [ClientNext]_clientVars =>
        [store = "open" /\ store' = "wiped" /\ ~force
           => unsent + failed + behind + UnitRows <= late]_clientVars
  <2> SUFFICES ASSUME ClientInv, ClientNext, store = "open", store' = "wiped", ~force
               PROVE  unsent + failed + behind + UnitRows <= late
    OBVIOUS
  <2>1. DestroyWipes
    BY DEF ClientNext, Start, Signal, GoOffline, GoOnline,
       WriteCommits, BatchCommits, UnitCommits, Commits, UnitEnds, UnitAnswers,
       UnitThrows, RequestPass, Pass, FlushRound, FlushEnds,
       ReconcileEnds, PassReturns, PassThrows, AppFlush,
       SendRound, StopClient, DestroyClient, DestroyCheck, StopCloses,
       DestroyThrows, teardown
  <2> QED BY <2>1 DEF ClientInv, Counted, Owed, DestroyWipes
<1> QED BY <1>1, <1>2, <1>3, PTL DEF ClientSpec, DestroyKeepsCheckedWrites
=============================================================================
