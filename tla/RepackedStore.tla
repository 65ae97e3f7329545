--------------------------- MODULE RepackedStore ---------------------------
(***************************************************************************)
(* The packed OPFS store (packages/pgwasm/src/opfs/core): four owned files,*)
(* a metadata log in the active one of two metadata files, repacks into    *)
(* the other, an activation slot that says which is active, and recovery.  *)
(*                                                                         *)
(* Crashes follow crash model A, as the store's memory port has it: what a *)
(* completed flush covered stays, every other write or truncate is there,  *)
(* absent, or (a write) torn, each on its own.                             *)
(*                                                                         *)
(* One call of the file system is one step: the store is synchronous.  A   *)
(* repack is cut at its flushes, where a crash finds it half done.         *)
(***************************************************************************)
EXTENDS VfsState

CONSTANTS
    Names,           \* names of directory entries
    FDs,             \* descriptors
    MaxSize,         \* bound on a file's size
    MaxOps,          \* bound on file-system calls, a trouble counting as one
    MaxGen,          \* bound on generations, a trouble counting as one
    MaxTroubles      \* bound on crashes, failures and reopens together

ASSUME SizeAssumption == MaxSize \in Nat

VARIABLES
    arena,     \* arena.bin: its blocks and length as [now, maybe] (maybe: what a crash
               \* may leave), the high-water mark, and #arenaDirty
    meta,      \* metadata file -> its durable base and log, and the unflushed effects
    slots,     \* the two activation slots, as [now, maybe]
    status,    \* "down", "open", "failed" or "corrupt"
    phase,     \* where a bootstrap or repack is: "idle", "seeded", "written", "activating"
    st,        \* the live VfsState
    log,       \* the cursor: end, next sequence, the pending resize, #metadataDirtySinceFlush
    fds,       \* descriptor -> the file or orphan it is open on
    ops, troubles,
    synced     \* inode -> what the last strict sync covered of it, unless changed since
               \* (read by properties only)

vars == <<arena, meta, slots, status, phase, st, log, fds, ops, troubles, synced>>

-----------------------------------------------------------------------------
(***************************************************************************)
(* The owned files.                                                        *)
(***************************************************************************)
Sure(v) == [now |-> v, maybe |-> {v}]
Put(cell, v) == [now |-> v, maybe |-> cell.maybe \cup {v}]

Zero == "zero"
Blocks == 0..(MaxExtents * ExtentSize - 1)
BlocksOf(X) == {b \in Blocks : b \div ExtentSize \in X}
Block(extents, k) == (extents[(k \div ExtentSize) + 1] * ExtentSize) + (k % ExtentSize)

EmptyArena == [blocks |-> [b \in Blocks |-> Sure(Zero)], len |-> Sure(0), high |-> 0, dirty |-> FALSE]
Written(a, B, v) ==
    [a EXCEPT !.dirty = TRUE, !.blocks = [b \in Blocks |-> IF b \in B THEN Put(@[b], v) ELSE @[b]]]
FlushArena(a) ==
    [a EXCEPT !.dirty = FALSE, !.len = Sure(@.now), !.blocks = [b \in Blocks |-> Sure(@[b].now)]]

NoBase == [ok |-> FALSE, state |-> InitialState]
Base(s) == [ok |-> TRUE, state |-> s]
EmptyFile == [base |-> NoBase, log |-> {}, pending |-> <<>>]

\* A frame takes room in the log: records of one kind with as many extents are
\* equally long.
Width(r) == CASE r.kind \in {"create", "resize"} -> 3 + Len(r.extents)
              [] r.kind = "reserve" -> 1 + Len(r.extents)
              [] OTHER -> 2
End(f) == f.at + Width(f.rec)
Clear(frames, f) == {g \in frames : End(g) <= f.at \/ End(f) <= g.at}

\* One effect on a metadata file, as the platform completed it.
Effect(file, e, outcome) ==
    IF outcome = "absent" THEN file
    ELSE CASE e.op = "frame" -> [file EXCEPT !.log = Clear(@, e.frame) \cup
                                                    IF outcome = "torn" THEN {} ELSE {e.frame}]
           [] e.op = "cut" -> [file EXCEPT !.log = {g \in @ : End(g) <= e.at}]
           [] e.op = "reset" -> [file EXCEPT !.base = NoBase, !.log = {}]
           [] e.op = "base" -> [file EXCEPT !.base = IF outcome = "torn" THEN NoBase ELSE Base(e.state)]

Outcomes(e) == IF e.op \in {"frame", "base"} THEN {"absent", "torn", "full"} ELSE {"absent", "full"}

\* The file after a choice of outcomes for its unflushed effects, in their order.
Left(file, outcome) ==
    LET done[k \in 0..Len(file.pending)] ==
            IF k = 0 THEN file ELSE Effect(done[k - 1], file.pending[k], outcome[k])
    IN  [done[Len(file.pending)] EXCEPT !.pending = <<>>]
Image(file) == Left(file, [k \in 1..Len(file.pending) |-> "full"])

-----------------------------------------------------------------------------
(***************************************************************************)
(* Opening: activation, base, replay.                                      *)
(***************************************************************************)
NoSlot == [seq |-> 0, file |-> "a", gen |-> 0]

\* selectActivationPair: the newer of an alternating pair, or the only valid one.
Selected == IF slots[0].now.seq > slots[1].now.seq THEN slots[0].now ELSE slots[1].now
Second == IF slots[0].now.seq > slots[1].now.seq THEN slots[1].now ELSE slots[0].now
PairIsSound == Second.seq = 0 \/ (Selected.seq = Second.seq + 1 /\ Selected.file # Second.file)

\* replayLog: the longest run of frames that are whole, of this generation, in
\* sequence and admitted by the reducer.
InTurn(r, f) == f.at = r.at /\ f.gen = r.s.gen /\ f.seq = r.seq /\ Admits(r.s, f.rec)

Replay(file, s) ==
    LET run[k \in 0..Cardinality(file.log)] ==
            IF k = 0 THEN [s |-> s, at |-> 0, seq |-> 1]
            ELSE LET r == run[k - 1]
                     next == {f \in file.log : InTurn(r, f)}
                 IN  IF next = {} THEN r
                     ELSE LET f == CHOOSE g \in next : TRUE
                          IN  [s |-> Apply(r.s, f.rec), at |-> End(f), seq |-> r.seq + 1]
    IN  run[Cardinality(file.log)]

\* The base names its own generation only; the other slot tells the other one.
Decoded(s) ==
    [s EXCEPT !.retained = [f \in {"a", "b"} |->
                IF f = s.active THEN s.gen ELSE IF Second.seq > 0 /\ Second.file = f THEN Second.gen ELSE 0]]

NoResize == [id |-> 0]
NotOpen == [on |-> 0, extents |-> <<>>, size |-> 0, owner |-> "/"]
Closed == [d \in FDs |-> NotOpen]
FreshLog == [end |-> 0, next |-> 1, pend |-> NoResize, dirty |-> FALSE]

\* The store object is dropped, its descriptors and cursor with it.
Gone == status' = "down" /\ st' = InitialState /\ log' = FreshLog /\ fds' = Closed

Refuse == status' = "corrupt" /\ UNCHANGED <<arena, meta, slots, phase, st, log, fds, ops, troubles, synced>>

RecoverActivated ==
    LET file == Image(meta[Selected.file])
        r == Replay(file, Decoded(file.base.state))
        suffix == {f \in file.log : f.at >= r.at}
        short == arena.len.now < r.s.total
    IN  /\ status' = "open"
        /\ st' = r.s
        /\ log' = [end |-> r.at, next |-> r.seq, pend |-> NoResize, dirty |-> suffix # {}]
        /\ meta' = IF suffix = {} THEN meta
                   ELSE [meta EXCEPT ![Selected.file].pending = Append(@, [op |-> "cut", at |-> r.at])]
        /\ arena' = [arena EXCEPT !.len = IF short THEN Put(@, r.s.total) ELSE @,
                                  !.high = IF short THEN r.s.total ELSE arena.len.now,
                                  !.dirty = short]
        /\ fds' = Closed
        /\ UNCHANGED <<slots, phase, ops, troubles, synced>>

\* readSelectedBase: the activation and the base must name each other.
BaseMatches ==
    LET base == Image(meta[Selected.file]).base
    IN  base.ok /\ base.state.gen = Selected.gen /\ base.state.active = Selected.file

\* Nothing is authoritative before the first activation: what an interrupted
\* bootstrap left is reset, anything else is refused.
Residue ==
    /\ arena.len.now = 0
    /\ \A f \in {"a", "b"} : LET file == Image(meta[f])
                             IN  file.log = {} /\ (file.base.ok => file.base.state.gen = 1)

\* The arena header and the first base are flushed before the slot is written.
BootstrapWrites ==
    /\ meta' = [a |-> [EmptyFile EXCEPT !.base = Base(InitialState)],
                b |-> IF meta["b"] = EmptyFile THEN EmptyFile
                      ELSE [meta["b"] EXCEPT !.pending = Append(@, [op |-> "reset"])]]
    /\ slots' = [slots EXCEPT ![0] = Put(@, [seq |-> 1, file |-> "a", gen |-> 1])]
    /\ arena' = EmptyArena
    /\ phase' = "seeded"
    /\ UNCHANGED <<status, st, log, fds, ops, troubles, synced>>

BootstrapFlushes ==
    /\ phase = "seeded"
    /\ slots' = [i \in {0, 1} |-> Sure(slots[i].now)]
    /\ phase' = "idle" /\ status' = "open"
    /\ st' = InitialState
    /\ log' = FreshLog
    /\ fds' = Closed
    /\ UNCHANGED <<arena, meta, ops, troubles, synced>>

\* openMetadataStore
Open ==
    /\ status = "down" /\ phase = "idle"
    /\ IF Selected.seq > 0 THEN IF PairIsSound /\ BaseMatches THEN RecoverActivated ELSE Refuse
       ELSE IF Residue THEN BootstrapWrites ELSE Refuse

-----------------------------------------------------------------------------
(***************************************************************************)
(* The metadata transaction engine: #commit.                               *)
(***************************************************************************)
Frame(r, at, seq) == [at |-> at, gen |-> st.gen, seq |-> seq, rec |-> r]

\* The pending resize is appended, under the sequence number it reserved.
Due == IF log.pend.id = 0 THEN <<>> ELSE <<Frame(log.pend.rec, log.end, log.pend.seq)>>
EndAfter(frames) == IF frames = <<>> THEN log.end ELSE End(Last(frames))
Appended(frames) == [k \in DOMAIN frames |-> [op |-> "frame", frame |-> frames[k]]]

Append2Log(frames) == meta' = [meta EXCEPT ![st.active].pending = @ \o Appended(frames)]

\* #isDeferrableResize: a growing write.
Deferrable(r) == r.kind = "resize" /\ r.operation = "write" /\ r.size > st.nodes[r.id].size

\* A growing write to the file whose resize is pending joins it.
MergedLast(r) == r     \* mutant: the earlier allocation is forgotten
Merged(r) == [r EXCEPT !.extents = log.pend.rec.extents \o @]

Commit(r) ==
    /\ st' = Apply(st, r)
    /\ IF Deferrable(r) /\ log.pend.id = r.id
       THEN log' = [log EXCEPT !.pend.rec = Merged(r)] /\ UNCHANGED meta
       ELSE IF Deferrable(r)
       THEN /\ Append2Log(Due)
            /\ log' = [end |-> EndAfter(Due), next |-> log.next + 1, dirty |-> log.dirty \/ Due # <<>>,
                       pend |-> [id |-> r.id, rec |-> r, seq |-> log.next]]
       ELSE LET frames == Append(Due, Frame(r, EndAfter(Due), log.next))
            IN  /\ Append2Log(frames)
                /\ log' = [end |-> EndAfter(frames), next |-> log.next + 1, dirty |-> TRUE, pend |-> NoResize]

-----------------------------------------------------------------------------
(***************************************************************************)
(* Data: reused extents are zeroed and flushed before a frame names them,  *)
(* and so is what an extension makes visible of the arena as it was.       *)
(***************************************************************************)
Greater(m, n) == IF m > n THEN m ELSE n

Grown(a, X) ==
    LET need == 1 + CHOOSE x \in X : \A y \in X : y <= x
    IN  IF X = {} \/ need <= a.len.now THEN a
        ELSE [a EXCEPT !.dirty = TRUE, !.len = Put(@, need), !.high = Greater(@, need)]

Reused(xs) == {x \in ToSet(xs) : x < st.total \/ x < arena.high}

\* #prepareAllocated
Prepared(a, xs) ==
    LET grown == Grown(a, Fresh(st, xs))
    IN  IF Reused(xs) = {} THEN grown ELSE FlushArena(Written(grown, BlocksOf(Reused(xs)), Zero))

\* #zeroLogical, and its flush.
ZeroGap(a, extents, from, to) ==
    LET B == {Block(extents, k) : k \in from..(to - 1)} \cap BlocksOf(0..(arena.len.now - 1))
    IN  IF B = {} THEN a ELSE FlushArena(Written(a, B, Zero))

-----------------------------------------------------------------------------
(***************************************************************************)
(* The file-system calls.                                                  *)
(***************************************************************************)
Call == status = "open" /\ phase = "idle" /\ ops + troubles < MaxOps /\ ops' = ops + 1
Quietly == UNCHANGED <<slots, status, phase, troubles>>
Touch(I) == synced' = [i \in DOMAIN synced \ I |-> synced[i]]

MakeEntry(r) == /\ Call /\ Admits(st, r) /\ Commit(r)
                /\ Touch({r.id}) /\ Quietly

\* mkdir and symlink change the metadata only.
Mkdir(d, name) == MakeEntry(CreateDirectory(st, d, name)) /\ UNCHANGED <<arena, fds>>
Symlink(d, name) == MakeEntry(CreateSymlink(st, d, name)) /\ UNCHANGED <<arena, fds>>

\* writeFile of a new file, or open with create (size 0).
WriteNewFile(d, name, size) ==
    LET r == Create(st, "file", d, name, size)
    IN  /\ MakeEntry(r)
        /\ arena' = IF size = 0 THEN arena
                    ELSE Written(Prepared(arena, r.extents), {Block(r.extents, k) : k \in 0..(size - 1)}, name)
        /\ UNCHANGED fds

OpenFile(d, i) ==
    /\ status = "open" /\ phase = "idle" /\ fds[d] = NotOpen /\ i \in Files(st)
    /\ fds' = [fds EXCEPT ![d].on = i]
    /\ UNCHANGED <<arena, meta, slots, status, phase, st, log, ops, troubles, synced>>

CloseFile(d) ==
    /\ status = "open" /\ phase = "idle" /\ fds[d] # NotOpen
    /\ fds' = [fds EXCEPT ![d] = NotOpen]
    /\ UNCHANGED <<arena, meta, slots, status, phase, st, log, ops, troubles, synced>>

\* write of one block at k: in place, or an extension past a zeroed gap.
WriteFile(i, k) ==
    LET n == st.nodes[i]
        r == Resize(st, i, k + 1, "write")
        xs == n.extents \o r.extents
    IN  /\ Call /\ Touch({i}) /\ Quietly /\ UNCHANGED fds
        /\ IF k < n.size
           THEN arena' = Written(arena, {Block(n.extents, k)}, n.owner) /\ UNCHANGED <<meta, st, log>>
           ELSE /\ Admits(st, r) /\ Commit(r)
                /\ arena' = Written(ZeroGap(Prepared(arena, r.extents), xs, n.size, k), {Block(xs, k)}, n.owner)

Orphan == -1

\* #writeOrphan: a reservation is committed before the bytes are written.
WriteOrphan(d, k) ==
    LET o == fds[d]
        more == CountFor(k + 1) - Len(o.extents)
        r == Reserve(st, more)
        xs == o.extents \o IF more > 0 THEN r.extents ELSE <<>>
    IN  /\ Call /\ o.on = Orphan /\ Touch({}) /\ Quietly
        /\ IF more > 0 THEN Admits(st, r) /\ Commit(r) ELSE UNCHANGED <<meta, st, log>>
        /\ LET a == IF more > 0 THEN Prepared(arena, r.extents) ELSE arena
           IN  arena' = Written(IF k > o.size THEN ZeroGap(a, xs, o.size, k) ELSE a, {Block(xs, k)}, o.owner)
        /\ fds' = [fds EXCEPT ![d].extents = xs, ![d].size = Greater(@, k + 1)]

Truncate(i, size) ==
    LET n == st.nodes[i]
        r == Resize(st, i, size, "truncate")
    IN  /\ Call /\ size # n.size /\ Admits(st, r) /\ Commit(r)
        /\ arena' = IF size < n.size THEN arena
                    ELSE ZeroGap(Prepared(arena, r.extents), n.extents \o r.extents, n.size, size)
        /\ Touch({i}) /\ Quietly /\ UNCHANGED fds

\* The descriptors open on a removed file keep it as an orphan.
Orphaned(I) ==
    fds' = [d \in FDs |->
              IF fds[d].on \in I
              THEN LET n == st.nodes[fds[d].on]
                   IN  [on |-> Orphan, extents |-> n.extents, size |-> n.size, owner |-> n.owner]
              ELSE fds[d]]

Unlink(d, name) ==
    LET r == Removal("file", d, name)
    IN  /\ Call /\ Admits(st, r) /\ Commit(r)
        /\ Orphaned(Entry(st, d, name))
        /\ Touch(Entry(st, d, name)) /\ Quietly /\ UNCHANGED arena

Rmdir(d, name) ==
    LET r == Removal("dir", d, name)
    IN  /\ Call /\ Admits(st, r) /\ Commit(r)
        /\ Touch(Entry(st, d, name)) /\ Quietly /\ UNCHANGED <<arena, fds>>

Move(d, name, newDir, newName) ==
    LET r == Rename(d, name, newDir, newName)
    IN  /\ Call /\ Admits(st, r) /\ Commit(r)
        /\ Orphaned(Entry(st, newDir, newName))
        /\ Touch(Entry(st, d, name) \cup Entry(st, newDir, newName)) /\ Quietly /\ UNCHANGED arena

\* chmod and utimes.
SetAttributes(i) == /\ Call /\ Commit(Attributes(i))
                    /\ Touch({i}) /\ Quietly /\ UNCHANGED <<arena, fds>>

-----------------------------------------------------------------------------
(***************************************************************************)
(* Syncs and repacks.                                                      *)
(***************************************************************************)
Contents(s, a) ==
    [i \in DOMAIN s.nodes |->
        [node |-> s.nodes[i],
         data |-> [k \in 1..s.nodes[i].size |-> a.blocks[Block(s.nodes[i].extents, k - 1)].now]]]

SyncedWithLog(a) == IF log.dirty THEN FlushArena(a) ELSE a     \* mutant: only when the log changed
SyncedArena(a) == IF a.dirty THEN FlushArena(a) ELSE a

\* strictSync: the arena, then the log with its pending resize.
Sync ==
    /\ status = "open" /\ phase = "idle"
    /\ arena' = SyncedArena(arena)
    /\ LET file == [meta[st.active] EXCEPT !.pending = @ \o Appended(Due)]
       IN  meta' = [meta EXCEPT ![st.active] = IF log.dirty \/ Due # <<>> THEN Image(file) ELSE file]
    /\ synced' = Contents(st, arena)
    /\ UNCHANGED <<slots, phase, ops, troubles>>
StrictSync ==
    /\ Sync
    /\ log' = [log EXCEPT !.end = EndAfter(Due), !.pend = NoResize, !.dirty = FALSE]
    /\ UNCHANGED <<status, st, fds>>
CloseStore == Sync /\ Gone

\* runScheduledRepack, short of a repack: the amortised flush may be due.
RunScheduled ==
    /\ status = "open" /\ phase = "idle" /\ arena.dirty
    /\ arena' \in {arena, FlushArena(arena)}
    /\ Append2Log(Due)
    /\ log' = [log EXCEPT !.end = EndAfter(Due), !.pend = NoResize, !.dirty = @ \/ Due # <<>>]
    /\ UNCHANGED <<slots, status, phase, st, fds, ops, troubles, synced>>

NothingPinned == {}     \* mutant: orphans are aged like the rest
Pinned == UNION {ToSet(fds[d].extents) : d \in FDs}
Projected == ProjectRepack(st, Pinned)

\* repack as far as the unflushed base: the log is complete, the arena flushed.
RepackWrites ==
    /\ status = "open" /\ phase = "idle" /\ st.gen + troubles < MaxGen
    /\ meta' = [meta EXCEPT
                  ![st.active].pending = @ \o Appended(Due),
                  ![Projected.active].pending = @ \o <<[op |-> "reset"], [op |-> "base", state |-> Projected]>>]
    /\ log' = [log EXCEPT !.end = EndAfter(Due), !.pend = NoResize, !.dirty = @ \/ Due # <<>>]
    /\ arena' = FlushArena(arena)
    /\ phase' = "written"
    /\ UNCHANGED <<slots, status, st, fds, ops, troubles, synced>>

\* The slot is written once the base is flushed.
NextSlot == [seq |-> Selected.seq + 1, file |-> Projected.active, gen |-> Projected.gen]
SlotWritten ==
    /\ slots' = [slots EXCEPT ![(NextSlot.seq - 1) % 2] = [now |-> NextSlot, maybe |-> @.maybe \cup {NoSlot, NextSlot}]]
    /\ phase' = "activating"
    /\ UNCHANGED <<arena, status, st, log, fds, ops, troubles, synced>>
ActivatesUnflushed == phase = "written" /\ SlotWritten /\ UNCHANGED meta     \* mutant: no flush first
RepackActivates ==
    /\ phase = "written"
    /\ meta' = [meta EXCEPT ![Projected.active] = Image(@)]
    /\ SlotWritten

\* The slot is flushed, the projection installed, the arena's tail trimmed.
RepackInstalls ==
    /\ phase = "activating"
    /\ slots' = [i \in {0, 1} |-> Sure(slots[i].now)]
    /\ st' = Projected
    /\ log' = FreshLog
    /\ arena' = IF arena.len.now <= Projected.total THEN arena
                ELSE [Written(arena, BlocksOf(Projected.total..(MaxExtents - 1)), Zero)
                        EXCEPT !.len = Put(@, Projected.total)]
    /\ phase' = "idle"
    /\ UNCHANGED <<meta, status, fds, ops, troubles, synced>>

-----------------------------------------------------------------------------
(***************************************************************************)
(* Failures, reopening, crashes.                                           *)
(***************************************************************************)
Trouble == troubles < MaxTroubles /\ troubles' = troubles + 1
Poisoned == status' = "failed"

\* An arena write that made no progress.
WriteFails ==
    /\ status = "open" /\ phase = "idle" /\ Trouble /\ Poisoned
    /\ UNCHANGED <<arena, meta, slots, phase, st, log, fds, ops, synced>>

\* A log append reports a failure: the frame may be there or not.
UnlinkFails(d, name) ==
    LET r == Removal("file", d, name)
    IN  /\ Call /\ Admits(st, r) /\ Trouble /\ Poisoned
        /\ \E frames \in {Due, Append(Due, Frame(r, EndAfter(Due), log.next))} : Append2Log(frames)
        /\ Touch(Entry(st, d, name))
        /\ UNCHANGED <<arena, slots, phase, st, log, fds>>

\* Before the slot is written a failed repack leaves the store as it is.
RepackFails ==
    /\ phase = "written" /\ Trouble
    /\ phase' = "idle"
    /\ UNCHANGED <<arena, meta, slots, status, st, log, fds, ops, synced>>

\* From there on it cannot know.
ActivationFails ==
    /\ phase = "activating" /\ Trouble /\ Poisoned
    /\ phase' = "idle"
    /\ UNCHANGED <<arena, meta, slots, st, log, fds, ops, synced>>

\* A failed store is closed without a sync; the platform keeps what was written.
CloseFailed ==
    /\ status = "failed"
    /\ Gone
    /\ UNCHANGED <<arena, meta, slots, phase, ops, troubles, synced>>

Unsure == {b \in Blocks : Cardinality(arena.blocks[b].maybe) > 1}

ArenaLeft(choice, len) ==
    LET value(b) == IF b \in Unsure THEN choice[b] ELSE arena.blocks[b].now
        held == {b \in Blocks : value(b) # Zero}
        reach == IF held = {} THEN 0 ELSE 1 + ((CHOOSE b \in held : \A c \in held : c <= b) \div ExtentSize)
    IN  [EmptyArena EXCEPT !.blocks = [b \in Blocks |-> Sure(value(b))], !.len = Sure(Greater(len, reach))]

\* The worker, tab or browser ends between two effects.
Crash ==
    /\ status \in {"open", "failed"} \/ phase = "seeded"
    /\ Trouble
    /\ \E choice \in [Unsure -> UNION {arena.blocks[b].maybe : b \in Unsure}], len \in arena.len.maybe :
          /\ \A b \in Unsure : choice[b] \in arena.blocks[b].maybe
          /\ arena' = ArenaLeft(choice, len)
    /\ \E one \in [1..Len(meta["a"].pending) -> {"absent", "torn", "full"}],
          two \in [1..Len(meta["b"].pending) -> {"absent", "torn", "full"}] :
          /\ \A k \in DOMAIN one : one[k] \in Outcomes(meta["a"].pending[k])
          /\ \A k \in DOMAIN two : two[k] \in Outcomes(meta["b"].pending[k])
          /\ meta' = [a |-> Left(meta["a"], one), b |-> Left(meta["b"], two)]
    /\ \E left \in slots[0].maybe, right \in slots[1].maybe :
          slots' = [i \in {0, 1} |-> Sure(IF i = 0 THEN left ELSE right)]
    /\ Gone /\ phase' = "idle"
    /\ UNCHANGED <<ops, synced>>

-----------------------------------------------------------------------------
Init ==
    /\ arena = EmptyArena
    /\ meta = [f \in {"a", "b"} |-> EmptyFile]
    /\ slots = [i \in {0, 1} |-> Sure(NoSlot)]
    /\ status = "down" /\ phase = "idle"
    /\ st = InitialState /\ log = FreshLog /\ fds = Closed
    /\ ops = 0 /\ troubles = 0
    /\ synced = [i \in {} |-> {}]

\* The sizes a caller asks for.
Sizes == {0, MaxSize}

Calls ==
    \/ \E d \in Dirs(st), name \in Names :
          \/ Mkdir(d, name)
          \/ \E size \in Sizes : WriteNewFile(d, name, size)
          \/ Unlink(d, name)
          \/ Rmdir(d, name)
          \/ \E newDir \in Dirs(st), newName \in Names : Move(d, name, newDir, newName)
    \/ \E name \in Names : Symlink(Root, name)
    \/ \E i \in Files(st) :
          \/ \E k \in 0..(MaxSize - 1) : WriteFile(i, k)
          \/ \E size \in Sizes : Truncate(i, size)
          \/ SetAttributes(i)
    \/ \E d \in FDs :
          \/ \E i \in Files(st) : OpenFile(d, i)
          \/ CloseFile(d)
          \/ \E k \in 0..(MaxSize - 1) : WriteOrphan(d, k)

Repack == RepackWrites \/ RepackActivates \/ RepackInstalls

Troubles ==
    \/ WriteFails
    \/ \E d \in Dirs(st), name \in Names : UnlinkFails(d, name)
    \/ RepackFails
    \/ ActivationFails
    \/ Crash

Next ==
    \/ Open \/ BootstrapFlushes
    \/ Calls
    \/ StrictSync \/ CloseStore \/ RunScheduled
    \/ Repack
    \/ CloseFailed
    \/ Troubles

Spec == Init /\ [][Next]_vars

-----------------------------------------------------------------------------
\* The live metadata is always one that validateState accepts: a tree whose files
\* have the extents their sizes need, and every extent in exactly one class.
TypeOK ==
    /\ status \in {"down", "open", "failed", "corrupt"}
    /\ phase \in {"idle", "seeded", "written", "activating"}
    /\ status = "open" => WellFormed(st)
    /\ \A d \in FDs : fds[d].on > 0 => fds[d].on \in Files(st)

\* Whatever one crash, or one failed effect, leaves of the four files, the store
\* opens again: it never takes its own half-done bootstrap, repack or append for
\* corruption.  A failed flush and then a crash: see RepackedStoreUnflushedSlot.cfg.
OpensAgain == status # "corrupt"

\* Live commits and replay agree: the files as they stand, replayed, and then the
\* pending resize, give the live state, so what has been merged and deferred is
\* what recovery would see.
ReplayGivesLiveState ==
    status = "open" /\ phase = "idle" =>
        LET file == Image(meta[st.active])
            r == Replay(file, Decoded(file.base.state)).s
        IN  st = IF log.pend.id = 0 THEN r ELSE Apply(r, log.pend.rec)

\* No file and no orphan shows bytes another file wrote, not even after a crash or
\* a failed effect (the two-repack quarantine, the zero barriers, the pinned
\* orphans).  Two crashes break it: a stale frame that a first recovery
\* dropped without a flush is accepted by the second.
OwnBytesOnly ==
    status = "open" =>
        /\ \A i \in Files(st) : \A k \in 0..(st.nodes[i].size - 1) :
              arena.blocks[Block(st.nodes[i].extents, k)].now \in {Zero, st.nodes[i].owner}
        /\ \A d \in FDs : \A k \in 0..(fds[d].size - 1) :
              arena.blocks[Block(fds[d].extents, k)].now \in {Zero, fds[d].owner}

\* What a strict sync covered, and nothing has changed since, is there after a
\* crash or a failed effect: the metadata and the data together.  A failure and then
\* a crash: see RepackedStoreReopen.cfg.
SyncedSurvives ==
    status = "open" =>
        \A i \in DOMAIN synced : i \in DOMAIN st.nodes /\ Contents(st, arena)[i] = synced[i]
=============================================================================
