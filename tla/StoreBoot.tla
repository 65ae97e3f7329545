----------------------------- MODULE StoreBoot -----------------------------
(***************************************************************************)
(* How a store is minted, committed, opened again and destroyed, and what  *)
(* a crash between two of those steps leaves for the next boot.            *)
(*                                                                         *)
(* A store path has two possible homes for its bytes, an OPFS directory    *)
(* and an IndexedDB database, and three pieces of durable authority over   *)
(* them: the meta record, the commitment sentinel in OPFS, and the marker  *)
(* "OPFS deletion pending".  A context (a worker, or a page) runs one      *)
(* operation at a time; what a function of the source awaits one after the *)
(* other is a sequence of effects here, and a context performs them one    *)
(* step each.  A context may end between any two of them.                  *)
(*                                                                         *)
(* A home is what the context can do with OPFS: "granted" opens stores     *)
(* there, "denied" may only look and delete, and "blind" cannot open its   *)
(* root at all.  Every directory or database that is created gets a number *)
(* of its own, so that an empty replacement is told from the store it      *)
(* replaces.                                                               *)
(***************************************************************************)
EXTENDS Integers, Sequences, FiniteSets

CONSTANTS
    Contexts,       \* the workers and pages that use the store path
    Homes,          \* the homes a context may run an operation in
    MaxMints,       \* bound: directories and databases created
    MaxDestroys,    \* bound: destroys begun
    MaxTroubles,    \* bound: failing effects, failing opens, contexts that
                    \* end in the middle of an operation
    Windows         \* the overlaps that may happen

NoOne == "no one"

ASSUME BootAssumption ==
    /\ NoOne \notin Contexts
    /\ Homes \subseteq {"granted", "denied", "blind"}
    /\ MaxMints \in Nat /\ MaxDestroys \in Nat /\ MaxTroubles \in Nat
    /\ Windows \subseteq {"overlap", "provision"}

VARIABLES
    record,     \* the phase of the store meta record
    sentinel,   \* the commitment sentinel is present
    dir,        \* the store directory, 0 when absent
    idb,        \* the IndexedDB database, 0 when absent
    pending,    \* the marker "OPFS deletion pending"
    disk,       \* what a directory would show after a crash
    owner,      \* who holds the store's ownership lock
    ctx,        \* what each context is doing
    minted,     \* how many directories and databases were created
    exposed,    \* the stores handed to an application so far
    condemned,  \* the stores a destroy has condemned so far
    destroys,   \* destroys begun
    troubles    \* troubles met

durable == <<record, sentinel, dir, idb, pending>>
history == <<exposed, condemned, destroys>>
vars == <<durable, disk, owner, ctx, minted, history, troubles>>

NoStore == 0
Phases == {"none", "idb-authoritative", "opfs-candidate", "opfs-committed",
           "deleting"}

\* For comparison: a boot that classifies once, whatever it had to delete.
ClassifyOnce == 1
MaxDeletionReclassify == 4

\* Doing nothing: at is where the context is, todo the effects it still has to
\* perform before it goes to then, handle the store it opens or has open.
Idle == [at |-> "idle", home |-> "none", mode |-> "none", todo |-> <<>>,
         then |-> "none", round |-> 0, handle |-> NoStore]

InFlight(c) == ctx[c].at \notin {"idle", "up", "stuck"}
Booting(c) == InFlight(c) /\ ctx[c].mode # "destroy"

\* Operations of different contexts follow one another, as the election of
\* one engine and the refusal to destroy under a peer make them; an open store
\* does not keep others from beginning.
NoneInFlight == "overlap" \in Windows \/ \A d \in Contexts : ~InFlight(d)
MayBegin(c) == ctx[c].at = "idle" /\ NoneInFlight

-----------------------------------------------------------------------------
(***************************************************************************)
(* The sequences of effects.                                               *)
(***************************************************************************)
\* For comparison: authority before data.
SentinelBeforeSync == <<"publishSentinel", "strictSync", "opfs-committed">>
RunCommitmentBarrier == <<"strictSync", "publishSentinel", "opfs-committed">>

BeginFreshCandidate == <<"opfs-candidate", "createDirectory">>

\* For comparison: the record, which keeps a boot from reading the rest, goes first.
RecordGoesFirst ==
    <<"deleteRecord", "deleteSentinel", "deleteDirectory", "deleteIdb">>
ResumeDeletion ==
    <<"deleteSentinel", "deleteDirectory", "deleteIdb", "deleteRecord">>

\* A context that cannot open the root notes the OPFS side as pending instead,
\* once for the sentinel and once, under the ownership lock, for the directory.
RunDestruction(home) ==
    <<"deleting">> \o
    IF home = "blind"
    THEN <<"notePending", "notePendingOwned", "deleteIdb", "deleteRecord">>
    ELSE ResumeDeletion

RetireCandidate == <<"deleteSentinel", "deleteDirectory", "deleteRecord">>

FallbackVirginCandidateToIdb ==
    <<"deleteSentinel", "deleteDirectory", "idb-authoritative">>

SettlePendingOpfsDeletion ==
    <<"deleteSentinel", "deleteDirectory", "clearPending">>

\* The classifier, over the record and what a granted home observes.
ClassifyStoreBoot ==
    CASE record = "deleting"          -> "resume-deletion"
      [] record = "opfs-committed"    -> "open-committed"
      [] record = "opfs-candidate"    -> "delete-candidate-and-rebuild"
      [] record = "idb-authoritative" -> "boot-idb-authoritative"
      [] record = "none" /\ sentinel  -> "repair-record-then-open-committed"
      [] record = "none" /\ ~sentinel /\ dir # NoStore ->
                                         "delete-candidate-and-rebuild"
      [] OTHER -> IF idb # NoStore THEN "boot-idb-authoritative"
                                   ELSE "virgin-create"

-----------------------------------------------------------------------------
Init ==
    /\ record = "none" /\ sentinel = FALSE /\ pending = FALSE
    /\ dir = NoStore /\ idb = NoStore
    /\ disk = [i \in 1..MaxMints |-> "blank"]
    /\ owner = NoOne
    /\ ctx = [c \in Contexts |-> Idle]
    /\ minted = 0 /\ exposed = {} /\ condemned = {}
    /\ destroys = 0 /\ troubles = 0

Goto(c, at) == ctx' = [ctx EXCEPT ![c].at = at]

\* The effects todo, and then the label then.
Run(c, todo, then) ==
    ctx' = [ctx EXCEPT ![c].at = "effects", ![c].todo = todo, ![c].then = then]

\* The operation rejects.  An engine that the context has opened, by this
\* operation or by an earlier one, is not closed.
Rejected(c) == [Idle EXCEPT !.at = "stuck", !.mode = ctx[c].mode, !.handle = ctx[c].handle]
Reject(c) == ctx' = [ctx EXCEPT ![c] = IF owner = c THEN Rejected(c) ELSE Idle]

Trouble == troubles < MaxTroubles /\ troubles' = troubles + 1

-----------------------------------------------------------------------------
(***************************************************************************)
(* The effects.                                                            *)
(***************************************************************************)
IdbIsOpen == \E c \in Contexts : ctx[c].at = "up" /\ ctx[c].mode = "idb"

\* Waits for the owner to let go, or for the connections to close.
Blocked(e) ==
    \/ e \in {"deleteDirectory", "notePendingOwned"} /\ owner # NoOne
    \/ e = "deleteIdb" /\ IdbIsOpen

Advance(c) ==
    LET rest == Tail(ctx[c].todo)
    IN  ctx' = [ctx EXCEPT ![c].todo = rest,
                           ![c].at = IF rest = <<>> THEN ctx[c].then ELSE @]

WritePhase(phase) ==
    /\ record' = phase
    /\ condemned' = IF phase = "deleting"
                    THEN condemned \cup ({dir, idb} \ {NoStore}) ELSE condemned
    /\ UNCHANGED <<sentinel, dir, idb, pending, disk, minted>>

CreateDirectory ==
    /\ dir' = IF dir = NoStore THEN minted + 1 ELSE dir
    /\ minted' = IF dir = NoStore THEN minted + 1 ELSE minted
    /\ minted' <= MaxMints

Perform(c, e) ==
    \/ /\ e \in Phases
       /\ WritePhase(e)
    \/ /\ e = "deleteRecord"
       /\ WritePhase("none")
    \/ /\ e \in {"publishSentinel", "deleteSentinel"}
       /\ sentinel' = (e = "publishSentinel")
       /\ UNCHANGED <<record, dir, idb, pending, disk, minted, condemned>>
    \/ /\ e = "createDirectory"
       /\ CreateDirectory
       /\ UNCHANGED <<record, sentinel, idb, pending, disk, condemned>>
    \/ /\ e = "deleteDirectory"
       /\ dir' = NoStore
       /\ UNCHANGED <<record, sentinel, idb, pending, disk, minted, condemned>>
    \/ /\ e = "deleteIdb"
       /\ idb' = NoStore
       /\ UNCHANGED <<record, sentinel, dir, pending, disk, minted, condemned>>
    \/ /\ e \in {"notePending", "notePendingOwned", "clearPending"}
       /\ pending' = (e # "clearPending")
       /\ UNCHANGED <<record, sentinel, dir, idb, disk, minted, condemned>>
    \/ /\ e = "strictSync"
       /\ disk' = [disk EXCEPT ![ctx[c].handle] = "synced"]
       /\ UNCHANGED <<durable, minted, condemned>>

Effect(c) ==
    /\ ctx[c].at = "effects"
    /\ ~Blocked(Head(ctx[c].todo))
    /\ Perform(c, Head(ctx[c].todo))
    /\ Advance(c)
    /\ UNCHANGED <<owner, exposed, destroys, troubles>>

\* The bounded wait runs out.
EffectTimesOut(c) ==
    /\ ctx[c].at = "effects"
    /\ Blocked(Head(ctx[c].todo))
    /\ Reject(c)
    /\ UNCHANGED <<durable, disk, owner, minted, history, troubles>>

EffectFails(c) ==
    /\ ctx[c].at = "effects"
    /\ Trouble
    /\ Reject(c)
    /\ UNCHANGED <<durable, disk, owner, minted, history>>

-----------------------------------------------------------------------------
(***************************************************************************)
(* Booting: which backend, and what has to be finished first.              *)
(***************************************************************************)
Begin(c, home, mode, at) ==
    ctx' = [ctx EXCEPT ![c] = [Idle EXCEPT !.at = at, !.home = home, !.mode = mode]]

\* createSyncClient on a path.  A home without a grant goes to the meta gate.
Boot(c, home) ==
    /\ MayBegin(c)
    /\ minted + 2 <= MaxMints
    /\ Begin(c, home, "boot", IF home = "granted" THEN "resolve" ELSE "gate")
    /\ UNCHANGED <<durable, disk, owner, minted, history, troubles>>

\* The accelerator: a store opened ahead of the attach that will adopt it.
ProvableVirgin == record = "none" /\ ~sentinel /\ dir = NoStore /\ idb = NoStore

Provision(c) ==
    /\ MayBegin(c)
    /\ minted + 2 <= MaxMints
    /\ ~pending \/ "provision" \in Windows
    /\ \/ /\ record = "opfs-committed"
          /\ Begin(c, "granted", "adopted", "handle")
       \/ /\ ProvableVirgin
          /\ ctx' = [ctx EXCEPT ![c] =
                       [Idle EXCEPT !.at = "effects", !.home = "granted",
                                    !.mode = "adopted", !.then = "handle",
                                    !.todo = <<"opfs-candidate">>]]
    /\ UNCHANGED <<durable, disk, owner, minted, history, troubles>>

\* A later attach boots again in the worker whose boot was rejected, over the
\* engine that is still open: it adopts a spare again without looking at the
\* deletions that may have begun, and has to open any other store anew.
Undisturbed(c) ==
    record \in {"opfs-candidate", "opfs-committed"} /\ dir # NoStore /\ dir = ctx[c].handle

BootAgain(c) ==
    /\ ctx[c].at = "stuck" /\ NoneInFlight
    /\ \/ /\ ctx[c].mode = "adopted"
          /\ Undisturbed(c) \/ "provision" \in Windows
          /\ ctx' = [ctx EXCEPT ![c] =
                       [Idle EXCEPT !.at = "milestone", !.home = "granted",
                                    !.mode = "adopted", !.handle = ctx[c].handle]]
       \/ /\ ctx[c].mode # "adopted"
          /\ minted + 2 <= MaxMints
          /\ Begin(c, "granted", "boot", "resolve")
    /\ UNCHANGED <<durable, disk, owner, minted, history, troubles>>

\* The verdicts of one classification: the effects, where they lead, and the
\* mode of the mint.
Verdict(v) ==
    CASE v = "resume-deletion" -> [todo |-> ResumeDeletion, then |-> "resolve",
                                   mode |-> "boot"]
      [] v = "delete-candidate-and-rebuild" ->
            [todo |-> RetireCandidate, then |-> "resolve", mode |-> "boot"]
      [] v = "repair-record-then-open-committed" ->
            [todo |-> <<"opfs-committed">>, then |-> "handle", mode |-> "committed"]
      [] v = "open-committed" ->
            [todo |-> <<>>, then |-> "handle", mode |-> "committed"]
      [] v = "boot-idb-authoritative" ->
            [todo |-> IF record = "none" THEN <<"idb-authoritative">> ELSE <<>>,
             then |-> "gate", mode |-> "boot"]
      [] v = "virgin-create" ->
            [todo |-> BeginFreshCandidate, then |-> "handle", mode |-> "fresh"]

ResolveStoreBoot(c) ==
    LET v == Verdict(ClassifyStoreBoot)
    IN  /\ ctx[c].at = "resolve"
        /\ IF pending THEN Run(c, SettlePendingOpfsDeletion, "resolve")
           ELSE IF ctx[c].round = MaxDeletionReclassify THEN Reject(c)
           ELSE ctx' = [ctx EXCEPT
                   ![c].at = IF v.todo = <<>> THEN v.then ELSE "effects",
                   ![c].todo = v.todo, ![c].then = v.then,
                   ![c].mode = v.mode, ![c].round = @ + 1]
        /\ UNCHANGED <<durable, disk, owner, minted, history, troubles>>

\* What every mint of an IndexedDB store passes through first.
ResolveDeniedBootAuthority(c) ==
    LET blind == ctx[c].home = "blind"
    IN  /\ ctx[c].at = "gate"
        /\ \/ /\ pending /\ ~blind
              /\ Run(c, SettlePendingOpfsDeletion, "gate")
           \/ /\ ~pending \/ blind
              /\ \/ record = "opfs-committed" /\ Reject(c)
                 \/ /\ record \in {"deleting", "opfs-candidate"} /\ blind
                    /\ IF record = "deleting" /\ pending
                       THEN Run(c, <<"deleteIdb", "deleteRecord">>, "gate")
                       ELSE Reject(c)
                 \/ /\ record = "deleting" /\ ~blind
                    /\ Run(c, <<"deleteIdb", "deleteSentinel",
                                "deleteDirectory", "idb-authoritative">>, "gate")
                 \/ /\ record = "opfs-candidate" /\ ~blind
                    /\ Run(c, <<"deleteSentinel", "deleteDirectory",
                                "idb-authoritative">>, "gate")
                 \/ /\ record \in {"none", "idb-authoritative"}
                    /\ Goto(c, "mint")
        /\ UNCHANGED <<durable, disk, owner, minted, history, troubles>>

-----------------------------------------------------------------------------
(***************************************************************************)
(* Minting, the commitment barrier, and handing the store out.             *)
(***************************************************************************)
MintIdb(c) ==
    /\ ctx[c].at = "mint"
    /\ idb' = IF idb = NoStore THEN minted + 1 ELSE idb
    /\ minted' = IF idb = NoStore THEN minted + 1 ELSE minted
    /\ minted' <= MaxMints
    /\ ctx' = [ctx EXCEPT ![c].at = "expose", ![c].mode = "idb", ![c].handle = idb']
    /\ UNCHANGED <<record, sentinel, dir, pending, disk, owner, history, troubles>>

GetStoreDirectoryHandle(c) ==
    /\ ctx[c].at = "handle"
    /\ CreateDirectory
    /\ ctx' = [ctx EXCEPT ![c].at = "acquire", ![c].handle = dir']
    /\ UNCHANGED <<record, sentinel, idb, pending, disk, owner, history, troubles>>

AcquireStoreOwnership(c) ==
    /\ ctx[c].at = "acquire" /\ owner = NoOne
    /\ owner' = c
    /\ Goto(c, "open")
    /\ UNCHANGED <<durable, disk, minted, history, troubles>>

\* An open initialises an empty directory; nothing of that is synced yet.
OpenStore(c) ==
    /\ ctx[c].at = "open" /\ dir = ctx[c].handle
    /\ disk' = [disk EXCEPT ![dir] = IF @ = "blank" THEN "loose" ELSE @]
    /\ Goto(c, "milestone")
    /\ UNCHANGED <<durable, owner, minted, history, troubles>>

\* The open fails, after its retries, or the lock could not be had in time: a
\* fresh candidate falls back, an adopted one leaves the boot to do it all, a
\* committed store fails hard.
CannotOpen(c) ==
    \/ ctx[c].at = "acquire" /\ owner # NoOne
    \/ ctx[c].at = "open" /\ dir # ctx[c].handle

OpenFails(c) ==
    /\ \/ CannotOpen(c) /\ UNCHANGED troubles
       \/ ctx[c].at = "open" /\ Trouble
    /\ owner' = IF ctx[c].at = "open" THEN NoOne ELSE owner
    /\ ctx' = [ctx EXCEPT ![c] =
         CASE ctx[c].mode = "fresh" ->
                [@ EXCEPT !.at = "effects", !.then = "gate", !.mode = "boot",
                          !.todo = FallbackVirginCandidateToIdb]
           [] ctx[c].mode = "adopted" -> [@ EXCEPT !.at = "resolve", !.mode = "boot"]
           [] ctx[c].mode = "committed" -> IF owner' = c THEN Rejected(c) ELSE Idle]
    /\ UNCHANGED <<durable, disk, minted, history>>

\* The local-init milestone: a fresh store owes the barrier, an adopted one
\* owes it unless another authority already speaks for it.
\* For comparison: an adopted store is handed out uncommitted.
OnlyFreshOwes(c) == ctx[c].mode = "fresh"
OwesBarrier(c) ==
    \/ ctx[c].mode = "fresh"
    \/ ctx[c].mode = "adopted" /\ record \in {"none", "opfs-candidate"}

Milestone(c) ==
    /\ ctx[c].at = "milestone"
    /\ IF OwesBarrier(c) THEN Run(c, RunCommitmentBarrier, "expose")
                         ELSE Goto(c, "expose")
    /\ UNCHANGED <<durable, disk, owner, minted, history, troubles>>

\* The schema or the reconciliation of the opened store fails.
LocalInitFails(c) ==
    /\ ctx[c].at = "milestone"
    /\ Trouble
    /\ Reject(c)
    /\ UNCHANGED <<durable, disk, owner, minted, history>>

Expose(c) ==
    /\ ctx[c].at = "expose"
    /\ Goto(c, "up")
    /\ exposed' = exposed \cup {ctx[c].handle}
    /\ UNCHANGED <<durable, disk, owner, minted, condemned, destroys, troubles>>

-----------------------------------------------------------------------------
(***************************************************************************)
(* Stopping, destroying, and ending.                                       *)
(***************************************************************************)
Released(c) == IF owner = c THEN NoOne ELSE owner

Stop(c) ==
    /\ ctx[c].at = "up"
    /\ owner' = Released(c)
    /\ ctx' = [ctx EXCEPT ![c] = Idle]
    /\ UNCHANGED <<durable, disk, minted, history, troubles>>

BeginDestruction(c, home) ==
    /\ destroys < MaxDestroys
    /\ destroys' = destroys + 1
    /\ ctx' = [ctx EXCEPT ![c] =
                 [Idle EXCEPT !.at = "effects", !.home = home, !.mode = "destroy",
                              !.todo = RunDestruction(home), !.then = "idle"]]

\* destroy() of an open client: closed first, then the artifacts, when the
\* store has a record or is an IndexedDB store of this client's own.
Destroy(c) ==
    /\ ctx[c].at = "up"
    /\ record # "none" \/ ctx[c].mode = "idb"
    /\ "overlap" \in Windows \/ \A d \in Contexts : ~InFlight(d)
    /\ BeginDestruction(c, ctx[c].home)
    /\ owner' = Released(c)
    /\ UNCHANGED <<durable, disk, minted, exposed, condemned, troubles>>

DestroyStoreArtifacts(c, home) ==
    /\ MayBegin(c)
    /\ BeginDestruction(c, home)
    /\ UNCHANGED <<durable, disk, owner, minted, exposed, condemned, troubles>>

\* A context ends at any moment, and with it its locks and connections.  What
\* was not synced may be lost.
End(c) ==
    /\ ctx[c].at # "idle"
    /\ IF InFlight(c) THEN Trouble ELSE UNCHANGED troubles
    /\ \E lost \in SUBSET {i \in 1..MaxMints : disk[i] = "loose"} :
          disk' = [i \in 1..MaxMints |-> IF i \in lost THEN "blank" ELSE disk[i]]
    /\ owner' = Released(c)
    /\ ctx' = [ctx EXCEPT ![c] = Idle]
    /\ UNCHANGED <<durable, minted, history>>

-----------------------------------------------------------------------------
Next ==
    \E c \in Contexts :
        \/ \E home \in Homes : Boot(c, home) \/ DestroyStoreArtifacts(c, home)
        \/ "granted" \in Homes /\ Provision(c)
        \/ BootAgain(c)
        \/ Effect(c) \/ EffectTimesOut(c) \/ EffectFails(c)
        \/ ResolveStoreBoot(c) \/ ResolveDeniedBootAuthority(c)
        \/ MintIdb(c) \/ GetStoreDirectoryHandle(c)
        \/ AcquireStoreOwnership(c) \/ OpenStore(c) \/ OpenFails(c)
        \/ Milestone(c) \/ LocalInitFails(c) \/ Expose(c)
        \/ Stop(c) \/ Destroy(c) \/ End(c)

Spec == Init /\ [][Next]_vars

-----------------------------------------------------------------------------
(***************************************************************************)
(* Properties.                                                             *)
(***************************************************************************)

\* A store that an application has used keeps its files until a destroy
\* condemns it, and until then no other store is handed out at its path: no
\* boot deletes it as a candidate, and none mints an empty sibling over it,
\* whatever operations failed or were cut off before.
UsedStoreIsKept ==
    LET kept == exposed \ condemned
    IN  kept \subseteq {dir, idb} /\ Cardinality(kept) <= 1

\* A store condemned by a destroy is never handed out again, however early the
\* destroy was interrupted once its phase was recorded, and also when its OPFS
\* side could only be noted as pending.
DestroyedStaysGone ==
    [][\A c \in Contexts :
          ctx'[c].at = "up" /\ ctx[c].at # "up" => ctx'[c].handle \notin condemned]_vars

\* Both signs of commitment, the record and the sentinel, speak only of a
\* directory that is there and whose contents a crash cannot take back.
CommittedIsWhole ==
    record = "opfs-committed" \/ sentinel =>
        dir # NoStore /\ disk[dir] = "synced"

\* A boot with a grant fails only in trouble, or while the store is open
\* elsewhere: in another context, or in the engine that an earlier boot of the
\* same worker left unclosed.  No other state that a crash or a failed operation
\* leaves behind keeps it from coming up.
HeldByEarlierBoot(c) ==
    owner = c /\ (ctx[c].at = "acquire" \/ (ctx[c].at = "effects" /\ ctx[c].then # "expose"))

GrantedBootSucceeds ==
    [][\A c \in Contexts :
          Booting(c) /\ ctx[c].home = "granted" /\ ctx'[c].at \in {"idle", "stuck"} =>
             \/ troubles' # troubles
             \/ \E d \in Contexts \ {c} : ctx[d].at # "idle"
             \/ HeldByEarlierBoot(c)]_vars

\* "the `opfs-candidate` record survives, and the next boot's classifier tears
\* the candidate down and rebuilds" (createSyncClient, of a boot whose barrier
\* throws).  Not so in the same worker: see StoreBootRetry.cfg.
NextBootRebuilds ==
    [][\A c \in Contexts :
          Booting(c) /\ ctx[c].home = "granted" /\ ctx'[c].at \in {"idle", "stuck"} =>
             \/ troubles' # troubles
             \/ \E d \in Contexts \ {c} : ctx[d].at # "idle"]_vars
=============================================================================
