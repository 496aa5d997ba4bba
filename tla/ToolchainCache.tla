---------------------------- MODULE ToolchainCache ----------------------------
(* The shared content cache of toolchain_cache.py: a directory of entries named *)
(* by the digest of their content and one of manifests, under one lock file    *)
(* that writers hold exclusively and readers share.  A save stages every       *)
(* source, evicts the least recently used entries it does not need until the   *)
(* new ones fit, and renames entry and manifest of each into place.  Whoever   *)
(* takes the lock exclusively first deletes what a predecessor that died left. *)
(*                                                                             *)
(* The content of a tree, its digest and its manifest are one value.  Bytes    *)
(* and inodes are budgeted alike: here there is one size.                      *)
EXTENDS Integers, FiniteSets

CONSTANTS
    Procs,      \* commands that use the cache, one operation at a time
    Digests,    \* contents a source can have
    Size,       \* what an entry with its manifest takes
    Caps,       \* values given as --cache-max-bytes
    MaxFaults,  \* crashes and failed deletions in a behaviour
    None

ASSUME SizeAssumption == IsFiniteSet(Digests) /\ Size \in [Digests -> Nat \ {0}]
ASSUME CapsAssumption == Caps \subseteq Nat /\ MaxFaults \in Nat
ASSUME NoneAssumption == None \notin Procs \cup Digests

VARIABLES
    entry,      \* names in entries/
    manifest,   \* names in manifests/
    older,      \* pairs of contents with a manifest, by last_used
    staged,     \* trees in .staging/
    purged,     \* trees renamed to .purge-UUID and not deleted yet
    writer,     \* who holds cache.lock exclusively
    readers,    \* who shares it
    op,         \* what each command is doing
    faults

disk == <<entry, manifest, older, staged, purged>>
lock == <<writer, readers>>
cacheVars == <<disk, lock, op, faults>>

Kinds == {"save", "snapshot", "collect", "read"}
Steps == {"idle", "wait", "protect", "stage", "room", "purge", "publish",
          "manifest", "touch", "stored", "undo", "unmanifest", "leave",
          "reading"}

Idle == [step |-> "idle", kind |-> "save", want |-> {}, todo |-> {},
         fresh |-> {}, kept |-> {}, cap |-> 0, at |-> None, ok |-> FALSE]

-----------------------------------------------------------------------------
(* What an operation sees of the cache. *)

(* A content takes Size many blocks, and no block belongs to two. *)
Blocks(d) == {d} \X (1 .. Size[d])
Sum(S) == Cardinality(UNION {Blocks(d) : d \in S})

(* _validate_manifest_tree: entry and manifest are both there and agree. *)
Valid == entry \cap manifest

(* What _valid_entries reports invalid: one half without the other. *)
Torn == (entry \ manifest) \cup (manifest \ entry)

(* _usage measures entries, staging and quarantine. *)
Usage == Sum(entry) + Sum(staged) + Sum(purged)

(* What _make_room may evict.  Mistake: the protected digests are forgotten.   *)
RemovableUnprotected(p) == Valid
Removable(p) == Valid \ op[p].kept

(* The staged trees are excluded from the total, and required as new entries.  *)
(* Mistake: they are excluded, and not required.                               *)
NeededUnrequired(p) == Usage - Sum(op[p].fresh)
Needed(p) == (Usage - Sum(op[p].fresh)) + Sum(op[p].fresh)

Fits(p) == Needed(p) <= op[p].cap
CanFit(p) ==
    /\ Sum(op[p].fresh) <= op[p].cap
    /\ Needed(p) - Sum(Removable(p)) <= op[p].cap

Oldest(S) == {d \in S : \A e \in S : <<e, d>> \notin older}

Goto(p, step) == op' = [op EXCEPT ![p].step = step]

(* close() of the batch removes what is still staged. *)
Fail(p) ==
    /\ op' = [op EXCEPT ![p].step = "leave", ![p].ok = FALSE]
    /\ staged' = staged \ op[p].fresh

-----------------------------------------------------------------------------
(* The lock. *)

(* A call with its sources, _validate_source, and its limit, _validate_caps. *)
Ask(p, kind, want, cap) ==
    /\ op[p].step = "idle"
    /\ op' = [op EXCEPT ![p] = [Idle EXCEPT !.step = "wait", !.kind = kind,
                                            !.want = want, !.cap = cap]]
    /\ UNCHANGED <<disk, lock, faults>>

(* A directory of another owner, a symbolic link, a lock file that was         *)
(* replaced: nothing is touched.                                               *)
Unsafe(p) ==
    /\ op[p].step = "wait"
    /\ op' = [op EXCEPT ![p] = Idle]
    /\ UNCHANGED <<disk, lock, faults>>

(* locked(), then _recover_quarantines and _clean_staging. *)
FirstStep(kind) ==
    CASE kind = "save" -> "protect" [] kind = "snapshot" -> "stage"
      [] OTHER -> "room"

(* Mistake: the lock is only shared. *)
MayWriteShared(p) == readers = {}
MayWrite(p) == writer = None /\ readers = {}

LockExclusive(p) ==
    /\ op[p].step = "wait" /\ op[p].kind # "read"
    /\ MayWrite(p)
    /\ writer' = p
    /\ purged' = {} /\ staged' = {}
    /\ op' = [op EXCEPT ![p].step = FirstStep(op[p].kind), ![p].todo = op[p].want]
    /\ UNCHANGED <<entry, manifest, older, readers, faults>>

(* reading(), and the validation made under it before the entry is copied.     *)
(* Mistake: a reader does not wait for the writer.                             *)
MayReadUnlocked(p) == TRUE
MayRead(p) == writer = None

LockShared(p) ==
    /\ op[p].step = "wait" /\ op[p].kind = "read"
    /\ MayRead(p)
    /\ IF op[p].want \subseteq Valid
         THEN readers' = readers \cup {p} /\ Goto(p, "reading")
         ELSE op' = [op EXCEPT ![p] = Idle] /\ UNCHANGED readers
    /\ UNCHANGED <<disk, writer, faults>>

EndRead(p) ==
    /\ op[p].step = "reading"
    /\ readers' = readers \ {p}
    /\ op' = [op EXCEPT ![p] = Idle]
    /\ UNCHANGED <<disk, writer, faults>>

(* Mistake: the descriptor is kept, and the lock with it. *)
ReleaseNothing(p) == UNCHANGED lock
Release(p) == writer' = None /\ UNCHANGED readers

Leave(p) ==
    /\ op[p].step = "leave"
    /\ Release(p)
    /\ op' = [op EXCEPT ![p] = Idle]
    /\ UNCHANGED <<disk, faults>>

-----------------------------------------------------------------------------
(* Staging. *)

(* protect_paths: the usable entries of the recipe that is being replaced. *)
Protect(p, previous) ==
    /\ op[p].step = "protect"
    /\ op' = [op EXCEPT ![p].step = "stage", ![p].kept = previous \cap Valid]
    /\ UNCHANGED <<disk, lock, faults>>

(* _stage_cache_source: a new content is copied, an existing one is kept.      *)
Selected(p, d) == op[p].kept \cup {d}

(* The digest of the staged tree, _stage_manifest, names no entry yet. *)
NewContent(d) == IF d \in Valid THEN {} ELSE {d}

Stage(p, d) ==
    /\ op[p].step = "stage" /\ d \in op[p].todo
    /\ d \notin Torn
    /\ LET new == NewContent(d)
       IN /\ staged' = staged \cup new
          /\ op' = [op EXCEPT ![p].todo = @ \ {d}, ![p].fresh = @ \cup new,
                              ![p].kept = IF op[p].kind = "save"
                                            THEN Selected(p, d) ELSE @]
    /\ UNCHANGED <<entry, manifest, older, purged, lock, faults>>

(* A source that changed or does not fit, no room on the filesystem.           *)
StageFails(p) ==
    /\ op[p].step = "stage" /\ op[p].todo # {}
    /\ Fail(p)
    /\ UNCHANGED <<entry, manifest, older, purged, lock, faults>>

(* "A cache entry is incomplete and cannot be reused safely." *)
Incomplete(p, d) == op[p].step = "stage" /\ d \in op[p].todo \cap Torn

RefuseIncomplete(p) ==
    /\ \E d \in op[p].todo : Incomplete(p, d)
    /\ Fail(p)
    /\ UNCHANGED <<entry, manifest, older, purged, lock, faults>>

(* A single snapshot of an existing content only renews it. *)
StagedAll(p) ==
    /\ op[p].step = "stage" /\ op[p].todo = {}
    /\ Goto(p, IF op[p].kind = "snapshot" /\ op[p].fresh = {} THEN "touch" ELSE "room")
    /\ UNCHANGED <<disk, lock, faults>>

-----------------------------------------------------------------------------
(* Making room. *)

RoomFound(p) ==
    /\ op[p].step = "room" /\ op[p].kind # "collect"
    /\ CanFit(p) /\ Fits(p)
    /\ op' = [op EXCEPT ![p].step = "publish", ![p].todo = op[p].fresh]
    /\ UNCHANGED <<disk, lock, faults>>

RoomRefused(p) ==
    /\ op[p].step = "room" /\ op[p].kind # "collect"
    /\ ~CanFit(p)
    /\ Fail(p)
    /\ UNCHANGED <<entry, manifest, older, purged, lock, faults>>

(* collect(apply): no more to evict, or within the budget. *)
Collected(p) ==
    /\ op[p].step = "room" /\ op[p].kind = "collect"
    /\ Fits(p) \/ Valid = {}
    /\ op' = [op EXCEPT ![p].step = "leave", ![p].ok = TRUE]
    /\ UNCHANGED <<disk, lock, faults>>

(* _remove_entry: the tree goes into quarantine and is deleted, ... *)
Evict(p) ==
    /\ op[p].step = "room" /\ ~Fits(p)
    /\ op[p].kind = "collect" \/ CanFit(p)
    /\ \E d \in Oldest(Removable(p)) :
          /\ entry' = entry \ {d}
          /\ purged' = purged \cup {d}
          /\ op' = [op EXCEPT ![p].step = "purge", ![p].at = d]
    /\ UNCHANGED <<manifest, older, staged, lock, faults>>

(* ... then its manifest. *)
Drop(p, next) ==
    /\ purged' = purged \ {op[p].at}
    /\ manifest' = manifest \ {op[p].at}
    /\ older' = older \cap (manifest' \X manifest')
    /\ op' = [op EXCEPT ![p].step = next, ![p].at = None]

EvictManifest(p) ==
    /\ op[p].step = "purge"
    /\ Drop(p, "room")
    /\ UNCHANGED <<entry, staged, lock, faults>>

(* A deletion is refused: before it began the tree is moved back; afterwards   *)
(* it stays in quarantine and the manifest in its place.                       *)
EvictFails(p) ==
    /\ \/ op[p].step = "room" /\ Removable(p) # {} /\ ~Fits(p)
       \/ op[p].step = "purge"
    /\ faults < MaxFaults
    /\ faults' = faults + 1
    /\ Fail(p)
    /\ UNCHANGED <<entry, manifest, older, purged, lock>>

-----------------------------------------------------------------------------
(* Publication. *)

PublishEntry(p, d) ==
    /\ op[p].step = "publish" /\ d \in op[p].todo
    /\ entry' = entry \cup {d}
    /\ staged' = staged \ {d}
    /\ op' = [op EXCEPT ![p].step = "manifest", ![p].at = d]
    /\ UNCHANGED <<manifest, older, purged, lock, faults>>

PublishManifest(p) ==
    /\ op[p].step = "manifest"
    /\ manifest' = manifest \cup {op[p].at}
    /\ older' = older \cup (manifest \X {op[p].at})
    /\ op' = [op EXCEPT ![p].step = "publish", ![p].at = None,
                        ![p].todo = @ \ {op[p].at}]
    /\ UNCHANGED <<entry, staged, purged, lock, faults>>

(* An error on the way: what was published is removed again.                   *)
(* Mistake: the item whose manifest is missing is not counted as published.    *)
PublishedManifests(p) == (op[p].fresh \ op[p].todo) \cap manifest
PublishedSoFar(p) == op[p].fresh \cap entry

PublishFails(p) ==
    /\ \/ op[p].step = "manifest"
       \/ op[p].step = "publish" /\ op[p].todo # {}
    /\ op' = [op EXCEPT ![p].step = "undo", ![p].todo = PublishedSoFar(p),
                        ![p].at = None]
    /\ UNCHANGED <<disk, lock, faults>>

PublishedAll(p) ==
    /\ op[p].step = "publish" /\ op[p].todo = {}
    /\ Goto(p, "touch")
    /\ UNCHANGED <<disk, lock, faults>>

(* _touch of what was there already, then the last look at the total. *)
Touched(p) == manifest \cap (op[p].want \ op[p].fresh)
Rest(p) == manifest \ Touched(p)
Renewed(p) == (older \ (Touched(p) \X Rest(p))) \cup (Rest(p) \X Touched(p))

Touch(p) ==
    /\ op[p].step = "touch"
    /\ older' = Renewed(p)
    /\ op' = IF op[p].kind = "save" /\ Usage > op[p].cap
               THEN [op EXCEPT ![p].step = "undo", ![p].todo = PublishedSoFar(p)]
               ELSE [op EXCEPT ![p].step = "stored", ![p].ok = TRUE]
    /\ UNCHANGED <<entry, manifest, staged, purged, lock, faults>>

(* _rollback_published *)
Undo(p, d) ==
    /\ op[p].step = "undo" /\ d \in op[p].todo
    /\ entry' = entry \ {d}
    /\ purged' = purged \cup {d}
    /\ op' = [op EXCEPT ![p].step = "unmanifest", ![p].at = d,
                        ![p].todo = @ \ {d}]
    /\ UNCHANGED <<manifest, older, staged, lock, faults>>

UndoManifest(p) ==
    /\ op[p].step = "unmanifest"
    /\ Drop(p, "undo")
    /\ UNCHANGED <<entry, staged, lock, faults>>

(* A refused deletion is passed over: the tree is back, or in quarantine with  *)
(* its manifest in place.  fresh is then what the batch answers for.           *)
UndoFails(p, d) ==
    /\ \/ op[p].step = "undo" /\ d \in op[p].todo
       \/ op[p].step = "unmanifest" /\ d = op[p].at
    /\ faults < MaxFaults
    /\ faults' = faults + 1
    /\ op' = [op EXCEPT ![p].step = "undo", ![p].todo = @ \ {d}, ![p].at = None,
                        ![p].fresh = @ \ {d}]
    /\ UNCHANGED <<disk, lock>>

UndoneAll(p) ==
    /\ op[p].step = "undo" /\ op[p].todo = {}
    /\ Fail(p)
    /\ UNCHANGED <<entry, manifest, older, purged, lock, faults>>

(* What the caller does with the batch, the recipe, comes before the release. *)
Close(p) ==
    /\ op[p].step = "stored"
    /\ Goto(p, "leave")
    /\ UNCHANGED <<disk, lock, faults>>

(* A command dies: the kernel drops its lock, the disk stays. *)
Die(p) ==
    /\ op[p].step # "idle"
    /\ faults < MaxFaults
    /\ faults' = faults + 1
    /\ op' = [op EXCEPT ![p] = Idle]
    /\ writer' = IF writer = p THEN None ELSE writer
    /\ readers' = readers \ {p}
    /\ UNCHANGED disk

-----------------------------------------------------------------------------
CacheInit ==
    /\ entry = {} /\ manifest = {} /\ older = {}
    /\ staged = {} /\ purged = {}
    /\ writer = None /\ readers = {}
    /\ op = [p \in Procs |-> Idle]
    /\ faults = 0

(* The steps of an operation under the lock, but for the first and the last.   *)
Work(p) ==
    \/ LockExclusive(p)
    \/ \E d \in Digests : Stage(p, d) \/ Undo(p, d) \/ UndoFails(p, d)
    \/ StageFails(p) \/ RefuseIncomplete(p) \/ StagedAll(p)
    \/ RoomFound(p) \/ RoomRefused(p) \/ Collected(p)
    \/ Evict(p) \/ EvictManifest(p) \/ EvictFails(p)
    \/ PublishManifest(p) \/ PublishFails(p) \/ PublishedAll(p)
    \/ Touch(p) \/ UndoManifest(p) \/ UndoneAll(p)

Proceed(p) ==
    \/ Work(p) \/ LockShared(p) \/ EndRead(p) \/ Close(p) \/ Leave(p)
    \/ \E d \in Digests : PublishEntry(p, d)
    \/ \E previous \in SUBSET Digests : Protect(p, previous)

(* Callers: what they want and which cap they give is theirs. *)
Call(p) ==
    \/ \E cap \in Caps :
        \/ \E want \in SUBSET Digests \ {{}} : Ask(p, "save", want, cap)
        \/ \E d \in Digests : Ask(p, "snapshot", {d}, cap)
        \/ Ask(p, "collect", {}, cap)
    \/ \E d \in Digests : Ask(p, "read", {d}, 0)

CacheNext == \E p \in Procs : Call(p) \/ Unsafe(p) \/ Proceed(p) \/ Die(p)

CacheSpec == CacheInit /\ [][CacheNext]_cacheVars

(* Every command goes on; a flock asked for again and again is granted.        *)
CacheFairness ==
    \A p \in Procs :
        /\ WF_cacheVars(Proceed(p))
        /\ SF_cacheVars(LockExclusive(p))
        /\ SF_cacheVars(LockShared(p))

FairCacheSpec == CacheSpec /\ CacheFairness

-----------------------------------------------------------------------------
(* Properties. *)

(* A strict total order of S. *)
OrderOf(R, S) ==
    /\ R \subseteq S \X S
    /\ \A d, e \in S : d # e => (<<d, e>> \in R <=> <<e, d>> \notin R)
    /\ \A d \in S : <<d, d>> \notin R
    /\ \A d, e, f \in S : <<d, e>> \in R /\ <<e, f>> \in R => <<d, f>> \in R

CacheTypeOK ==
    /\ entry \subseteq Digests /\ manifest \subseteq Digests
    /\ staged \subseteq Digests /\ purged \subseteq Digests
    /\ OrderOf(older, manifest)
    /\ writer \in Procs \cup {None} /\ readers \subseteq Procs
    /\ faults \in 0 .. MaxFaults
    /\ op \in [Procs -> [step : Steps, kind : Kinds, want : SUBSET Digests,
                         todo : SUBSET Digests, fresh : SUBSET Digests,
                         kept : SUBSET Digests, cap : Nat,
                         at : Digests \cup {None}, ok : BOOLEAN]]

(* The entry a materialization copies was validated once, under the shared     *)
(* lock; it stays whole until the copy ends, whatever is collected or saved    *)
(* meanwhile (materialize, toolchain_cache.py:1723).                           *)
ReadersSeeWhole ==
    \A p \in Procs : op[p].step = "reading" => op[p].want \subseteq Valid

(* A batch is published whole or not at all: at its end all it wanted is valid *)
(* and, after an error, no new entry of it is left but what could not be       *)
(* deleted.                                                                    *)
AllOrNothing ==
    \A p \in Procs :
        /\ op[p].step \in {"stored", "leave"} /\ op[p].ok => op[p].want \subseteq Valid
        /\ op[p].step = "leave" /\ ~op[p].ok
             => op[p].fresh \cap (entry \cup manifest) = {}

(* The arithmetic of _make_room is right: the last look at the total finds     *)
(* nothing to reject, even if staging or quarantine held debris of a crash.    *)
RoomIsEnough ==
    \A p \in Procs : op[p].step = "touch" /\ op[p].kind = "save" => Usage <= op[p].cap

(* A save is never refused for a content whose payload is missing: `workspace  *)
(* prepare ... --save-project` refreshes it, as the error of a replay says     *)
(* (toolchains.py:1500).                                                       *)
MissingRefreshed == \A p \in Procs, d \in Digests : Incomplete(p, d) => d \in entry

(* Every command that asked for the cache comes to its end, whoever crashed    *)
(* and whatever failed before, given a flock that does not starve it.          *)
EveryCallEnds == \A p \in Procs : op[p].step # "idle" ~> op[p].step = "idle"
=============================================================================
