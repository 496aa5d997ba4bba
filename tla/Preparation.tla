----------------------------- MODULE Preparation -----------------------------
(* Preparing copies of one project, toolchains.py: `workspace prepare` copies  *)
(* declared host sources into a copy and, with --save-project, stores them in  *)
(* the content cache and writes a recipe; a managed job replays the recipe     *)
(* into its own copy.  Both first look for a failure already recorded under    *)
(* the same conditions.  gc trims the cache.                                   *)
(*                                                                             *)
(* A host source is named by the content it has.  When it comes back it is     *)
(* another file, of another identity, or the very file it was, which had only  *)
(* been out of reach.  What conditions compare by value can change and change  *)
(* back.  A copy is named by the number of the call it was made by.            *)
EXTENDS ToolchainCache, PreparationGuard

CONSTANTS
    Wants,       \* sets of sources a preparation can declare
    Values,      \* of HEAD and of the settings of the host
    Usual,       \* what they are at first
    MaxCalls,    \* calls of all commands
    MaxEvents    \* sources that vanish, come back or cannot be read, and
                 \* other changes of the host

ASSUME WantsAssumption == Wants \subseteq SUBSET Digests \ {{}}
ASSUME ValuesAssumption == Usual \in Values
ASSUME CallsAssumption == MaxCalls \in Nat /\ MaxEvents \in Nat

VARIABLES
    prep,        \* what each command is doing
    calls,       \* calls made so far
    here,        \* the host sources that exist
    birth,       \* which incarnation of each source is there, or was last
    laid,        \* which incarnation of each entry
    runtime,     \* which incarnation of the files of runtimes and sandbox is there
    values,      \* what is compared by value: HEAD and the kernel's release,
                 \* and settings of the kernel and candidates on PATH
    back,        \* sources that came back as the files they were: history
    recipe,      \* the saved recipe, or None
    saved,       \* recipes written so far: saved_at
    recipeLock,
    status,      \* of each copy
    lacked,      \* an entry of the present recipe has been missing since
    under,       \* the runtime each copy's probe failed under
    drifted,     \* copies whose probe failed under other values than were
                 \* observed: history
    events       \* of the host so far

world == <<here, birth, laid, runtime, values, back, under, drifted, events>>
recipeVars == <<recipe, saved, recipeLock, lacked>>
prepVars == <<prep, calls, world, recipeVars, status, records>>
vars == <<cacheVars, prepVars>>

PrepSteps == {"idle", "observe", "consult", "validate", "reserve", "copy", "save", "saving",
              "finish", "clear", "remember", "fail",
              "read", "look", "safe", "invalidate", "pick", "fetch", "probe"}

IdlePrep == [step |-> "idle", kind |-> "prepare", want |-> {}, todo |-> {},
             copy |-> 0, fp |-> Unknown, met |-> [s \in Digests |-> 0],
             seen |-> None, category |-> "none"]

PrepGoto(p, step) == prep' = [prep EXCEPT ![p].step = step]
Ended(p) == prep' = [prep EXCEPT ![p] = IdlePrep]
SetStatus(p, s) == status' = [status EXCEPT ![prep[p].copy] = s]

Recipes == [at : Nat, entries : SUBSET Digests]

(* The conditions of an attempt: what was found of each source, or 0. *)
Fingerprints == [kind : {"prepare", "job"}, want : SUBSET Digests,
                 recipe : Recipes \cup {None}, runtime : Nat,
                 values : [head : Values, settings : Values \cup {None}],
                 ids : [Digests -> Nat]]

ASSUME RecipeAssumption == None \notin Recipes
ASSUME UnknownAssumption == Unknown \notin Fingerprints

(* The entries a recipe refers to: _recipe_source_paths. *)
Entries(r) == IF r = None THEN {} ELSE r.entries

-----------------------------------------------------------------------------
(* Conditions: declarative_conditions and worker_conditions. *)

(* A preparation looks at the sources, a job at the recipe's entries. *)
Found(kind, s) == IF kind = "job" THEN s \in entry ELSE s \in here
Incarnation(kind, s) == IF kind = "job" THEN laid[s] ELSE birth[s]

(* _identity: a stat identity, so that a source that went and came back is     *)
(* another.  Mistake: the content alone.                                       *)
IdentityByContent(kind, s) == IF Found(kind, s) THEN 1 ELSE 0
Identity(kind, s) == IF Found(kind, s) THEN Incarnation(kind, s) ELSE 0

(* Runtimes, sandbox, PATH and settings of the kernel count for a job only. *)
RuntimeConditions(kind) == IF kind = "job" THEN runtime ELSE 0
ValueConditions(kind) ==
    [values EXCEPT !.settings = IF kind = "job" THEN @ ELSE None]

Begin(p, kind, want) ==
    /\ prep[p].step = "idle" /\ op[p].step = "idle"
    /\ calls < MaxCalls
    /\ calls' = calls + 1
    /\ status' = [status EXCEPT ![calls + 1] = "ready"]
    /\ LET seen == IF kind = "job" THEN recipe ELSE None
       IN prep' = [prep EXCEPT ![p] =
            [IdlePrep EXCEPT !.step = "observe", !.kind = kind, !.want = want,
                             !.copy = calls + 1, !.seen = seen,
                             !.todo = IF kind = "job" THEN Entries(seen) ELSE want,
                             !.fp = [kind |-> kind, want |-> want, recipe |-> seen,
                                     runtime |-> RuntimeConditions(kind),
                                     values |-> ValueConditions(kind),
                                     ids |-> [s \in Digests |-> 0]]]]
    /\ UNCHANGED <<cacheVars, world, recipeVars, records>>

(* Declarations that do not pass _normalize_tools and its like. *)
Malformed(p) ==
    /\ prep[p].step = "observe" /\ prep[p].kind = "prepare"
    /\ prep[p].todo = prep[p].want
    /\ PrepGoto(p, "fail")
    /\ UNCHANGED <<cacheVars, calls, world, recipeVars, status, records>>

(* The sources are looked at one after the other.  met is history: what was    *)
(* really there.                                                               *)
Observe(p, s) ==
    /\ prep[p].step = "observe" /\ s \in prep[p].todo
    /\ prep' = [prep EXCEPT ![p].todo = @ \ {s},
            ![p].met[s] = Incarnation(prep[p].kind, s),
            ![p].fp.ids[s] = Identity(prep[p].kind, s)]
    /\ UNCHANGED <<cacheVars, calls, world, recipeVars, status, records>>

(* A tree that cannot be read or changes meanwhile: the conditions are unknown. *)
Unobservable(p) ==
    /\ prep[p].step = "observe" /\ prep[p].todo # {} /\ events < MaxEvents
    /\ events' = events + 1
    /\ prep' = [prep EXCEPT ![p].todo = {}, ![p].fp = Unknown]
    /\ UNCHANGED <<cacheVars, calls, here, birth, laid, runtime, values, back, under,
                   drifted, recipeVars, status, records>>

(* lookup: a refused copy is left as it was. *)
Blocking(p) == Hits(prep[p].fp)

Blocked(p) ==
    /\ prep[p].step = "observe" /\ prep[p].todo = {}
    /\ Blocking(p) # {}
    /\ Ended(p)
    /\ UNCHANGED <<cacheVars, calls, world, recipeVars, status, records>>

Admit(p) ==
    /\ SetStatus(p, "running")
    /\ prep' = [prep EXCEPT
            ![p].step = IF prep[p].kind = "job" THEN "read" ELSE "validate",
            ![p].todo = prep[p].want]
    /\ UNCHANGED <<cacheVars, calls, world, recipeVars, records>>

Admitted(p) ==
    /\ prep[p].step = "observe" /\ prep[p].todo = {}
    /\ Blocking(p) = {}
    /\ Admit(p)

(* --recheck-environment: the record is not consulted. *)
Recheck(p) ==
    /\ prep[p].step = "observe" /\ prep[p].todo = {}
    /\ Blocking(p) # {}
    /\ Admit(p)

-----------------------------------------------------------------------------
(* Failures and success. *)

Missing(p) == prep' = [prep EXCEPT ![p].step = "remember",
                                   ![p].category = "materialization"]

Remember(p) ==
    /\ prep[p].step = "remember"
    /\ RecordFailure(prep[p].fp, prep[p].category, prep[p].copy)
    /\ PrepGoto(p, "fail")
    /\ UNCHANGED <<cacheVars, calls, world, recipeVars, status>>

FailCopy(p) ==
    /\ prep[p].step = "fail"
    /\ SetStatus(p, "failed")
    /\ Ended(p)
    /\ UNCHANGED <<cacheVars, calls, world, recipeVars, records>>

Succeed(p) ==
    /\ prep[p].step = "finish"
    /\ SetStatus(p, "succeeded")
    /\ PrepGoto(p, "clear")
    /\ UNCHANGED <<cacheVars, calls, world, recipeVars, records>>

ClearFailure(p) ==
    /\ prep[p].step = "clear"
    /\ Clear(prep[p].fp)
    /\ IF prep[p].kind = "job" THEN SetStatus(p, "executing") ELSE UNCHANGED status
    /\ Ended(p)
    /\ UNCHANGED <<cacheVars, calls, world, recipeVars>>

-----------------------------------------------------------------------------
(* prepare: _materialize copies host sources, _save_recipe stores them. *)

(* _validate_host_source, for every source before any is copied. *)
Validate(p, s) ==
    /\ prep[p].step = "validate" /\ s \in prep[p].todo
    /\ IF s \in here
         THEN prep' = [prep EXCEPT ![p].todo = @ \ {s},
                  ![p].step = IF prep[p].todo = {s} THEN "reserve" ELSE @]
         ELSE Missing(p)
    /\ UNCHANGED <<cacheVars, calls, world, recipeVars, status, records>>

(* No usable toolchain or environment: a failure of no recorded kind, as are   *)
(* all the following ones.                                                     *)
Unfit(p) ==
    /\ prep[p].step = "validate"
    /\ PrepGoto(p, "fail")
    /\ UNCHANGED <<cacheVars, calls, world, recipeVars, status, records>>

(* What the copies take is measured and reserved, or refused. *)
Reserve(p) ==
    /\ prep[p].step = "reserve"
    /\ \/ prep[p].want \subseteq here /\ PrepGoto(p, "copy")
       \/ PrepGoto(p, "fail")
    /\ UNCHANGED <<cacheVars, calls, world, recipeVars, status, records>>

(* --save-project is one of the two ways on. *)
CopySources(p) ==
    /\ prep[p].step = "copy"
    /\ prep[p].want \subseteq here
    /\ PrepGoto(p, "save") \/ PrepGoto(p, "finish")
    /\ UNCHANGED <<cacheVars, calls, world, recipeVars, status, records>>

(* A source vanishes or changes while it is copied, a link leaves the tree. *)
CopyFails(p) ==
    /\ prep[p].step = "copy"
    /\ PrepGoto(p, "fail")
    /\ UNCHANGED <<cacheVars, calls, world, recipeVars, status, records>>

SaveRecipe(p) ==
    /\ prep[p].step = "save"
    /\ \E cap \in Caps : Ask(p, "save", prep[p].want, cap)
    /\ PrepGoto(p, "saving")
    /\ UNCHANGED <<calls, world, recipeVars, status, records>>

(* Under the cache lock: the recipe lock, and the entries of the recipe that   *)
(* is read under it are protected.  Mistake: they are not.                     *)
PreviousNone == {}
Previous == Entries(recipe)

LockRecipe(p) ==
    /\ recipeLock = None
    /\ recipeLock' = p
    /\ Protect(p, Previous)
    /\ UNCHANGED <<prep, calls, world, recipe, saved, lacked, status, records>>

PublishedEntry(p, d) ==
    /\ PublishEntry(p, d)
    /\ laid' = [laid EXCEPT ![d] = @ + 1]
    /\ UNCHANGED <<prep, calls, here, birth, runtime, values, back, under, drifted, events,
                   recipeVars, status, records>>

(* The recipe is replaced after every entry of it is published. *)
WriteRecipe(p) ==
    /\ Close(p)
    /\ recipe' = [at |-> saved + 1, entries |-> op[p].want]
    /\ saved' = saved + 1
    /\ lacked' = FALSE
    /\ UNCHANGED <<recipeLock, prep, calls, world, status, records>>

LeaveCache(p) ==
    /\ Leave(p)
    /\ recipeLock' = IF recipeLock = p THEN None ELSE recipeLock
    /\ IF prep[p].step = "saving"
         THEN PrepGoto(p, IF op[p].ok THEN "finish" ELSE "fail")
         ELSE UNCHANGED prep
    /\ UNCHANGED <<calls, world, recipe, saved, lacked, status, records>>

-----------------------------------------------------------------------------
(* apply_saved_recipe *)

ReadRecipe(p) ==
    /\ prep[p].step = "read"
    /\ prep' = [prep EXCEPT ![p].seen = recipe, ![p].todo = Entries(recipe),
                            ![p].step = IF recipe = None THEN "probe" ELSE "look"]
    /\ UNCHANGED <<cacheVars, calls, world, recipeVars, status, records>>

(* _missing_recipe_source looks at the entries without a lock. *)
Look(p) ==
    /\ prep[p].step = "look"
    /\ PrepGoto(p, IF prep[p].todo \subseteq entry THEN "pick" ELSE "safe")
    /\ UNCHANGED <<cacheVars, calls, world, recipeVars, status, records>>

(* _validate_safe_before_invalidation: what is there must be whole. *)
CheckSafe(p) ==
    /\ prep[p].step = "safe"
    /\ MayRead(p)
    /\ PrepGoto(p, IF prep[p].todo \cap entry \subseteq Valid THEN "invalidate" ELSE "fail")
    /\ UNCHANGED <<cacheVars, calls, world, recipeVars, status, records>>

(* _invalidate_recipe: only the very recipe that was read.  Mistake: whatever  *)
(* recipe is there.                                                            *)
StaleAny(p) == recipe # None
Stale(p) == recipe = prep[p].seen

Invalidate(p) ==
    /\ prep[p].step = "invalidate"
    /\ recipeLock = None
    /\ recipe' = IF Stale(p) THEN None ELSE recipe
    /\ lacked' = IF Stale(p) THEN FALSE ELSE lacked
    /\ Missing(p)
    /\ UNCHANGED <<cacheVars, calls, world, saved, recipeLock, status, records>>

(* materialize, entry by entry; one that went meanwhile is missing, and the    *)
(* recipe is preserved.                                                        *)
Fetch(p, d) ==
    /\ prep[p].step = "pick" /\ d \in prep[p].todo
    /\ IF d \in entry
         THEN Ask(p, "read", {d}, 0) /\ PrepGoto(p, "fetch")
         ELSE Missing(p) /\ UNCHANGED cacheVars
    /\ UNCHANGED <<calls, world, recipeVars, status, records>>

(* The cache could not be locked. *)
CacheUnsafe(p) ==
    /\ Unsafe(p)
    /\ IF prep[p].step \in {"saving", "fetch"} THEN PrepGoto(p, "fail") ELSE UNCHANGED prep
    /\ UNCHANGED <<calls, world, recipeVars, status, records>>

FetchLocked(p) ==
    /\ LockShared(p)
    /\ IF op[p].want \subseteq Valid THEN UNCHANGED prep ELSE PrepGoto(p, "fail")
    /\ UNCHANGED <<calls, world, recipeVars, status, records>>

Fetched(p) ==
    /\ EndRead(p)
    /\ prep' = [prep EXCEPT ![p].todo = @ \ op[p].want,
            ![p].step = IF prep[p].todo = op[p].want THEN "probe" ELSE "pick"]
    /\ UNCHANGED <<calls, world, recipeVars, status, records>>

(* Runtime selection and probes: a definite failure is recorded, a timeout or  *)
(* any uncertain one is not.                                                   *)
ProbeSucceeds(p) ==
    /\ prep[p].step = "probe"
    /\ PrepGoto(p, "clear")
    /\ UNCHANGED <<cacheVars, calls, world, recipeVars, status, records>>

ProbeFails(p) ==
    /\ prep[p].step = "probe"
    /\ prep' = [prep EXCEPT ![p].step = "remember", ![p].category = "probe"]
    /\ under' = [under EXCEPT ![prep[p].copy] = runtime]
    /\ drifted' = IF prep[p].fp # Unknown /\ prep[p].fp.values # values
                    THEN drifted \cup {prep[p].copy} ELSE drifted
    /\ UNCHANGED <<cacheVars, calls, here, birth, laid, runtime, values, back, events,
                   recipeVars, status, records>>

ProbeTimesOut(p) ==
    /\ prep[p].step = "probe"
    /\ PrepGoto(p, "fail")
    /\ UNCHANGED <<cacheVars, calls, world, recipeVars, status, records>>

-----------------------------------------------------------------------------
(* gc, the host, crashes. *)

Collect(p) ==
    /\ prep[p].step = "idle" /\ calls < MaxCalls
    /\ calls' = calls + 1
    /\ \E cap \in Caps : Ask(p, "collect", {}, cap)
    /\ UNCHANGED <<prep, world, recipeVars, status, records>>

WorkInCache(p) ==
    /\ Work(p)
    /\ lacked' = (lacked \/ ~(Entries(recipe) \subseteq entry'))
    /\ UNCHANGED <<prep, calls, world, recipe, saved, recipeLock, status, records>>

Vanish(s) ==
    /\ s \in here /\ events < MaxEvents
    /\ events' = events + 1
    /\ here' = here \ {s}
    /\ UNCHANGED <<cacheVars, prep, calls, birth, laid, runtime, values, back, under, drifted,
                   recipeVars, status, records>>

Return(s) ==
    /\ s \notin here /\ events < MaxEvents
    /\ events' = events + 1
    /\ here' = here \cup {s}
    /\ birth' = [birth EXCEPT ![s] = @ + 1]
    /\ UNCHANGED <<cacheVars, prep, calls, laid, runtime, values, back, under, drifted,
                   recipeVars, status, records>>

(* A directory above it was moved away and back, or a link led elsewhere: the  *)
(* stat identity is the one from before.                                       *)
Restore(s) ==
    /\ s \notin here /\ events < MaxEvents
    /\ events' = events + 1
    /\ here' = here \cup {s} /\ back' = back \cup {s}
    /\ UNCHANGED <<cacheVars, prep, calls, birth, laid, runtime, values, under, drifted,
                   recipeVars, status, records>>

ChangeRuntime ==
    /\ events < MaxEvents
    /\ events' = events + 1
    /\ runtime' = runtime + 1
    /\ UNCHANGED <<cacheVars, prep, calls, here, birth, laid, values, back, under, drifted,
                   recipeVars, status, records>>

ChangeValues ==
    /\ events < MaxEvents
    /\ events' = events + 1
    /\ \/ \E v \in Values \ {values.head} : values' = [values EXCEPT !.head = v]
       \/ \E v \in Values \ {values.settings} : values' = [values EXCEPT !.settings = v]
    /\ UNCHANGED <<cacheVars, prep, calls, here, birth, laid, runtime, back, under, drifted,
                   recipeVars, status, records>>

Crash(p) ==
    /\ \/ Die(p)
       \/ /\ op[p].step = "idle" /\ prep[p].step # "idle"
          /\ faults < MaxFaults
          /\ faults' = faults + 1
          /\ UNCHANGED <<disk, lock, op>>
    /\ Ended(p)
    /\ recipeLock' = IF recipeLock = p THEN None ELSE recipeLock
    /\ UNCHANGED <<calls, world, recipe, saved, lacked, status, records>>

-----------------------------------------------------------------------------
(* A project with a saved recipe whose entries are all there or were evicted,  *)
(* or without one.                                                             *)
Init ==
    \E was \in Wants \cup {{}}, evicted \in BOOLEAN :
        /\ entry = (IF evicted THEN {} ELSE was)
        /\ manifest = entry /\ older \in {R \in SUBSET (entry \X entry) : OrderOf(R, entry)}
        /\ staged = {} /\ purged = {} /\ writer = None /\ readers = {}
        /\ op = [p \in Procs |-> Idle] /\ faults = 0
        /\ GuardInit
        /\ prep = [p \in Procs |-> IdlePrep] /\ calls = 0
        /\ here = Digests /\ birth = [s \in Digests |-> 1]
        /\ laid = [s \in Digests |-> 1] /\ events = 0
        /\ runtime = 1 /\ back = {}
        /\ values = [head |-> Usual, settings |-> Usual]
        /\ under = [c \in 1 .. MaxCalls |-> 0] /\ drifted = {}
        /\ recipe = IF was = {} THEN None ELSE [at |-> 1, entries |-> was]
        /\ saved = 1 /\ recipeLock = None
        /\ lacked = (evicted /\ was # {})
        /\ status = [c \in 1 .. MaxCalls |-> "none"]

Step(p) ==
    \/ \E s \in Digests : Observe(p, s) \/ Validate(p, s) \/ Fetch(p, s)
                          \/ PublishedEntry(p, s)
    \/ Malformed(p) \/ CacheUnsafe(p) \/ Unobservable(p) \/ Blocked(p)
    \/ Admitted(p) \/ Recheck(p) \/ Remember(p) \/ FailCopy(p) \/ Succeed(p)
    \/ ClearFailure(p) \/ Unfit(p) \/ Reserve(p) \/ CopyFails(p)
    \/ CopySources(p) \/ SaveRecipe(p) \/ LockRecipe(p)
    \/ WriteRecipe(p) \/ LeaveCache(p) \/ ReadRecipe(p) \/ Look(p) \/ CheckSafe(p)
    \/ Invalidate(p) \/ FetchLocked(p) \/ Fetched(p)
    \/ ProbeSucceeds(p) \/ ProbeFails(p) \/ ProbeTimesOut(p) \/ WorkInCache(p)

Start(p) ==
    \/ \E want \in Wants : Begin(p, "prepare", want)
    \/ Begin(p, "job", {})
    \/ Collect(p)

Next ==
    \/ \E p \in Procs : Start(p) \/ Step(p) \/ Crash(p)
    \/ \E s \in Digests : Vanish(s) \/ Return(s) \/ Restore(s)
    \/ ChangeRuntime \/ ChangeValues

Spec == Init /\ [][Next]_vars

-----------------------------------------------------------------------------
(* Properties. *)

(* Whenever a recipe is saved, every entry it names is whole in the cache,     *)
(* whatever the save had to evict and whoever crashed before.                  *)
RecipeBacked ==
    [][recipe' # recipe /\ recipe' # None => Entries(recipe') \subseteq Valid']_vars

(* A save that has to make room, fails or dies never takes a usable entry from *)
(* the recipe in force, but for one it has just published itself: until the    *)
(* new recipe is written, what the old one replays from stays.                 *)
SaveKeepsRecipe ==
    [][\A p \in Procs :
         writer = p /\ op[p].kind = "save" /\ recipe # None
           => Entries(recipe) \cap Valid \subseteq Valid' \cup op[p].fresh]_vars

(* A recipe is only invalidated if one of its entries has really been missing  *)
(* since it was written: a replay of an older recipe never removes a newer one *)
(* (_invalidate_recipe, toolchains.py:1047).                                   *)
OnlyStaleInvalidated == [][recipe # None /\ recipe' = None => lacked]_vars

(* What the guard refuses would fail again, or is no longer what was looked    *)
(* at: a source is gone or another one, the recipe another, the files or       *)
(* values the probe depends on have changed; otherwise the probe has failed    *)
(* under exactly these.                                                        *)
Fails(c, r) ==
    LET looked == IF c.kind = "job" THEN Entries(c.seen) ELSE c.want
    IN IF r.category = "probe"
         THEN \/ runtime # c.fp.runtime \/ values # c.fp.values
              \/ under[r.by] = c.fp.runtime /\ r.by \notin drifted
         ELSE \/ c.kind = "job" /\ recipe # c.seen
              \/ \E s \in looked : ~Found(c.kind, s) \/ c.met[s] # Incarnation(c.kind, s)

(* What the conditions cannot tell.  They are observed before the failure they *)
(* are recorded with (managed.py:149, :233), and what has changed in between   *)
(* may have changed back since: a value, a file that was out of reach, or a    *)
(* recipe, for a job that observed none, that was saved and lost.              *)
ChangedBack(c, r) ==
    IF r.category = "probe" THEN r.by \in drifted
    ELSE IF c.kind = "job" THEN c.seen = None ELSE c.want \cap back # {}

(* A preparation is refused only if it would fail or its conditions have       *)
(* changed once more.  The failure was seen later than the conditions it is    *)
(* recorded under, so that the identities must tell a file that was replaced,  *)
(* or went and came back anew, from one that never went (_identity,            *)
(* preparation_guard.py:280).  What they cannot tell is exempted.              *)
Refused(p) == prep[p].step = "observe" /\ prep[p].todo = {}

RefusalIsTrue ==
    \A p \in Procs : Refused(p) =>
        \A r \in Blocking(p) : Fails(prep[p], r) \/ ChangedBack(prep[p], r)

(* The same without the exemption does not hold. *)
EveryRefusalIsTrue ==
    \A p \in Procs : Refused(p) => \A r \in Blocking(p) : Fails(prep[p], r)

(* The record of a failure, with the copy it names for inspection, stays until *)
(* an attempt under the very same conditions has succeeded: neither a later    *)
(* failure, nor a full directory, nor a success under other conditions removes *)
(* it (record_failure, preparation_guard.py:1101; clear, :1162).               *)
EvidenceKept ==
    [][\A r \in records \ records' :
         \E p \in Procs : /\ prep[p].step = "clear" /\ prep[p].fp = r.fp
                          /\ status'[prep[p].copy] \in {"succeeded", "executing"}]_vars
=============================================================================
