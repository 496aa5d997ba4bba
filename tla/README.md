# Specifications of deepseek-team

deepseek-team lets a Codex or Claude Code session (the *coordinator*) hand pieces
of work to DeepSeek *workers*.  A worker runs in a sandbox on a private copy of
the repository; what it did is reviewed, reworked, accepted or rejected, and the
copy is deleted.  There is no server.  Every command is a process of its own, and
all of them meet in a few directories (`~/.local/state/codex-deepseek` and the
project's ledger) through small JSON files, atomic renames and `flock`s.  A
process can be killed between any two system calls; the kernel then drops its
locks and everything it wrote stays.  The correctness of the program is therefore
mostly a matter of the order in which processes lock, read, write and delete, and
this is what these TLA+ modules are about.

All paths below are relative to `src/src/codex_deepseek_team/` unless they say
otherwise.  `PROJECT.json` names, for every definition, the lines it models.

## 1. Inventory

### Components

| component | state | operations | who it meets |
|---|---|---|---|
| Worker slots (`worker_slots`, `worker_admission`, `slot_notifications`) | `worker-<n>.lock`, `allocator.lock`, ticket files with sequence numbers, an inotify watch per waiter | `acquire` (check, enqueue, probe, allocate, park, wake, clean up), `idle_state`, release by closing the descriptor | run of a job, collector's probe, state-root selection |
| Storage budget (`storage_budget`, `execution_allocation`) | `budget.lock`, one flocked record per reservation, free space of filesystems | admission (lock, sample, count, decide, record), release, cleanup of dead records | copies, toolchains and cache entries that are about to be written; collector |
| Logical job (`workspace_lifecycle`, `workspace`) | `lifecycle.lock` (the fence), per copy: `owner.lock`, `lease.json` (phase, owner, attempts, pending reservation, cleanup), `record.json`, `changes.patch`, the tree | create, lock, renew, prepare_attempt, begin, finish, failed, rework, heartbeat, prepare, import | managed run, review, collector |
| Finalization and collection (`workspace_gc`) | quarantine directory, cleanup intent in the lease, `result.json` | finalize, cancel, recover, collect | lease, ledger (pending reviews), slots (admission probe) |
| Coordination ledger (`coordination`) | one JSON file per task: plan, assignments (status, attempt, disposition, intent, verdict), deliverables, feedback outboxes, turns, events; one lock per project | open/begin/complete task, plan, assignment preparing / started / finished / preparation failed, use_result, finalize, abandon, corrections, native dispatch, feedback replay | everything |
| Managed run (`managed`, `worker`) | none of its own | one run: lock copy, start assignment, begin attempt, run worker, checks, finish, report | all of the above |
| Check reuse and evidence (`check_reuse`, `check_evidence`, `prepared_inputs`, `verification`) | positive results in `record.json`, evidence files | run_checks with identity before and after, publish, invalidate | managed run |
| Preparation guard (`preparation_guard`) | one record per fingerprint of failed conditions, a lock | record_failure, lookup, clear | run, CLI |
| Toolchain cache (`toolchain_cache`, `toolchains`) | entries, manifests, staging, quarantine, a shared/exclusive lock; recipes per project | snapshot, prepare, reading, eviction, recovery | copies, storage budget |
| Routing (`routing*`) | SQLite: decisions, bindings, observations, cooldowns, experiment ledger | predict, bind, observe, reserve/settle/release | plans, feedback outboxes |
| Lessons (`lessons`) | SQLite journal, versioned rules, mirrored Markdown | record_outcome, apply_review | feedback outbox |
| Coordinator hooks (`coordinator_hooks`, `coordinator_activity`, `native_delegation`, ...) | through the ledger | gates on tool use, begin turn, stop | ledger |
| Settings, activation, project guidance | JSON/TOML files replaced under a lock | get, set, refresh | everybody reads |
| Sandbox, relay, runtime | processes, sockets, namespaces | start, serve, stop | run |
| State root selection (`storage_selection`, `state_storage`) | `selection.json` | prove idle, publish | slots |

Locks are taken in the order `owner.lock`, fence, ledger; slot and budget locks
are never held together with each other.  `owner.lock`, the slot, ticket and
allocator locks and the locks of single reservations are tried, and their holder makes
the operation fail (75), wait for a hint or pass on.  All others are waited for: the fence
`lifecycle.lock` (`workspace_lifecycle.py:67`), the ledger lock (`coordination.py:147`),
`budget.lock` (`storage_budget.py:574`), `cache.lock` (`toolchain_cache.py:350`), the lock
of a recipe (`toolchains.py:882`), of the preparation guard (`preparation_guard.py:993`),
of the router (`routing_store.py:104`), of the lessons, of the settings and of the state
root's selection.  Where what is done under such a lock is more than one step, the model
has the lock and its wait (fence, `budget.lock`, `cache.lock`, recipe lock); where it is
one step, the lock is that step.

### What is hard

- *Looks without locks.*  Admission probes, the collector and `finalize_assignment`
  read first and lock later; what they saw may be stale.
- *Two files, two writes.*  Lease and ledger, record and patch, reservation and free
  space are written one after the other; a crash leaves the first without the second.
- *Recovery by others.*  The job of a dead coordinator may be taken over, while
  processes it started still run.
- *Deletion.*  A tree is renamed, restored, deleted in parts, and deleted again after
  a crash; the result must survive all of it.
- *Waiting.*  Waiters rely on inotify hints, on timers and on locks others only try.

### What makes each component correct

- Slots: never more admitted than the limit; first come, first served, a dead
  waiter excepted; no hint missed; every waiter leaves; nobody works in a state
  root that has been replaced.
- Budget: what is promised and not yet written fits; no live record is deleted;
  every call returns.
- Job: who works on the copy owns copy and lease; ledger and lease know the same
  attempts; final is final; a verdict says what was decided and is published after
  the fact; no tree goes before its result is saved; what waits for review or retry
  is not collected.
- Outboxes, routing and lessons: every queued outcome is in its store exactly once,
  whoever dies in between; nothing blocks an outbox; what runs was decided, and
  nothing starts while a family is paused.
- Checks: a success is returned only if it was observed on exactly these inputs and
  nothing has refuted it since; an attempt succeeds by checks of its own result;
  every verification reaches the attempt it was made of.
- Guard: a refusal names a failure that would happen again, and the evidence stays
  until a success.
- Cache: what can be read is whole; what is in use or needed is not evicted; a batch
  is stored as a whole or not at all; a saved recipe can be replayed.
- Ledger beyond one row (planned): no lost update; a task completes only with every
  outcome recorded; a chain of corrections is finished as a whole.

The list of hazards, each at its line, is in `PROJECT.json`.

## 2. Plan

Written, in this order:

1. **WorkerSlots** with the abstract **AdmissionQueue** it refines.
2. **StorageBudget**.
3. **JobLifecycle**: lease, copy, collector and one ledger row, composed.
4. **ToolchainCache**: staging, room, eviction, publication, recovery, readers.
5. **PreparationGuard**, and **Preparation**, which composes it with the cache, the
   recipe and the copies that are prepared.
6. **CheckReuse**, and **Verification**, which composes it with the managed run and
   `workspace verify`.
7. **RoutingStore**, and **TaskRouting**, which composes the database with plans,
   starts, reviews and the two outboxes of a ledger.
8. **TaskLedger**: turns, plans, results, native dispatches, edits and completion of a
   session's tasks, with the hooks that read ledgers without their lock.

Left:

9. **CorrectionChain**: jobs that span assignments of several tasks;
   `_finalization_authority` over the chain, publication task by task,
   reconciliation; an abstract *Verdict* (undecided, finalized or cancelled, once)
   refined by it and, restricted to one row, by JobLifecycle.
10. **ExperimentBudget**: reserve, settle, release, overrun.
11. Lessons rules and their reviews, on top of the journal of TaskRouting.

## 3. Modules

### WorkerSlots, AdmissionQueue, WorkerSlotsProofs, MCWorkerSlots

A process in WorkerSlots is one caller of `acquire`.  `pc` is where it stands;
`allocator`, `slotLock` and `ticketLock` are the flocks, `files` the ticket files.
The number in the name of a ticket only orders it, so `older` holds, for each
ticket, the files with a smaller number; slots are `0 .. MaxSlots - 1`.
`Arrive`, `Check`, `CreateTicket`, `LockTicket`, `BeginAttempt`, `ProbeSlot`,
`TurnedAway`, `Grant`, `Park`, the wake-ups and `Cleanup` are the statements of
`acquire`, `_enqueue`, `_attempt`, `_probe_slots` and `_allocate_slot` between two
points where another process matters.  `Confirm` and `GiveBack` are
`worker_admission.acquire`, which validates again after the wait.  An error of
`on_wait` is the disjunct of `Park` that finds the assignment gone.  `Crash` drops
locks and leaves files.  The collector takes slot and ticket locks for a moment
without the allocator lock; the chooser (`prepare_storage`) takes the allocator
lock, finds the root idle and publishes another.

`_reclaim_stale_tickets` runs under the allocator lock and is one step with what
follows it: only the collector can hold one of the tried locks meanwhile, and a
ticket it holds is kept, which is the outcome of an earlier or later try.
Slots are probed one by one.  Closing busy files by the collector gives hints
beyond those modelled; a file that vanishes during a collection makes `collect`
fail, which changes no state of this module.

AdmissionQueue is the promise without files: a line, a set of callers inside, a
pool that can be closed.  `Queue` is the refinement mapping: callers with a live
ticket stand in line in ticket order.

### StorageBudget, StorageBudgetProofs, MCStorageBudget

A process is one `_ReservationContext`.  A demand is the set of blocks its owner is
going to write; demands are disjoint, so that sums are cardinalities.  Bytes and
inodes, which the code treats alike, are one quantity.  `Request`, `EnterLock`,
`Sample`, `Visit*`, `Admit`, `Refuse`, `CreateRecord`, `LockRecord`, `WriteRecord`
and `Keep` are the steps of `__enter__`; records are tried one by one;
`Materialize` is the owner writing its blocks; `Close` and `CloseAfterReplacement`
are `Reservation.close`.  `ReplaceLock` replaces the file `budget.lock`, after which
two processes may each hold a lock of that name.  The listing of the records is one
step with the sample.  One process of the program that reserves on several devices
is several contexts.  Writers without a reservation are not modelled: the code calls
reservations admission budgets, not quotas.

`SteadySpec` is the specification without one kind of step: while an admission
counts under the present lock, nobody drops a record.  `NoOvercommit` holds for it
and not without it (see the findings).

### JobLifecycle, JobLifecycleProofs, MCJobLifecycle

One job, from the association of a fresh copy with its assignment to the published
verdict.  It composes four components of the program, because the questions
worth asking are about their agreement:

| variables | code |
|---|---|
| `phase`, `holder`, `attempts`, `pending`, `reason`, `cleanup` | `lease.json`: phase, owner, number of attempts, reserved attempt, final_reason, cleanup state |
| `status` | `record.json`; a preparation that succeeded is `prepared`, a copy nothing ran in `ready` |
| `rowStatus`, `disposition`, `attempt`, `request`, `verdict` | the assignment's row; `attempt` is a position among the lease's attempts, `request` the finalization intent, `verdict` what was published |
| `place`, `whole`, `patch`, `manifest` | the execution tree (work, quarantine, gone; complete or not) and what `changes.patch` and `result.json` hold of it |
| `owner`, `fence` | the two flocks |
| `alive` | coordinators whose process still exists |
| `pc`, `plan` | per process: its place in its operation, and the operation's arguments |

`Execution` is `managed.run` and `workspace.prepare`: `Start` locks the copy and
renews the lease, `Reserve` and `RecordStart` are the two writes of
`assignment_started`, `BeginAttempt` and `RecordRunning` those of `Workspace.begin`,
`Conclude`, `WritePatch` and `EndAttempt` those of `finish` and `failed`, `RecordEnd`
is `assignment_finished`; `PreparationFails`, `FailLease`, `RecordUnprepared` and
`LoseTrack` are the error exits.  `Reviewing` is `use_result` and
`abandon_assignment`.  `Finishing` is `finalize_assignment`, `workspace finalize`,
`workspace cancel` and the collector, all of which go through
`workspace_gc._finalize` (`TakeLocks` to `RecordCleaned`), and `Publish`.  Every
write to disk is a step.  `Stop` ends any operation at any point: a kill, an error
or a refusal by the next guard, which for the disk are the same.  `Die` ends a
coordinator; its processes go on.

Abstractions: a refusal that changes nothing is no step.  What became of each
attempt in the lease is not kept, only their number (an attempt whose process was
killed stays `running` in the lease, and nothing reads it).  An owner that cannot be
observed counts as alive.  Ledger writes are atomic under the ledger lock, which
nobody holds from one step to the next.  The first, unlocked look of `run` and
`collect` only refuses earlier what the second refuses, so it is one with the step
that locks; the exceptions, where something is remembered across the gap, are steps
(`FinalizeRequest`).  The directories beside the tree move with it.  The
disposition `reproduced` is treated like `incorporated` by all of this code and is
one with it.  A chain has one assignment; a second publication of a published row
writes what is there.  Heartbeats renew what `Renewed` renews.

### ToolchainCache, ToolchainCacheProofs, MCToolchainCache

The content cache of `toolchain_cache.py`.  A content, its digest and its manifest
are one value, and bytes and inodes one size.  `entry` and `manifest` are the two
directories (an entry counts only with its manifest, `Valid`), `older` is the order
of `last_used` (a relation on contents with a manifest), `staged` and `purged` are `.staging` and the quarantine,
`writer` and `readers` hold `cache.lock`; `op` is what each command is doing.
`Ask` is a call of `snapshot`, of a batch of `save`, of `collect` or of
`reading`; `LockExclusive` is `locked` with the recovery that follows it;
`Protect`, `Stage`, `RoomFound` to `EvictFails`, `PublishEntry` to `PublishFails`,
`Touch`, `Undo` and `Leave` are the batch from `protect_paths` to `close`.  A tree
is renamed and deleted before its manifest goes and renamed into place before its
manifest is written, and each is a step at which the process can die (`Die`).  A
refused deletion is `EvictFails`, and during rollback `UndoFails`, which passes over
it; in the recovery at the beginning every deletion succeeds, where the code leaves what
it cannot delete in staging or quarantine (`toolchain_cache.py:1148-1153`); sources that change, do not fit or are unsafe are `StageFails`.

### PreparationGuard, Preparation, PreparationProofs, MCPreparation

`records` are the failures `preparation_guard.py` remembers, by the fingerprint of the
conditions.  Each access holds the directory's lock from beginning to end, so
`RecordFailure`, `Hits` (lookup) and `Clear` are operators, not actions.

Preparation is what a command does around them.  It EXTENDS ToolchainCache and
uses its actions, each conjoined with what the caller does in the same step, and
adds recipes, copies and a host.  A call
(`Begin`) observes its conditions source by source (`Observe`), consults the guard
(`Blocked`, `Admitted`, `Recheck`), and then either prepares from the host
(`Validate` to `SaveRecipe`, `WriteRecipe`) or replays the saved recipe (`ReadRecipe`,
`Look`, `CheckSafe`, `Invalidate`, `Fetch`, the probes), and ends by `Remember` or
`ClearFailure`.  A source is named by its content; `birth` counts the incarnations of
the host's sources and `laid` those of cache entries, which is what a stat identity
tells apart (`Identity`).  What the host does is an action each: a source vanishes
(`Vanish`), is made again (`Return`, another incarnation) or comes back as the file it was,
because only the way to it was blocked (`Restore`); files of the runtimes and of the sandbox
are replaced (`ChangeRuntime`); and HEAD, or what else is compared by value
(`preparation_guard.py:899`, `:938`, `:645-659`: settings of the kernel, its release, which
candidates exist on PATH), changes to another value or *back* (`ChangeValues`).  HEAD counts
for both kinds of attempt, settings for a job only (`ValueConditions`).  A recipe is named by the write that saved it (`saved_at`), so that two
recipes are never one.  `met`, `under`, `lacked`, `back` and `drifted` are
history.  A look without the lock (`Look`) and the step that relies on it are two
steps; so are reading a recipe and invalidating it.

### CheckReuse, Verification, VerificationProofs, MCVerification

CheckReuse is one call of `check_reuse.run_checks`: `Identify`, `Lookup`, `Confirm`
(identity again), `Hit` (evidence again), or `Execute` command by command and `Settle`,
which publishes or revokes.  How many checks a call runs is the constant `Checks`;
the retained successes are a set, from which `Oldest` leaves first.  `trees` holds the
trees that were there, moment by moment.  An edit gives a tree with an identity of its own
(`Edit`), because `_snapshot_tree` hashes the change times of files and directories; but of the
root it hashes only the mode (`check_reuse.py:175-176`, unlike `:216-219`), so that a file
put directly into the root can be removed again, which makes the tree, identity included,
the one it was added to (`RemoveFromRoot`).  Whatever is under `.git` is no part of a tree.
Tools are identified by content, so they can be replaced *and put back*.  `Expire` is the
shared deadline, which can pass anywhere.  `refuted` is history: the identities whose last
observation failed, from the moment a check has failed (`Ran`), not from the moment something is
done about it; `lost` are those of them whose revocation was cut off, by a record that
could not be saved (`SettleUnsaved`, `EvidenceFails`) or by the death of the process
(`Crash` of Verification).  Somebody edits tree, tools or evidence at any time
(`Disturb`).

Verification is who calls it: a managed run (`StartJob`, the baseline,
`BaselineDone`, `Work`, `FinishJob`) and `workspace verify` (`StartVerify`, `Associate`,
`AppendRun`, which is also the end of a verification whose probe fails,
`RecordVerification`, `DropPending`).  Both hold the copy's lock, so that
one of them exists at a time and `task` is it.  `row`, `ended` and `ledger` are the
ledger's row, the finished attempts in its history and `verification_runs` per
attempt; `own` and `pending` are the copy's record.  A verification is written
first to the copy and then to the ledger, and `Crash` may come in between; the next
call replays it, however many attempts have followed.

### RoutingStore, TaskRouting, TaskRoutingProofs, MCTaskRouting

RoutingStore is the SQLite database of a project as operators on its state: `Predict`
(`predict`, which returns a bound decision again), `MayStart` (`validate_start`),
`Observe` (`observe`, `record_outcome`, `_start_cooldown`).  Every operation is one
transaction.  `veto` in `Predict` is all that may speak against a worker besides the
pause: eligibility, settings, economics, learned quality.

TaskRouting is the ledger side of `coordination.py`.  A `row` is a deliverable with
its assignment; `events` and `notes` are its two outboxes, `routing_feedback` and
`lessons_feedback`; `replay` is a `sync_*_feedback` that holds `ledger.lock`.  `Plan`
is `plan_task`: it writes the ledger *inside* the database transaction, commits, and
marks the plan, and its argument `reached` says where it was cut off.  `Start` is
`assignment_started` (with the same gap for a manual start, which asks for a decision
of its own), `StartAgain` its repetition, `Succeed` and `Fail` are
`assignment_finished` and the abandonment of a start that was cut off, `Use` is
`use_result`, `Result` is `observe_coordinator_result`, `Queued` is `_queue_feedback`.  A replay
observes entry by entry, each in a transaction of its own, and writes the marks once
at the end; it can be refused by the store (`ReplayRefused`) or die (`ReplayDies`).

Abstractions: the grades of an assessment are the four that the rules tell apart.
The time of a decision is not kept, and the clock is never set back; a clock that
is set back makes the store refuse outcomes until it has caught up.  The decision of work given to a
worker by hand is read by nobody and not kept.  The capacity of the store
(`MAX_OBSERVATIONS`) is not modelled.  When a job is final and takes no more starts or
reviews is in JobLifecycle.

### TaskLedger, TaskLedgerProofs, MCTaskLedger

The ledgers of one session's tasks and the hooks that a runtime calls for its prompts,
tool calls and stops (`coordinator_hooks.handle`).  `task[t]` is the ledger of turn
`t`: its status, the deliverables with their results (`result`, and `stale` for
`result_invalidated_at`), native dispatches and assignments (`row`, `job`,
`disposition`, `final`), and its events, of which inspections are kept with their
`tool_use_id`.  `hook[h]` is what a hook process has read and is about to do, `prompt`
the one of UserPromptSubmit.  `nudged`, `bound` and `edited` are history: what was let
through.

A hook takes the lock for single updates only, so it is a sequence of steps.
`BeginInspect`, `BeginDispatch` and `BeginEdit` read the current task (`active_task` or
`latest_task`) and decide what the call is; `Inspect` (`_source_inspection_gate`) and
`Dispatch` (`authorize_native_dispatch`) look again under the lock.  An edit goes on
with `Validate` (`validate_task`), `Scan` (the worker that may own the path, and the
tasks it touches) and one `Record` (`record_coordinator_event`) for each of them; with
the last it is approved.  Stop takes the unfinished tasks one by one, closes a draft
(`StopCloses`), or judges what it read (`StopJudges`) and completes it
(`StopCompletes`), which asks everything again.  `PromptReads`, `PromptOpens` and
`PromptWrites` are `begin_turn`.  Commands are `Plan` (`plan_task`), `Result`
(`observe_coordinator_result`), `Use`, `Finalize` and `Complete`; the worker's side is
`Prepare`, `PreparationFails`, `Start` and `Finish`.

`PromptAlone` says that the runtime starts no tool call, command or Stop of the
session between a prompt and the end of its hook; workers that run already go on.
Nothing in the repository enforces it; where it does not hold, section 4 shows
what happens.  Claude's native agents never run these hooks (`agent_id`).

Abstractions: the profile is manual (delegation 25, full access), every deliverable is
of a kind that writes and none is a correction; which commands are mutations or
inspections, and which scopes contain a path, is given.  `accepted` stands for accepted
or cancelled, `rework` for every other outcome.  A finalization is one step here, and
so is a start with its lease; JobLifecycle has them in full.  A job is prepared only by
a launch that was admitted while its row was planned, which is no guard here because
any number of launches may have been.

## 4. Runs

| run | instance | states | what it shows |
|---|---|---|---|
| `slots_callers` | 3 callers, 2 slots, limits 2 and 1, 2 tickets, watch works for one, deadline for one | 262 k | `AdmissionWithinLimit`, `FirstComeFirstServed`, `NoHintMissed`, and the refinement `ImplementsQueue`, with crashes and invalidations anywhere |
| `slots_visitors` | 2 callers, 1 slot, collector and chooser | 59 k | the inductive invariant, `NoStrandedWorker`, and `EveryWaiterLeaves` under `FairSpec` |
| `budget_steady` | 3 contexts on 2 filesystems, demands 1, 2 and 1, 2 lock inodes | 484 k | the inductive invariant and `NoOvercommit` of `SteadySpec` |
| `budget_liveness` | 2 contexts, 2 lock inodes | 44 k | `LiveRecordKept` without the steadiness, `EveryCallReturns` |
| `job_safety` | 2 processes of 2 coordinators, 2 attempts (`MCBound`) | 1.8 M | the six properties of a job's life |
| `job_result` | the same | - | **violated**: `ResultKept` |
| `cache_liveness` | 2 commands, contents of size 1 and 2, caps 2 and 3, one fault | 81 k | readers see whole entries, a batch is stored whole and nothing it needs is evicted for it, the room made is enough, and every call ends |
| `preparation_safety` | 2 commands, 2 calls, sources of size 1 and 2, caps 1 and 2, 1 record, 2 values, 2 faults or events of which at most one fault (`MCBound`) | 2.5 M | refusals are true but for what has changed back, recipes are backed, only a stale recipe is invalidated, evidence stays |
| `verification_safety` | 3 calls of the checks, 2 attempts, 2 verifications, 1 retained success, one event, one fault (`MCBound`) | 7.5 M | a reused success is true and not refuted but for what no identity shows and no record kept, success is of the result, no verification is lost or doubled |
| `routing_safety` | an automatic and a manual assignment of a family, 2 definitions, 3 outcomes and 2 reviews, cuts and deaths anywhere | 809 k | each outcome counts once, only lost plans block an outbox, what runs was decided, no start while a rejection is recent |
| `routing_rejection` | one automatic assignment, 2 attempts | - | **violated**: `RejectionPauses` |
| `ledger_safety` | 2 turns, 2 hooks, 2 calls, 2 paths and an unknown one, 4 plans over 2 deliverables, one of a worker | 701 k | completed tasks rest on current results, only untouched drafts are closed, one free inspection, one deliverable for a call |

Bounds.  Slots: in `slots_callers`, with two slots and limits one and two a caller can be turned away by
its limit, by the line and by nothing; three callers are needed for somebody to pass
somebody who waits.  Two ticket inodes suffice, as an inode is free again
when its file is gone and unlocked.  Budget: two contexts on one filesystem, one more
sharing only the pool, give every interleaving of two admissions with a release; a
lock file replaced once gives two holders.  Job: a conflict over the job is between
two processes, and the hardest are those of different coordinators, of which one may
have gone; two attempts allow one retry after anything.  `MCBound` (a state
constraint, 3.9 M states without it) follows the second attempt while both
coordinators live, and a takeover through the first; what both together could do is
left to the theorems, which know no bound.  At least one coordinator lives, or nothing could happen.

Cache: with contents of size 1 and 2 and caps of 2 and 3 a save fits, fits after an
eviction of the other, fits only without what it must protect, or not at all; one
fault between any two steps leaves every kind of debris for the next command.
Preparation: two calls are one that leaves a record or a recipe and one that meets it,
or two that race; with one record the guard is full at once; two events let a source
go and come back, or a value change and change back.  Its `MCBound` leaves out what only the
host does once the last call has ended, and a fault together with both events.  Verification: three calls are a success that is retained, one that
may reuse it, and one that may have refuted it in between; with one retained success
the limit is met by the second.  Its `MCBound` allows four moments of the tree: two executions
that change it and a disturbance, or one and a file that comes and goes.  With one event,
tools are replaced but not put back, so the exemption for tools is for the theorem; a removal
from the root is not counted as an event, and the exemption for it is exercised.  Routing: the automatic assignment is planned, revised
once and started twice, so that a rejection can precede a start; three outcomes
let one be refused with others behind it.  `Window` and the clock have one unit, which
is before, at and after the end of a pause; `ReworkLimit` is 2 where the code has
3.  The instance uses the outcomes rejected, unknown and cancelled and
no grades, so that of the rule in `Pauses` only rejections without an assessment are
exercised; with reworks and grades the same instance has many millions of states.

Ledgers: two hooks are one that has read and one that changes what was read; with the
commands and the worker there is a third actor in every interleaving.  Two turns are
needed for work that another task touches and for Stop to go through a list; two paths
and an unknown one for an edit that touches one deliverable, the other or all; two calls
for the second inspection and for a call that is given twice.  The second task stays a
draft: a second plan makes millions of states of what the theorems show for any number
of tasks.  The plans let each
deliverable begin, be replaced before it began, and be kept after.

The type invariants of JobLifecycle, TaskRouting and TaskLedger are proved and not
checked again; those of WorkerSlots and StorageBudget are part of `IInv`.

`CHECK_DEADLOCK FALSE` wherever there is an end: a job that is published and cleaned,
calls and events that are used up.  Symmetry: tickets and record tokens; the
commands of Preparation; the hooks and the calls of TaskLedger; in the job the two coordinators with their processes are
exchanged together.  No symmetry is used for liveness.

Fairness.  `FairSpec` of WorkerSlots: a scheduled process goes on (`WF`), jobs end,
the collector closes what it opened, the chooser ends.  The allocator lock is tried
and never waited for, so a caller could in principle meet it taken at every try;
it is held for milliseconds and tried at random offsets of up to a second, hence
`SF` of `BeginAttempt` and `NotAlwaysContended`.  Collections are finite and rare:
`<>[]~CollectorHolds`.  `FairSpec` of StorageBudget: processes go on and
`budget.lock` is a blocking flock, which the kernel grants in turn.  `FairCacheSpec`
is the same for the cache: every command goes on, and its blocking flock, exclusive or
shared, does not starve it (`SF` of the two ways to take it).  No liveness is
claimed of the job: what a user does not review or finalize stays.

Beside the properties stand small variants of some definitions, each marked as a
mistake (`NoRoomOffByOne`, `LaterOnly`, ...).  They are not used by the
specification; with one of them in place of the definition it spoils, the property
named for it in `PROJECT.json` fails.

### What the violations say

- `job_result`: half of the tree is deleted, the next finalization finds a process
  using the rest and gives the rest back, and a third captures it as the final patch.
- `routing_rejection`: a rejection of the second attempt equals the last entry of the
  outbox, that of the first, and is dropped as a retry of it: the family is not paused
  as `docs/ROUTING.md:165` says.

### Known disagreements without a run

These properties are stated in the modules and do not hold.  Adding one as an
`INVARIANT` or `PROPERTY` to a configuration of its component shows the behaviour.

- `WorkerSlots.UnsafeMeansUnsafe`, `BusyMeansNoWait` (configuration of
  `slots_visitors`): the collector's momentary probes make a caller report an unsafe
  directory (78) or a busy pool (75) to somebody who asked to wait.
  `worker_slots.py:20-21` promises otherwise.
- `StorageBudget.NoOvercommit` under `Spec` instead of `SteadySpec`: the free space is
  sampled before the live records are tried; an owner that writes its blocks and is
  gone in between is counted nowhere.  Sampling after the count would repair it.
- `JobLifecycle.AwaitingReviewKept`: a worker killed between its record and the
  ledger leaves a row that runs for ever; when its coordinator goes, the collector
  cancels a job whose finished result nobody has seen.
- `JobLifecycle.IntentAgrees`: a finalization interrupted after its intent was
  written, and a `workspace cancel`, leave an intent that can be neither completed nor
  cancelled.
- `ToolchainCache.MissingRefreshed`: an eviction that dies after the tree and before
  the manifest (`toolchain_cache.py:1081`) leaves a manifest alone, and every later save
  of this content is refused as incomplete, although the advice for a missing payload
  (`toolchains.py:1500`) is to save it again.
- `TaskRouting.OnlyLostPlansBlock` without its exemption (`/\ FALSE` in place of
  `Event(..).decision = Lost`): a plan or start cut off between ledger and commit is
  repaired by giving it again (`coordination.py:1648-1650`), but not after an outcome was
  queued under the lost decision.  The store then refuses this entry for ever, and with
  it every later one of the task.
- `TaskLedger.OneFreeInspection` with `PromptAlone = FALSE`: `begin_turn` writes the
  task it opened once more without the lock (`coordination.py:366-371`); the inspection
  a hook recorded in between is lost, and a second one is let through.
- `TaskLedger.EditsAccepted` with `Plans <- RevisedPlans`: an edit is approved for a
  deliverable without a result, which a revised plan may drop
  (`coordination.py:1610-1613` does not look for `result_invalidated_at`,
  `coordination.py:456` does); the task completes and nobody has accepted the edit.
  `coordination.py:1616` promises "cannot remove started/completed deliverables".
- `Preparation.EveryRefusalIsTrue`, which is `RefusalIsTrue` without its exemption: a failure
  is recorded under the conditions that were observed before it (`managed.py:149`, `:231-233`,
  `:275`), and some conditions can return.  If a kernel setting, HEAD or a candidate on PATH
  changes before the probe fails and is set back afterwards, if a source was only out of
  reach, or if a job that observed no recipe met one that was saved meanwhile and had lost its
  entries, later preparations under the old conditions are refused although they would
  succeed, until somebody passes `--recheck-environment`.
- `CheckReuse.ReuseIsTrue` without `e.returns > 0` in `Unnoticed`: a file put directly
  into the root while the checks run and removed before they end leaves the identity as it
  was (`check_reuse.py:175-176`), and a success that was partly observed on another tree
  is retained and returned.  Hashing the root's times, as `:216-219` do for the directories
  below it, would repair this.  The same for tools that are put back needs two events.
- `CheckReuse.EveryFailureRevokes`: the documentation of `run_checks` (`check_reuse.py:737-739`)
  says that a fresh failed observation invalidates a matching retained success.  If the record
  cannot be saved, `_invalidate` restores what was there (`:705-711`) and the failure is only
  returned; if the process dies between the failure and `:795-815`, nothing is kept of it
  either.  The next call returns the refuted success.
- A rework that is replayed late is counted in the window that ends at its own time,
  so three reworks of a family may not pause it if they are replayed out of order
  (`Pauses`; several owners with rework, `ReworkLimit = 3`).

## 5. Proofs

All proofs are checked by TLAPS (SMT, Zenon and LS4) and hold for every value of the
constants that meets the assumptions in the modules: finite sets of processes and
blocks, limits between 1 and the number of slots, `None` different from the rest, `Lost`
no identity of a decision.

**WorkerSlotsProofs.**  `Consistent` shows the inductive invariant `IInv`: who is in the
allocator's section, which locks a live caller has, the order of the tickets, and
that nobody enters once the root was proved idle.  The type invariant alone says
nothing about the slots found free by a probe; `SlotInv` keeps that they are free of
callers until the probe ends, because only the allocator's holder gives slots out.
From it follow `NoStranded`; `WithinLimit`, by counting the slots not found free;
`Fifo`, from the order of tickets; and `Refinement`: initial states map to initial
states of AdmissionQueue and each step to a step of it or a stutter.
`NoHintLost` needs one more invariant, `HintInv`: while a caller probes and its watch is
quiet, every slot it found taken is taken still, for whoever releases one after that look,
caller or collector, leaves a hint.

**StorageBudgetProofs.**  `Base` shows what holds whatever happens: locks, records and
owners belong together (`BaseInv`); `RecordsKept` follows.  `SteadyConsistent` adds,
for SteadySpec, that an admission in progress knows enough: each live reservation is
still on its list or counted in full, and what was written since the sample belongs to
live reservations (`CountInv`), so that its decision can be kept (`PromiseInv`).
`NothingPromisedTwice` is the consequence.

**JobLifecycleProofs.**  `Consistent` shows `IInv`, which adds to the properties
- `Owned`: a process past its lock owns the copy, so no two are inside;
- `Reserved` and `Executed`: what a start relies on between its two writes, and what
  the record says when the others are told;
- `Reviewed`: who reopens a job still may, only ended attempts have dispositions, and
  an intent is about a disposition that allows it;
- `Progress`: how far the process that finalizes has come, and what the patch holds;
- `Collecting`: the collector's work is on a job nobody waits for.

None of the properties is inductive alone: that no tree goes before its result, for
example, needs that the patch captured three steps ago is still that of the tree,
and this needs that nobody else has been inside.  One lemma per action shows that it
keeps every part; most parts are kept by the frame of the action, and the few that
are not have a proof of their own.  `TypeCorrect`, `OperationOwnsLease`,
`RetriesKept`, `LedgerAgrees`, `CapturedFirst` and `LedgerAttemptKnown` follow, and
`FinalIsForGood` shows the action property: steps that write to a final lease are
impossible, steps that write a decision agree with the published one, all others
leave both alone.

**TaskRoutingProofs.**  `Consistent` shows `IInv`, which adds to the type invariant
- `RowInv`: the decision of a row is that of its definition unless it was lost, and an
  attempt of automatic work runs under it;
- `OutboxInv`: outcomes wait in the order of their times under decisions of their own
  deliverable, what is marked is in the database, and what the database has of an
  outbox is a prefix of it;
- `ObservedInv` and `NotesInv`: the database holds only what was queued, the journal
  nothing twice and every marked review;
- `ReplayInv`: a replay has written what it will mark when it ends;
- `PauseInv`: a rejection that counts pauses its family for the window.

The properties are not inductive: that the store never refuses a decision as another
case's needs that decisions are bound to their deliverable from the plan on, and that it
never refuses an outcome as out of order needs the prefix, kept because a replay goes
through an outbox in its order and begins with the first unmarked entry.  A pause is
only ever extended (`PauseGrows`), so a rejection observed once holds its family
whatever is replayed after it; `StartsPaused` follows, as only a start changes the
number of attempts (`OnlyStarts`).  `TypeCorrect`, `EntriesCountedOnce`,
`OutboxBlocked` and `DecisionsFollowed` are the invariants.  The proof is for any
number of tasks, deliverables, families, definitions and attempts, all grades, and
every window and rework limit.

**TaskLedgerProofs.**  `TypeCorrect` holds whatever runs beside a prompt.
`LedgersSound`, under `PromptAlone`, shows the invariant `Typed /\ Sound`, which adds
- `LedgerInv`: a deliverable edited since its last result is stale or has none, edits
  leave an event, inspections that were let through are recorded and are one, drafts
  that are closed have nothing, and a completed task is settled;
- `WriteInv`: the same of the ledger a prompt is about to write again, with the
  dispatches of the one it replaces;
- `BoundInv`: authorized and recorded dispatches are the same.

`CompletedIsCurrent` is not inductive: a task may only be completed again on an old
result because the mark of the edit survives every plan (`Carried`), and `ClosedUntouched`
needs that an edit leaves its event even if its deliverable is gone.  `CompletedCurrent`,
`ClosedIsUntouched`, `InspectedOnce` and `DispatchedOnce` follow, for any number of
turns, deliverables, hooks, calls and plans.  That no step ever looks back at what a hook
has read but at the ledger itself is why the invariant says nothing about hooks.

**ToolchainCacheProofs.**  `CacheInvariant` shows `CacheInv`, which adds to the type
invariant and to `ReadersSeeWhole`
- `LockOK`: whoever works on the cache holds its lock, and nobody reads then;
- `Batch`, in the order of a command's work: `Asked`, `Staging` (nothing new is in the
  cache before it is published), `MakingRoom` (what is wanted is new or kept, and what
  is kept is not evicted), `Publishing` (what is not whole yet is in staging, and both
  fit under the cap), `Ending` (what a rollback still owes).

No property is inductive alone: that a batch is whole at its end needs that each eviction
spared what the batch keeps, decided several steps before, and that the room
suffices needs that what is published leaves staging.  Sizes are counted as
cardinalities of disjoint blocks, for any sizes.  A death anywhere releases the lock and
loses nothing of this, because the next holder recovers first.  `CacheTyped`,
`ReadersProtected`, `BatchesAtomic` and `RoomMade` follow.

**PreparationProofs.**  `CacheInUse` shows that Preparation keeps `CacheInv`, action by
action, because each is one of the cache's or leaves the cache alone.
`PrepInvariant` adds
- `RecordsTrue`: the conditions under which a failure is remembered are of the past, and
  cannot be those of a call that would succeed, unless something had changed between
  observation and failure that can change back (`ChangedBack`);
- `OneEach` and `Owned`: no two commands work on one copy;
- `Observing`, `Replay`, `Failing`: what is known of a source that was looked at, which
  recipe is replayed, and why a failure about to be remembered will be a true record;
- `Linked`: what each command has asked of the cache, and why;
- `LackedOK` and `SafeSave`: a recipe none of whose entries ever went has them all, and a
  save keeps what the recipe has and removes only what it brought.

The argument that makes a look without the lock harmless is `Aging`: incarnations and the
numbers of recipes only grow, as the stat identities and write times they stand for do.  It is
used for these only.  What returns does so in the model too: values, whose drift before a
failed probe `drifted` remembers, and files that were out of reach, which `back` does.  For
them the theorem promises no more than the exemption says.  `RefusalTrue`, `RecipeAlwaysBacked`, `SaveKeeps`, `StaleOnly` and `EvidenceStays`
follow, for any number of commands, calls, sources, records and events.

**VerificationProofs.**  `VerificationInvariant` shows `VerInv`, two halves that meet in
the current call:
- `CheckInv`: a tree has the number of the moment when it was first there, and moments with
  the same identity have trees that do the same (`TreesOK`); how far the call has come
  (`StepOK`), at which moments it has worked since its identity was taken (`SeenOK`), how often
  the tools changed or an earlier tree returned meanwhile and what its rows say if neither did
  (`ToolsOK`), that every retained success is of one tree and passed there but for these
  (`EntryOK`), and that no retained success is refuted unless the next step revokes it or its
  revocation was lost (`RevokedOK`);
- `JobInv`: what row and record are at each stage of the task (`StageOK`), that the checks
  of a result see no tree before it (`PostOK`), that every verification has a number of
  its own (`OwnOK`) and is once in the ledger, under its attempt (`LedgerOK`), or is the
  one that is pending and can be published (`PendingOK`).

`ReuseTrue` rests on the second look at identity and evidence, `FailuresRevoke` on the
failure being known from the check that failed to the step that revokes, with nothing
published in between, `VerificationsKept` on the copy's
record being written first and replayed before another, and `SuccessOfResult` on nobody
else having the copy between the work and its record.
All hold for any number of checks, trees, calls, attempts and retained successes.

Besides what is named above these proofs assume: `Digests` is finite, `None` no recipe and
`Unknown` no fingerprint, `Usual` is one of the `Values`, there is at least one check, and an outcome says of each check
whether it passed.

With these, every safety invariant and action property of the passing runs is stated by
a theorem.  Only model-checked are the liveness properties `EveryWaiterLeaves`,
`EveryCallReturns` and `EveryCallEnds` (they rest on fairness, for which TLAPS has no
backend), and of course the violations.

Left to prove: abstract specifications of further components, refined as AdmissionQueue
is: a set of whole entries for the cache, a verdict that is given once for the job.

## 6. Not modelled

- Text and data without interleavings, covered by unit tests: command-line parsing,
  reports, generated guidance, the analysis of shell commands and paths in hooks, the
  lexer of check commands, redaction and capture of their output, the classification of
  causes, the numerical estimates and evidence formats of the router.
- The environment: sandbox, relay, process groups, inotify, the filesystem, Git.  The
  models reach it as steps that succeed, fail or are killed.
- Of components with a module: the creation and import of a copy and heartbeats
  (JobLifecycle), the fingerprint of prepared inputs (a value), the record formats
  with their permissions and owners (a refusal), the month's budget of experiments, its
  settlement and the evidence behind a decision (`veto`), what becomes of lessons after
  the journal; read-only deliverables, the checks of a distribution and
  Claude's plan mode (TaskLedger).
- Of the plan: correction chains, the experiment budget, reviews of lessons.  They
  need modules of their own; nothing in them is out of TLC's reach.
