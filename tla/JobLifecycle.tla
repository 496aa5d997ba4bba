---------------------------- MODULE JobLifecycle ----------------------------
(* One logical job: its lease (workspace_lifecycle.py), its private copy and   *)
(* record (workspace.py), the end of both (workspace_gc.py) and the row of its *)
(* assignment in the coordination ledger (coordination.py), with the processes *)
(* that run, prepare, review, finalize, abandon, recover and collect it.       *)
(*                                                                             *)
(* owner.lock of the copy and the lifecycle fence are flocks: the process that *)
(* holds them, or None.  The ledger lock is held within single steps only.     *)
(* Everything but locks and the steps of processes is on disk, and each write  *)
(* to disk is a step of its own: a process may stop after any of them, because *)
(* it is killed or because its next step is refused (Stop).                    *)
EXTENDS Naturals, FiniteSets

CONSTANTS
    Procs,          \* processes, one operation at a time
    Coordinators,   \* identities that own leases (owner_identity)
    Boss,           \* the coordinator each process acts for
    MaxAttempts,    \* bound: attempts of the job
    None

ASSUME BossAssumption ==
    /\ Boss \in [Procs -> Coordinators]
    /\ IsFiniteSet(Coordinators)
    /\ None \notin Procs \cup Coordinators
ASSUME MaxAttemptsAssumption == MaxAttempts \in Nat

VARIABLES
    alive,          \* the coordinators that still run
    pc, plan,       \* where each process stands, and what it is about to do
    owner, fence,   \* who holds owner.lock and lifecycle.lock
    phase,          \* lease: phase,
    holder,         \*   owner,
    attempts,       \*   how many attempts it records,
    pending,        \*   whether an execution attempt is reserved,
    reason,         \*   final_reason,
    cleanup,        \*   cleanup intent
    status,         \* record.json: status; a preparation succeeds as "prepared"
    rowStatus,      \* ledger row: status,
    disposition,    \*   disposition,
    attempt,        \*   attempt_id (a position among the lease's attempts),
    request,        \*   job_finalization_request,
    verdict,        \*   job_finalization
    place,          \* where the execution tree is
    whole,          \*   and whether all of it is still there
    patch,          \* changes.patch: how much of the tree's changes it holds
    manifest        \* result.json: the patch it describes

acting == <<pc, plan>>
locks == <<owner, fence>>
lease == <<phase, holder, attempts, pending, reason, cleanup>>
row == <<rowStatus, disposition, attempt, request, verdict>>
tree == <<place, whole>>
result == <<patch, manifest>>
vars == <<alive, acting, locks, lease, status, row, tree, result>>

Final == {"finalized", "cancelled"}
Phases == Final \cup {"ready", "running", "review", "retry"}
Ended == {"succeeded", "failed"}
Fresh == {"ready", "prepared"}          \* a copy nothing was executed in
Statuses == Ended \cup Fresh \cup {"running"}
Dispositions == {"none", "incorporated", "rejected", "needs-rework"}
Captures == {"none", "earlier", "all", "rest"}  \* nothing, an earlier state of the
                            \* tree, all of it, or what half a deletion left of it
Kinds == {"none", "run", "resume", "prepare", "review", "accept", "discard", "collect"}
Plan(kind, cancel, seen) == [kind |-> kind, cancel |-> cancel, seen |-> seen]
NoPlan == Plan("none", FALSE, "none")

-----------------------------------------------------------------------------
(* Helpers. *)

Goto(p, step) == pc' = [pc EXCEPT ![p] = step]
Forget(p) == plan' = [plan EXCEPT ![p] = NoPlan]
Leave(p) == Goto(p, "idle") /\ Forget(p)
Free(lock, p) == IF lock = p THEN None ELSE lock
Unowned(p) == owner' = Free(owner, p) /\ UNCHANGED fence
Unlocked(p) == owner' = Free(owner, p) /\ fence' = Free(fence, p)

(* Only a coordinator that runs gives orders. *)
Ready(p) == pc[p] = "idle" /\ Boss[p] \in alive

(* The phase a finalization ends in. *)
Ending(cancel) == IF cancel THEN "cancelled" ELSE "finalized"

(* The attempts the lease knows: those recorded and the one reserved. *)
Known == attempts + (IF pending THEN 1 ELSE 0)

(* workspace_lifecycle.renew: an owner that has gone is replaced, on request. *)
Renewed(p, recover) ==
    \/ holder = Boss[p] /\ UNCHANGED holder
    \/ recover /\ holder \notin alive /\ holder' = Boss[p]

(* Workspace.lock.  The fence is free again when it returns.  Mistake kept    *)
(* beside it: a finalized job is not looked for.                              *)
LockAnyPhase(p, recover) ==
    /\ fence = None
    /\ owner = None
    /\ place = "work"
    /\ status \in Fresh \cup {"succeeded"} \/ recover
    /\ Renewed(p, recover)
    /\ owner' = p
    /\ UNCHANGED <<fence, phase, attempts, pending, reason, cleanup>>
Lock(p, recover) ==
    /\ fence = None
    /\ owner = None
    /\ phase \notin Final
    /\ place = "work"
    /\ status \in Fresh \cup {"succeeded"} \/ recover
    /\ Renewed(p, recover)
    /\ owner' = p
    /\ UNCHANGED <<fence, phase, attempts, pending, reason, cleanup>>

(* workspace_lifecycle.finish: a reservation that never began becomes an      *)
(* attempt, and review begins.                                                *)
FinishLease ==
    /\ fence = None
    /\ phase \notin Final
    /\ attempts' = Known
    /\ pending' = FALSE
    /\ phase' = "review"
    /\ UNCHANGED <<holder, reason, cleanup>>

-----------------------------------------------------------------------------
(* Running and preparing the job: managed.run, workspace.prepare. *)

(* A fresh start, or a continuation on request.  What the row says is looked  *)
(* at first without locks and decided upon under them (Reserve, Replay).      *)
Start(p) ==
    /\ Ready(p)
    /\ \E kind \in {"run", "resume"} :
          /\ Lock(p, kind = "resume")
          /\ plan' = [plan EXCEPT ![p] = Plan(kind, FALSE, "none")]
    /\ Goto(p, "locked")
    /\ UNCHANGED <<alive, status, row, tree, result>>

Prepare(p) ==
    /\ Ready(p)
    /\ \E recover \in BOOLEAN : Lock(p, recover)
    /\ plan' = [plan EXCEPT ![p] = Plan("prepare", FALSE, "none")]
    /\ Goto(p, "locked")
    /\ UNCHANGED <<alive, status, row, tree, result>>

(* assignment_preparation_failed leaves a row alone that is no longer planned. *)
Report(p) == Goto(p, IF rowStatus = "planned" THEN "unprepared" ELSE "idle")

(* Anything before the start of the attempt fails: a copy without execution   *)
(* results is marked, and the ledger learns of it once the copy is released.  *)
PreparationFails(p) ==
    /\ pc[p] \in {"locked", "reserved"}
    /\ plan[p].kind # "prepare"
    /\ Forget(p)
    /\ IF status \in Fresh
       THEN /\ status' = "failed"
            /\ Goto(p, "failing")
            /\ fence' = Free(fence, p)
            /\ UNCHANGED owner
       ELSE /\ UNCHANGED status
            /\ Report(p)
            /\ Unlocked(p)
    /\ UNCHANGED <<alive, lease, row, tree, result>>

(* An error in marking the lease is passed over. *)
FailLease(p) ==
    /\ pc[p] = "failing"
    /\ FinishLease \/ UNCHANGED lease
    /\ Report(p)
    /\ Unowned(p)
    /\ UNCHANGED <<alive, plan, status, row, tree, result>>

RecordUnprepared(p) ==
    /\ pc[p] = "unprepared"
    /\ rowStatus' = IF rowStatus = "planned" THEN "failed" ELSE rowStatus
    /\ Leave(p)
    /\ UNCHANGED <<alive, locks, lease, status, disposition, attempt, request, verdict,
                   tree, result>>

(* assignment_started, under fence and ledger lock: the attempt is reserved   *)
(* in the lease first, then written to the row.  Mistake: only to the row.    *)
Startable(p) ==
    /\ pc[p] = "locked"
    /\ plan[p].kind # "prepare"
    /\ fence = None
    /\ phase \notin Final
    /\ request = "none"
    /\ verdict = "none"

ReserveNothing(p) ==
    /\ Startable(p)
    /\ rowStatus \in {"planned", "failed"} \/ (plan[p].kind = "resume" /\ rowStatus = "running")
    /\ rowStatus = "failed" => disposition # "none"
    /\ attempts < MaxAttempts
    /\ fence' = p
    /\ Goto(p, "reserved")
    /\ UNCHANGED <<alive, plan, owner, lease, status, row, tree, result>>
Reserve(p) ==
    /\ Startable(p)
    /\ rowStatus \in {"planned", "failed"} \/ (plan[p].kind = "resume" /\ rowStatus = "running")
    /\ rowStatus = "failed" => disposition # "none"
    /\ attempts' = IF plan[p].kind = "resume" THEN Known ELSE attempts
    /\ attempts' < MaxAttempts
    /\ pending' = TRUE
    /\ fence' = p
    /\ Goto(p, "reserved")
    /\ UNCHANGED <<alive, plan, owner, phase, holder, reason, cleanup, status, row, tree, result>>

(* The same start given again finds its row running and reserves nothing.     *)
Replay(p) ==
    /\ Startable(p)
    /\ plan[p].kind = "run"
    /\ rowStatus = "running"
    /\ Goto(p, "started")
    /\ UNCHANGED <<alive, plan, locks, lease, status, row, tree, result>>

RecordStart(p) ==
    /\ pc[p] = "reserved"
    /\ rowStatus' = "running"
    /\ disposition' = "none"
    /\ attempt' = attempts + 1
    /\ fence' = None
    /\ Goto(p, "started")
    /\ plan' = [plan EXCEPT ![p] = Plan("run", FALSE, "none")]
    /\ UNCHANGED <<alive, owner, lease, status, request, verdict, tree, result>>

(* workspace_lifecycle.begin: an execution uses its reservation, if it has one *)
(* (after a Replay it may have none).                                         *)
BeginAttempt(p) ==
    /\ \/ pc[p] = "started"
       \/ pc[p] = "locked" /\ plan[p].kind = "prepare" /\ ~pending
    /\ fence = None
    /\ phase \notin Final
    /\ attempts < MaxAttempts
    /\ attempts' = attempts + 1
    /\ pending' = FALSE
    /\ phase' = "running"
    /\ Goto(p, "begun")
    /\ UNCHANGED <<alive, plan, locks, holder, reason, cleanup, status, row, tree, result>>

RecordRunning(p) ==
    /\ pc[p] = "begun"
    /\ status' = "running"
    /\ Goto(p, "working")
    /\ UNCHANGED <<alive, plan, locks, lease, row, tree, result>>

Work(p) ==
    /\ pc[p] = "working"
    /\ patch' = IF patch = "none" THEN "none" ELSE "earlier"
    /\ manifest' = IF manifest = "none" THEN "none" ELSE "earlier"
    /\ UNCHANGED <<alive, acting, locks, lease, status, row, tree>>

Success(p) == IF plan[p].kind = "prepare" THEN "prepared" ELSE "succeeded"

(* Workspace.finish saves the record first.  An error anywhere, up to the     *)
(* writing of the patch, makes it a failure; failed() writes no patch.        *)
Conclude(p) ==
    /\ \/ pc[p] = "working" /\ status' \in {Success(p), "failed"}
       \/ pc[p] \in {"started", "begun"} /\ status' = "failed"
       \/ pc[p] = "saved" /\ status = Success(p) /\ status' = "failed"
    /\ \E next \in {"saved", "patched"} :
          /\ next = "patched" => status' = "failed"
          /\ Goto(p, next)
    /\ UNCHANGED <<alive, plan, locks, lease, row, tree, result>>

WritePatch(p) ==
    /\ pc[p] = "saved"
    /\ patch' = "all"
    /\ Goto(p, "patched")
    /\ UNCHANGED <<alive, plan, locks, lease, status, row, tree, manifest>>

EndAttempt(p) ==
    /\ pc[p] = "patched"
    /\ FinishLease
    /\ IF plan[p].kind = "prepare" THEN Leave(p) /\ Unowned(p)
       ELSE Goto(p, "concluded") /\ UNCHANGED <<plan, locks>>
    /\ UNCHANGED <<alive, status, row, tree, result>>

(* Neither finish nor failed could write to the copy: the ledger is told.     *)
LoseTrack(p) ==
    /\ pc[p] \in {"started", "begun", "working", "saved", "patched"}
    /\ plan[p].kind # "prepare"
    /\ Goto(p, "unreported")
    /\ UNCHANGED <<alive, plan, locks, lease, status, row, tree, result>>

(* assignment_finished does nothing to a row that does not run. *)
RecordEnd(p) ==
    /\ pc[p] \in {"concluded", "unreported"}
    /\ rowStatus' = IF rowStatus # "running" THEN rowStatus
                    ELSE IF pc[p] = "concluded" THEN status ELSE "failed"
    /\ Leave(p)
    /\ Unowned(p)
    /\ UNCHANGED <<alive, lease, status, disposition, attempt, request, verdict, tree, result>>

-----------------------------------------------------------------------------
(* Review: use_result, and abandon_assignment for an interrupted run. *)

(* Mistake: the copy is not kept locked while the disposition is written.     *)
ReviewUnlocked(p) ==
    /\ Ready(p)
    /\ fence = None
    /\ owner = None
    /\ \E kind \in Dispositions \ {"none"} :
          /\ kind = "needs-rework" => phase \notin Final
          /\ plan' = [plan EXCEPT ![p] = Plan("review", FALSE, kind)]
    /\ Goto(p, "reviewing")
    /\ UNCHANGED <<alive, locks, lease, status, row, tree, result>>
Review(p) ==
    /\ Ready(p)
    /\ fence = None
    /\ owner = None
    /\ \E kind \in Dispositions \ {"none"} :
          /\ kind = "needs-rework" => phase \notin Final
          /\ plan' = [plan EXCEPT ![p] = Plan("review", FALSE, kind)]
    /\ owner' = p
    /\ Goto(p, "reviewing")
    /\ UNCHANGED <<alive, fence, lease, status, row, tree, result>>

(* _use_result: a decision that is being carried out is frozen.  Mistake: only *)
(* one that was carried out is.                                               *)
FrozenOncePublished == verdict # "none"
Frozen == request # "none" \/ verdict # "none"
Acceptable(kind) == rowStatus \in Ended /\ (Frozen => kind = disposition)

(* A rejection goes on to finalize_assignment. *)
Decide(p) ==
    /\ pc[p] = "reviewing"
    /\ Acceptable(plan[p].seen)
    /\ disposition' = plan[p].seen
    /\ request' = IF plan[p].seen = "needs-rework" THEN "none" ELSE request
    /\ CASE plan[p].seen = "needs-rework" -> Goto(p, "reworking") /\ UNCHANGED <<plan, locks>>
         [] plan[p].seen = "rejected" /\ verdict = "none" -> Goto(p, "rejected") /\ UNCHANGED plan /\ Unowned(p)
         [] OTHER -> Leave(p) /\ Unowned(p)
    /\ UNCHANGED <<alive, lease, status, rowStatus, attempt, verdict, tree, result>>

(* workspace_lifecycle.rework, after the ledger write. *)
Rework(p) ==
    /\ pc[p] = "reworking"
    /\ fence = None
    /\ phase \notin Final
    /\ phase' = "retry"
    /\ Leave(p)
    /\ Unowned(p)
    /\ UNCHANGED <<alive, holder, attempts, pending, reason, cleanup, status, row, tree, result>>

(* abandon_assignment: the ledger, the record and the lease are told of the   *)
(* failure, in this order; then the work is rejected.                         *)
Abandon(p) ==
    /\ Ready(p)
    /\ rowStatus = "running"
    /\ Lock(p, TRUE)
    /\ plan' = [plan EXCEPT ![p] = Plan("review", FALSE, "rejected")]
    /\ Goto(p, "abandoning")
    /\ UNCHANGED <<alive, status, row, tree, result>>

AbandonRow(p) ==
    /\ pc[p] = "abandoning"
    /\ rowStatus = "running"
    /\ rowStatus' = "failed"
    /\ Goto(p, "abandoned")
    /\ UNCHANGED <<alive, plan, locks, lease, status, disposition, attempt, request, verdict,
                   tree, result>>

AbandonRecord(p) ==
    /\ pc[p] = "abandoned"
    /\ status' = "failed"
    /\ Goto(p, "recorded")
    /\ UNCHANGED <<alive, plan, locks, lease, row, tree, result>>

AbandonLease(p) ==
    /\ pc[p] = "recorded"
    /\ FinishLease
    /\ Goto(p, "reviewing")
    /\ UNCHANGED <<alive, plan, locks, status, row, tree, result>>

-----------------------------------------------------------------------------
(* The end of the job: finalize_assignment, workspace finalize and cancel, and *)
(* the collector, all of them workspace_gc.finalize.                           *)

(* What _pending_assignment reads in the current row. *)
AwaitsReview == rowStatus \in Ended /\ (disposition = "needs-rework" \/ phase = "review")
PendingAssignment ==
    /\ verdict = "none"
    /\ (pending /\ rowStatus = "running") \/ AwaitsReview

(* An orphan that can be collected: nobody lives who would go on with it. *)
Collectable ==
    /\ phase \in Final \/ holder \notin alive
    /\ ~PendingAssignment

Authorized(p) == holder = Boss[p] \/ holder \notin alive

(* finalize_assignment, before it takes a lock; a rejection comes here with   *)
(* cancelled set.  Publishing what is published changes nothing.              *)
FinalizeRequest(p) ==
    /\ Ready(p) \/ pc[p] = "rejected"
    /\ verdict = "none"
    /\ rowStatus \in Ended
    /\ disposition # "none"
    /\ \E cancelled \in BOOLEAN :
          /\ cancelled \/ (pc[p] # "rejected" /\ disposition # "needs-rework")
          /\ plan' = [plan EXCEPT ![p] =
                Plan("accept", cancelled \/ disposition = "rejected", disposition)]
    /\ Goto(p, "submitted")
    /\ UNCHANGED <<alive, locks, lease, status, row, tree, result>>

(* workspace_gc.finalize takes both locks and reads under them. *)
TakeLocks(p) ==
    /\ fence = None
    /\ owner = None
    /\ Authorized(p)
    /\ owner' = p
    /\ fence' = p

(* workspace finalize and workspace cancel know nothing of the ledger. *)
Discard(p) ==
    /\ Ready(p)
    /\ TakeLocks(p)
    /\ \E cancelled \in BOOLEAN :
          plan' = [plan EXCEPT ![p] = Plan("discard", cancelled, "none")]
    /\ Goto(p, "attested")
    /\ UNCHANGED <<alive, lease, status, row, tree, result>>

(* What the collector finds without locks is found again under them. *)
Collect(p) ==
    /\ Ready(p)
    /\ Collectable
    /\ TakeLocks(p)
    /\ plan' = [plan EXCEPT ![p] = Plan("collect", TRUE, "none")]
    /\ Goto(p, "attested")
    /\ UNCHANGED <<alive, lease, status, row, tree, result>>

(* finalize_assignment.attest with _finalization_authority: the review has not *)
(* changed, the job's history knows the row's attempt, and the intent agrees   *)
(* with what was decided before.  It is written to the row.                    *)
Agrees(p) == Ending(plan[p].cancel)
Attest(p) ==
    /\ pc[p] = "submitted"
    /\ TakeLocks(p)
    /\ rowStatus \in Ended
    /\ disposition = plan[p].seen
    /\ phase \in Final => phase = Agrees(p)
    /\ verdict \in {"none", Agrees(p)}
    /\ request \in {"none", Agrees(p)}
    /\ attempt <= Known
    /\ request' = IF verdict = "none" THEN Agrees(p) ELSE request
    /\ Goto(p, "attested")
    /\ plan' = [plan EXCEPT ![p].seen = "none"]
    /\ UNCHANGED <<alive, lease, status, rowStatus, disposition, attempt, verdict,
                   tree, result>>

(* The end of a finalization; an accepted or rejected one is published. *)
Proceed(p) == IF plan[p].kind = "accept" THEN Goto(p, "publishing") /\ Forget(p)
              ELSE Leave(p)

AlreadyCleaned(p) ==
    /\ pc[p] = "attested"
    /\ cleanup = "cleaned"
    /\ Proceed(p)
    /\ Unlocked(p)
    /\ UNCHANGED <<alive, lease, status, row, tree, result>>

(* _capture, into changes.patch.  Mistake: no manifest is written after it.   *)
CaptureOnly(p) ==
    /\ pc[p] = "attested"
    /\ cleanup # "cleaned"
    /\ place = "work"
    /\ patch' = IF whole THEN "all" ELSE "rest"
    /\ Goto(p, "described")
    /\ UNCHANGED <<alive, plan, locks, lease, status, row, tree, manifest>>
Capture(p) ==
    /\ pc[p] = "attested"
    /\ cleanup # "cleaned"
    /\ place = "work"
    /\ patch' = IF whole THEN "all" ELSE "rest"
    /\ Goto(p, "captured")
    /\ UNCHANGED <<alive, plan, locks, lease, status, row, tree, manifest>>

Describe(p) ==
    /\ pc[p] = "captured"
    /\ manifest' = patch
    /\ Goto(p, "described")
    /\ UNCHANGED <<alive, plan, locks, lease, status, row, tree, patch>>

CloseLease(p) ==
    /\ pc[p] = "described"
    /\ IF phase \in Final THEN UNCHANGED <<phase, reason>>
       ELSE /\ phase' = Ending(plan[p].cancel)
            /\ reason' = IF plan[p].kind = "collect" THEN "orphan" ELSE "explicit"
    /\ cleanup' = "pending"
    /\ Goto(p, "closed")
    /\ UNCHANGED <<alive, plan, locks, holder, attempts, pending, status, row, tree, result>>

(* The tree is renamed into the quarantine, and the fence released. *)
Quarantine(p) ==
    /\ pc[p] = "closed"
    /\ place' = "quarantine"
    /\ Goto(p, "sweeping")
    /\ fence' = None
    /\ UNCHANGED <<alive, plan, owner, lease, status, row, whole, result>>

(* An interrupted cleanup goes on where it was. *)
ResumeCleanup(p) ==
    /\ pc[p] = "attested"
    /\ cleanup = "pending"
    /\ place # "work"
    /\ Goto(p, "sweeping")
    /\ fence' = None
    /\ UNCHANGED <<alive, plan, owner, lease, status, row, tree, result>>

(* _finish_cleanup: a process that still uses the tree gets it back. *)
Restore(p) ==
    /\ pc[p] = "sweeping"
    /\ fence = None
    /\ place = "quarantine"
    /\ place' = "work"
    /\ Leave(p)
    /\ Unowned(p)
    /\ UNCHANGED <<alive, lease, status, row, whole, result>>

RemoveSome(p) ==
    /\ pc[p] = "sweeping"
    /\ place = "quarantine"
    /\ whole' = FALSE
    /\ Goto(p, "removing")
    /\ UNCHANGED <<alive, plan, locks, lease, status, row, place, result>>

RemoveRest(p) ==
    /\ pc[p] = "removing"
    /\ place' = "gone"
    /\ Goto(p, "sweeping")
    /\ UNCHANGED <<alive, plan, locks, lease, status, row, whole, result>>

RecordCleaned(p) ==
    /\ pc[p] = "sweeping"
    /\ place = "gone"
    /\ fence = None
    /\ cleanup' = "cleaned"
    /\ Proceed(p)
    /\ Unowned(p)
    /\ UNCHANGED <<alive, phase, holder, attempts, pending, reason, status, row, tree, result>>

(* _publish_job_finalization, under all three locks. *)
Publish(p) ==
    /\ pc[p] = "publishing"
    /\ fence = None
    /\ owner = None
    /\ Authorized(p)
    /\ phase \in Final
    /\ cleanup = "cleaned"
    /\ place = "gone"
    /\ request # "none" \/ verdict # "none"
    /\ {request, verdict} \subseteq {"none", phase}
    /\ verdict' = phase
    /\ request' = "none"
    /\ Leave(p)
    /\ UNCHANGED <<alive, locks, lease, status, rowStatus, disposition, attempt, tree, result>>

-----------------------------------------------------------------------------
(* Recovery and what goes wrong. *)

(* workspace_gc.recover of a job that is not final.  Mistake: the copy may be  *)
(* in use.                                                                     *)
RecoverInUse(p) ==
    /\ Ready(p)
    /\ fence = None
    /\ phase \notin Final
    /\ holder # Boss[p]
    /\ holder \notin alive
    /\ holder' = Boss[p]
    /\ UNCHANGED <<alive, acting, locks, phase, attempts, pending, reason, cleanup, status, row,
                   tree, result>>
Recover(p) ==
    /\ Ready(p)
    /\ fence = None
    /\ owner = None
    /\ phase \notin Final
    /\ holder # Boss[p]
    /\ holder \notin alive
    /\ holder' = Boss[p]
    /\ UNCHANGED <<alive, acting, locks, phase, attempts, pending, reason, cleanup, status, row,
                   tree, result>>

(* A process stops: killed, interrupted, or refused by its next step.  The    *)
(* kernel releases its locks; what it wrote stays.                            *)
Stop(p) ==
    /\ pc[p] # "idle"
    /\ Leave(p)
    /\ Unlocked(p)
    /\ UNCHANGED <<alive, lease, status, row, tree, result>>

(* A coordinator goes; the processes it started may go on. *)
Die(c) ==
    /\ Cardinality(alive) > 1
    /\ alive' = alive \ {c}
    /\ UNCHANGED <<acting, locks, lease, status, row, tree, result>>

-----------------------------------------------------------------------------
(* A copy whose allocation has just been associated with its assignment. *)
Init ==
    /\ alive = Coordinators
    /\ pc = [p \in Procs |-> "idle"]
    /\ plan = [p \in Procs |-> NoPlan]
    /\ owner = None
    /\ fence = None
    /\ phase = "ready"
    /\ holder \in Coordinators
    /\ attempts = 0
    /\ pending = FALSE
    /\ reason = "none"
    /\ cleanup = "none"
    /\ status = "ready"
    /\ rowStatus = "planned"
    /\ disposition = "none"
    /\ attempt = 0
    /\ request = "none"
    /\ verdict = "none"
    /\ place = "work"
    /\ whole = TRUE
    /\ patch = "none"
    /\ manifest = "none"

Execution(p) ==
    \/ Start(p) \/ Prepare(p) \/ PreparationFails(p) \/ FailLease(p) \/ RecordUnprepared(p)
    \/ Reserve(p) \/ Replay(p) \/ RecordStart(p) \/ BeginAttempt(p) \/ RecordRunning(p)
    \/ Work(p) \/ Conclude(p) \/ WritePatch(p) \/ EndAttempt(p) \/ LoseTrack(p) \/ RecordEnd(p)
Reviewing(p) ==
    \/ Review(p) \/ Decide(p) \/ Rework(p)
    \/ Abandon(p) \/ AbandonRow(p) \/ AbandonRecord(p) \/ AbandonLease(p)
Finishing(p) ==
    \/ FinalizeRequest(p) \/ Discard(p) \/ Collect(p) \/ Attest(p)
    \/ AlreadyCleaned(p) \/ Capture(p) \/ Describe(p) \/ CloseLease(p) \/ Quarantine(p)
    \/ ResumeCleanup(p) \/ Restore(p) \/ RemoveSome(p) \/ RemoveRest(p) \/ RecordCleaned(p)
    \/ Publish(p)
Next ==
    \/ \E p \in Procs : Execution(p) \/ Reviewing(p) \/ Finishing(p) \/ Recover(p) \/ Stop(p)
    \/ \E c \in alive : Die(c)

Spec == Init /\ [][Next]_vars

-----------------------------------------------------------------------------
(* Properties. *)

Steps == {"idle", "locked", "failing", "unprepared", "reserved", "started", "begun", "working",
          "saved", "patched", "concluded", "unreported", "reviewing", "reworking", "rejected",
          "abandoning", "abandoned", "recorded", "submitted", "attested", "captured",
          "described", "closed", "sweeping", "removing", "publishing"}
Plans == [kind : Kinds, cancel : BOOLEAN, seen : Dispositions]
TypeOK ==
    /\ alive \subseteq Coordinators
    /\ pc \in [Procs -> Steps]
    /\ plan \in [Procs -> Plans]
    /\ owner \in Procs \cup {None} /\ fence \in Procs \cup {None}
    /\ phase \in Phases /\ holder \in Coordinators
    /\ attempts \in Nat /\ pending \in BOOLEAN /\ Known <= MaxAttempts
    /\ reason \in {"none", "explicit", "orphan"} /\ cleanup \in {"none", "pending", "cleaned"}
    /\ status \in Statuses
    /\ rowStatus \in Ended \cup {"planned", "running"} /\ disposition \in Dispositions
    /\ attempt \in Nat /\ attempt <= MaxAttempts
    /\ request \in Final \cup {"none"} /\ verdict \in Final \cup {"none"}
    /\ place \in {"work", "quarantine", "gone"} /\ whole \in BOOLEAN
    /\ patch \in Captures /\ manifest \in Captures

(* A process that runs, prepares or abandons the job owns the copy, and the    *)
(* lease is its coordinator's all the while: nobody recovers, finalizes or     *)
(* collects a job that is worked on (Workspace.lock, renew, recover).          *)
Operating == {"locked", "reserved", "started", "begun", "working", "saved", "patched",
              "concluded", "unreported", "failing", "abandoning", "abandoned", "recorded"}
LeaseFollowsOperation ==
    \A p \in Procs : pc[p] \in Operating =>
        owner = p /\ holder = Boss[p] /\ phase \notin Final /\ place = "work" /\ whole

(* The collector never ends a job that waits for a retry or for the recovery   *)
(* of a reserved attempt, whatever was decided while it looked                 *)
(* (_pending_assignment, read once without locks and once more under them).    *)
KeptForRetry ==
    reason = "orphan" =>
        /\ ~(rowStatus \in Ended /\ disposition = "needs-rework")
        /\ ~(pending /\ rowStatus = "running")

(* What has been finalized or cancelled stays so: no step, not even one begun  *)
(* before, runs it again, gives it to another owner or turns the decision, and *)
(* a published verdict stands with the disposition it carries out.             *)
FinalForGood ==
    [][/\ phase \in Final => UNCHANGED <<phase, holder, attempts, status>>
       /\ verdict # "none" => UNCHANGED <<verdict, disposition>>]_vars

(* A published verdict is about a job whose tree is gone and whose result is   *)
(* described, says what the lease says, and accepts only what a reviewer       *)
(* accepted: ledger and lease are written in several steps by several          *)
(* processes (finalize_assignment, attest, _publish_job_finalization).         *)
DecisionsAgree ==
    verdict # "none" =>
        /\ verdict = phase /\ cleanup = "cleaned" /\ place = "gone" /\ manifest # "none"
        /\ verdict = "finalized" => disposition = "incorporated"
        /\ verdict = "cancelled" => disposition # "none"

(* No part of the tree is moved or removed before its result is captured and   *)
(* described and the lease is closed; a crash anywhere leaves one of the two   *)
(* (_finalize, _finish_cleanup).                                               *)
ResultBeforeRemoval ==
    /\ place # "work" \/ ~whole => phase \in Final /\ cleanup # "none" /\ manifest # "none"
    /\ cleanup # "none" /\ whole => patch = "all" /\ manifest = "all"
    /\ cleanup = "cleaned" => place = "gone"

(* The lease knows every attempt the ledger names, whatever was interrupted    *)
(* between the two writes: a finalization refuses a row it does not know       *)
(* (assignment_started, prepare_attempt, _finalization_authority).             *)
AttemptKnown == attempt <= Known

(* The result of a finalized job, once captured, is kept.  (An interrupted     *)
(* removal, a restored tree and another finalization replace it.)              *)
ResultKept == patch # "rest"

(* A finished execution is not collected before its review (a worker that is   *)
(* killed between the copy's record and the ledger leaves the row running).    *)
AwaitingReviewKept ==
    [][reason' = "orphan" /\ reason = "none" =>
         ~(phase = "review" /\ status = "succeeded" /\ disposition = "none")]_vars

(* An intent that is being carried out and the lease that carries it out agree. *)
IntentAgrees == request # "none" /\ phase \in Final => request = phase
=============================================================================
