----------------------------- MODULE Verification -----------------------------
(* Checks of one assignment's copy: a managed run takes a baseline, lets the    *)
(* worker work and checks the result (managed.py); `workspace verify` checks    *)
(* again later and appends what it saw to the attempt it looked at              *)
(* (workspace.verify_checks, coordination.record_verification).  Both hold the  *)
(* copy's lock, so that one of them runs at a time.                             *)
EXTENDS CheckReuse

CONSTANTS
    MaxAttempts,  \* executions of the assignment
    MaxVerify     \* calls of `workspace verify`

ASSUME AttemptsAssumption == MaxAttempts \in Nat /\ MaxVerify \in Nat

VARIABLES
    task,     \* what the holder of the copy's lock does
    row,      \* the assignment in the ledger
    ended,    \* attempts in attempt_history that have a finished_at
    ledger,   \* verification_runs of each attempt
    own,      \* verification_runs of the copy
    pending   \* pending_verifications of the copy

taskVars == <<task, row, ended, ledger, own, pending>>
vars == <<reuseVars, taskVars>>

Idle == [kind |-> "idle", stage |-> "none", attest |-> FALSE, force |-> FALSE,
         from |-> 0, attempt |-> 0]

Stage(stage) == task' = [task EXCEPT !.stage = stage]
Release == task' = Idle /\ call' = NoCall

Checking == task.stage \in {"baseline", "post", "verify"}

(* classify_checks: what a row says of the environment is never a verdict.     *)
Environment(rows) == "environment" \in ToSet(rows)

-----------------------------------------------------------------------------
(* The managed run. *)

(* --resume-after-failure also takes an attempt whose process died. *)
StartJob(attest, force) ==
    /\ task = Idle
    /\ row.attempt < MaxAttempts /\ row.status # "succeeded"
    /\ task' = [Idle EXCEPT !.kind = "job", !.stage = "baseline",
                            !.attest = attest, !.force = force]
    /\ UNCHANGED <<reuseVars, row, ended, ledger, own, pending>>

CallChecks ==
    /\ Checking /\ call.step = "none"
    /\ \E late \in (IF task.kind = "job" THEN BOOLEAN ELSE {FALSE}) :
         Call(task.attest, task.force, late)
    /\ UNCHANGED taskVars

(* A baseline that could not be run: assignment_preparation_failed, which      *)
(* closes a planned assignment only.                                           *)
BaselineFails ==
    /\ task.stage = "baseline"
    /\ call.step = "raised" \/ (call.step = "done" /\ Environment(call.rows))
    /\ row' = IF row.status = "planned" THEN [status |-> "failed", attempt |-> 1]
              ELSE row
    /\ Release
    /\ UNCHANGED <<world, intact, runs, entries, failures, faults, ended, ledger, own,
                   pending>>

(* A finished attempt takes its finished_at along. *)
History == IF row.status = "failed" THEN ended \cup {row.attempt} ELSE ended

(* assignment_started: the last attempt moves into the history. *)
BaselineDone ==
    /\ task.stage = "baseline"
    /\ call.step = "done" /\ ~Environment(call.rows)
    /\ ended' = History
    /\ row' = [status |-> "running", attempt |-> row.attempt + 1]
    /\ Stage("work")
    /\ call' = NoCall
    /\ UNCHANGED <<world, intact, runs, entries, failures, faults, ledger, own, pending>>

(* The worker edits the tree and ends. *)
Work ==
    /\ task.stage = "work"
    /\ \E o \in Outcomes : Edit(o)
    /\ task' = [task EXCEPT !.stage = "post", !.from = Len(trees) + 1]
    /\ UNCHANGED <<events, row, ended, ledger, own, pending>>

WorkUnchanged ==
    /\ task.stage = "work"
    /\ task' = [task EXCEPT !.stage = "post", !.from = Len(trees)]
    /\ UNCHANGED <<reuseVars, row, ended, ledger, own, pending>>

Finish(status) ==
    /\ row' = [row EXCEPT !.status = status]
    /\ Release
    /\ UNCHANGED <<world, intact, runs, entries, failures, faults, ended, ledger, own,
                   pending>>

WorkFails == task.stage = "work" /\ Finish("failed")

(* Mistake: a deadline that has passed is not a failure.                       *)
PassedUnlessBad == "bad" \notin ToSet(call.rows)
Passed == Good(call.rows)

(* The code of the run is that of its first failing check: assignment_finished *)
FinishJob ==
    /\ task.stage = "post" /\ call.step \in {"done", "raised"}
    /\ Finish(IF call.step = "done" /\ Passed THEN "succeeded" ELSE "failed")

-----------------------------------------------------------------------------
(* workspace verify. *)

StartVerify(attest, force) ==
    /\ task = Idle
    /\ \A v \in own : v.run < MaxVerify
    /\ task' = [Idle EXCEPT !.kind = "verify", !.stage = "replay",
                            !.attest = attest, !.force = force]
    /\ UNCHANGED <<reuseVars, row, ended, ledger, own, pending>>

(* _publish_verifications: the oldest one goes to the ledger, ... *)
Publishing == task.stage \in {"replay", "publish"}

(* Mistake: the attempt that is in the row now.                                *)
TargetLast(v) == row.attempt
Target(v) == v.attempt

(* finished_at is the row's, or that of one entry of the history. *)
Available(v) ==
    \/ row.attempt = v.attempt /\ row.status \in {"succeeded", "failed"}
    \/ v.attempt \in ended

(* Mistake: the identity of the run is not looked for.                         *)
AppendedTwice(v) == Append(ledger[Target(v)], v.run)
Appended(v) ==
    IF v.run \in ToSet(ledger[Target(v)]) THEN ledger[Target(v)]
    ELSE Append(ledger[Target(v)], v.run)

RecordVerification ==
    /\ Publishing /\ pending # <<>>
    /\ LET v == pending[1]
       IN IF Available(v)
            THEN /\ ledger' = [ledger EXCEPT ![Target(v)] = Appended(v)]
                 /\ Stage(IF task.stage = "replay" THEN "replayed" ELSE "published")
            ELSE /\ task' = Idle
                 /\ UNCHANGED ledger
    /\ UNCHANGED <<reuseVars, row, ended, own, pending>>

(* ... then out of the copy's record. *)
DropPending ==
    /\ task.stage \in {"replayed", "published"}
    /\ pending' = Tail(pending)
    /\ Stage(IF task.stage = "replayed" THEN "replay" ELSE "publish")
    /\ UNCHANGED <<reuseVars, row, ended, ledger, own>>

(* The attempt is the one the row names, if it is terminal. *)
Associate ==
    /\ task.stage = "replay" /\ pending = <<>>
    /\ IF row.status \in {"succeeded", "failed"}
         THEN task' = [task EXCEPT !.stage = "verify", !.attempt = row.attempt]
         ELSE task' = Idle
    /\ UNCHANGED <<reuseVars, row, ended, ledger, own, pending>>

(* The run is appended and queued by one save of the copy's record, also when  *)
(* a probe has failed and no check was run.                                    *)
AppendRun ==
    /\ task.stage = "verify"
    /\ \/ call.step = "done" /\ UNCHANGED faults
       \/ call.step = "none" /\ faults < MaxFaults /\ faults' = faults + 1
    /\ LET v == [run |-> Cardinality(own) + 1, attempt |-> task.attempt]
       IN own' = own \cup {v} /\ pending' = Append(pending, v)
    /\ Stage("publish")
    /\ call' = NoCall
    /\ UNCHANGED <<world, intact, runs, entries, failures, row, ended, ledger>>

VerifyRaises ==
    /\ task.stage = "verify" /\ call.step = "raised"
    /\ Release
    /\ UNCHANGED <<world, intact, runs, entries, failures, faults, row, ended, ledger,
                   own, pending>>

VerifyEnds ==
    /\ task.stage = "publish" /\ pending = <<>>
    /\ task' = Idle
    /\ UNCHANGED <<reuseVars, row, ended, ledger, own, pending>>

-----------------------------------------------------------------------------
(* The process dies, and with it the lock; records and evidence stay. *)
Crash ==
    /\ task # Idle /\ faults < MaxFaults
    /\ faults' = faults + 1
    /\ IF call.step = "settle" THEN Unsaved ELSE UNCHANGED lost
    /\ Release
    /\ UNCHANGED <<world, intact, runs, entries, refuted, row, ended, ledger, own,
                   pending>>

Init ==
    /\ CheckInit
    /\ task = Idle /\ row = [status |-> "planned", attempt |-> 0]
    /\ ended = {} /\ ledger = [a \in 1 .. MaxAttempts |-> <<>>]
    /\ own = {} /\ pending = <<>>

Next ==
    \/ \E attest, force \in BOOLEAN : StartJob(attest, force) \/ StartVerify(attest, force)
    \/ CallChecks \/ (CheckStep /\ UNCHANGED taskVars)
    \/ BaselineFails \/ BaselineDone \/ Work \/ WorkUnchanged \/ WorkFails \/ FinishJob
    \/ RecordVerification \/ DropPending \/ Associate \/ AppendRun
    \/ VerifyRaises \/ VerifyEnds \/ Crash
    \/ ((Disturb \/ RemoveFromRoot) /\ UNCHANGED taskVars)

Spec == Init /\ [][Next]_vars

-----------------------------------------------------------------------------
(* Properties. *)

TypeOK ==
    /\ CheckTypeOK
    /\ row.status \in {"planned", "running", "succeeded", "failed"}
    /\ row.attempt \in 0 .. MaxAttempts /\ ended \subseteq 1 .. MaxAttempts
    /\ task.from \in 0 .. Len(trees) /\ task.attempt \in 0 .. MaxAttempts
    /\ DOMAIN ledger = 1 .. MaxAttempts /\ Len(pending) <= 1

(* An attempt is recorded as succeeded only if every check has passed on a     *)
(* tree that was there when the worker had ended or later: neither the         *)
(* baseline's success, which may be retained, nor a deadline that left no time *)
(* to check counts for it.                                                     *)
SuccessIsOfTheResult ==
    [][row'.status = "succeeded" /\ row.status # "succeeded" =>
         IF call.reused
           THEN \E m \in task.from .. Len(trees) : trees[m].id = call.key.tree
           ELSE /\ Len(call.rows) = Checks
                /\ \A m \in call.seen : m >= task.from]_vars

(* Every verification is kept: it is in the ledger, once, under the attempt it *)
(* was made of, or still waits to be published there - and can be, although    *)
(* the attempt may have been followed by others in between.                    *)
VerificationKept ==
    /\ \A v \in own :
         /\ v \in ToSet(pending) \/ v.run \in ToSet(ledger[v.attempt])
         /\ \A a \in DOMAIN ledger : Cardinality({i \in DOMAIN ledger[a] :
                ledger[a][i] = v.run}) <= IF a = v.attempt THEN 1 ELSE 0
    /\ \A v \in ToSet(pending) :
         Available(v)
=============================================================================
