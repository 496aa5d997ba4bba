------------------------------ MODULE TaskLedger ------------------------------
(* The ledgers of one session's tasks (coordination.py) and the lifecycle hooks *)
(* that read and write them (coordinator_hooks.py).  A prompt opens a task, a   *)
(* plan gives it deliverables, tool calls are gated and recorded, results and   *)
(* workers' rows settle them, and Stop completes or closes what is done.        *)
(*                                                                              *)
(* Each hook call is a process.  What it does under ledger.lock is one step;    *)
(* between two such steps, and between an unlocked read and the step that uses  *)
(* it, other hooks, commands and workers run.  The profile is a manual one      *)
(* (delegation 25, full access), all deliverables are of kinds that write, and  *)
(* no correction is linked.  The job behind a row is JobLifecycle's.            *)
EXTENDS FiniteSets, Naturals

CONSTANTS
    Turns,       \* turns of the session; a task's identity is a hash of its turn
    Ids,         \* deliverable identities
    Paths,       \* paths that scopes tell apart
    NoPath,      \* an edit whose targets no hook can tell
    Edits,       \* the targets of the instance's edits
    Tools,       \* tool_use_id of a call
    Hooks,       \* hook processes that may run at a time
    Plans,       \* for each task the plans the coordinator may register
    PromptAlone  \* the runtime starts nothing of the session during a prompt hook

Executors == {"coordinator", "native-agent", "worker"}
Definition == [executor : Executors \cup {"none"}, scope : SUBSET Paths]

ASSUME LedgerAssumption ==
    /\ IsFiniteSet(Turns)
    /\ NoPath \notin Paths /\ Edits \subseteq Paths \cup {NoPath}
    /\ Plans \in [Turns -> SUBSET [Ids -> Definition]]
    /\ PromptAlone \in BOOLEAN

VARIABLES
    task,     \* the ledger of each task
    hook,     \* what each hook process is about to do
    prompt,   \* the UserPromptSubmit hook
    nudged,   \* history: calls that were let inspect an unplanned task
    bound,    \* history: native dispatches that were authorized
    edited    \* history: deliverables edited since their last result

vars == <<task, hook, prompt, nudged, bound, edited>>

Item ==
    [executor : Executors \cup {"none"}, scope : SUBSET Paths,
     result : {"none", "accepted", "rework"},   \* accepted or cancelled; any other
     stale : BOOLEAN,                   \* result_invalidated_at
     dispatches : SUBSET Tools,         \* native_dispatches
     row : {"none", "planned", "running", "succeeded", "failed"},
     job : BOOLEAN,                     \* the row has a job_id
     disposition : {"none", "kept", "needs-rework"},
     final : BOOLEAN]                   \* job_finalization

Task ==
    [status : {"none", "planning", "planned", "active", "completed", "closed"},
     born : Nat,                        \* created_at
     items : [Ids -> Item],
     inspected : SUBSET Tools,          \* events of kind source_inspection
     events : BOOLEAN]                  \* other coordinator_events

Planned(d) ==
    [executor |-> d.executor, scope |-> d.scope, result |-> "none", stale |-> FALSE,
     dispatches |-> {}, row |-> IF d.executor = "worker" THEN "planned" ELSE "none",
     job |-> FALSE, disposition |-> "none", final |-> FALSE]

Absent == [executor |-> "none", scope |-> {}, result |-> "none", stale |-> FALSE,
           dispatches |-> {}, row |-> "none", job |-> FALSE,
           disposition |-> "none", final |-> FALSE]
NoItems == [i \in Ids |-> Absent]
NoTask == [status |-> "none", born |-> 0, items |-> NoItems,
           inspected |-> {}, events |-> FALSE]
Idle == [at |-> "idle"]

-----------------------------------------------------------------------------
(* Reading the ledgers. *)

Exists(t) == task[t].status # "none"
Unfinished == {t \in Turns : task[t].status \notin {"none", "completed", "closed"}}
Newest(S) == {t \in S : \A u \in S : task[u].born <= task[t].born}

(* active_task, or latest_task when all are finished *)
Current == IF Unfinished # {} THEN Newest(Unfinished)
           ELSE Newest({t \in Turns : Exists(t)})

(* A classification comes with the first plan and stays. *)
Classified(t) == task[t].status \in {"planned", "active", "completed"}

Own(x) == x.executor \in {"coordinator", "native-agent"}
Pending(x) == x.row \in {"planned", "running"}
Ended(x) == x.row \in {"succeeded", "failed"}
Touches(path, x) == x.executor # "none" /\ (path = NoPath \/ path \in x.scope)

(* A path may be edited if some deliverable of the task contains it. *)
Authorizes(t, path) ==
    path = NoPath \/ \E i \in Ids : path \in task[t].items[i].scope

Settled(x) == x.result = "accepted" /\ ~x.stale

(* completion_issues: work that no assignment tracks, and logical jobs *)
Outstanding(items) ==
    \E i \in Ids : \/ Own(items[i]) /\ ~Settled(items[i])
                   \/ items[i].job /\ ~items[i].final

(* what complete_task and the Stop hook ask of a task *)
Done(t) ==
    /\ Classified(t)
    /\ ~Outstanding(task[t].items)
    /\ \A i \in Ids : task[t].items[i].executor = "worker" =>
          Ended(task[t].items[i]) /\ task[t].items[i].disposition # "none"

(* Mistake: recorded inspections do not count as work. *)
UnplannedDraft(t) == task[t].status \in {"planning", "closed"} /\ task[t].items = NoItems

(* _unstarted_task *)
Untouched(t) ==
    /\ task[t].status \in {"planning", "closed"}
    /\ task[t].items = NoItems /\ task[t].inspected = {} /\ ~task[t].events

(* Unless PromptAlone, commands and hooks also run during a prompt hook. *)
Alone == PromptAlone => prompt.at = "idle"

-----------------------------------------------------------------------------
(* UserPromptSubmit: begin_turn.  With unfinished work it only adds the turn to *)
(* that task.  Otherwise it opens the task of the turn, or finds the one an     *)
(* earlier call opened, and writes what it got once more without the lock.      *)

PromptReads(t) ==
    /\ prompt.at = "idle" /\ Unfinished = {}
    /\ PromptAlone => \A h \in Hooks : hook[h].at = "idle"
    /\ prompt' = [at |-> "open", turn |-> t]
    /\ UNCHANGED <<task, hook, nudged, bound, edited>>

Opened == [NoTask EXCEPT !.status = "planning",
              !.born = 1 + Cardinality({t \in Turns : Exists(t)})]

PromptOpens ==
    /\ prompt.at = "open"
    /\ LET t == prompt.turn
           found == IF Exists(t) THEN task[t] ELSE Opened
       IN  /\ task' = [task EXCEPT ![t] = found]
           /\ prompt' = [at |-> "write", turn |-> t, found |-> found]
    /\ UNCHANGED <<hook, nudged, bound, edited>>

PromptWrites ==
    /\ prompt.at = "write"
    /\ task' = [task EXCEPT ![prompt.turn] = prompt.found]
    /\ prompt' = Idle
    /\ UNCHANGED <<hook, nudged, bound, edited>>

-----------------------------------------------------------------------------
(* plan_task. *)

(* _started_deliverable_ids *)
Started(x) == \/ x.row \notin {"none", "planned"} \/ x.job
              \/ x.result # "none" \/ x.dispatches # {} \/ x.stale

(* Mistake: a dispatch alone does not keep a deliverable. *)
HistoricResult(x) == (x.executor = "worker" /\ Started(x)) \/ x.result # "none"

(* historical_missing: what a revision may not leave out *)
Historic(x) == \/ x.executor = "worker" /\ Started(x)
               \/ x.result # "none" \/ x.dispatches # {}

DefinitionOf(x) == [executor |-> x.executor, scope |-> x.scope]

(* Mistake: the mark of a stale result is not carried over. *)
CarriedFresh(x) == [x EXCEPT !.stale = FALSE]

(* What has begun keeps its results and marks in a revised plan. *)
Carried(x) == x

Revised(x, d) == IF d.executor = "none" THEN Absent
                 ELSE IF Started(x) THEN Carried(x) ELSE Planned(d)

(* _reject_unlinked_overlaps: an unfinished job that needs rework keeps its scope *)
Reworked(t, scope) ==
    \E i \in Ids : LET x == task[t].items[i]
                   IN  x.disposition = "needs-rework" /\ ~x.final /\ x.scope \cap scope # {}

Plan(t, p) ==
    /\ Alone /\ Exists(t)
    /\ LET items == task[t].items
       IN  /\ \E i \in Ids : p[i] # DefinitionOf(items[i])
           /\ \A i \in Ids : LET x == items[i] IN
                 /\ Started(x) /\ p[i].executor # "none" => p[i] = DefinitionOf(x)
                 /\ Historic(x) => p[i].executor # "none"
                 /\ p[i].executor = "worker" /\ x.executor = "none" =>
                       ~Reworked(t, p[i].scope)
           /\ task' = [task EXCEPT
                 ![t].items = [i \in Ids |-> Revised(items[i], p[i])],
                 ![t].status = "planned"]
    /\ UNCHANGED <<hook, prompt, nudged, bound, edited>>

-----------------------------------------------------------------------------
(* The other commands.  Workers run beside the session's hooks. *)

SetItem(t, i, x) == task' = [task EXCEPT ![t].items[i] = x]
Only(t, i, x, status) ==
    task' = [task EXCEPT ![t].items[i] = x, ![t].status = status]

(* observe_coordinator_result: a completed task is reopened if work is left. *)
Result(t, i, outcome) ==
    LET x == [task[t].items[i] EXCEPT !.result = outcome, !.stale = FALSE]
        items == [task[t].items EXCEPT ![i] = x]
    IN  /\ Alone /\ Own(task[t].items[i])
        /\ Only(t, i, x, IF task[t].status = "completed" /\ Outstanding(items)
                         THEN "active" ELSE task[t].status)
        /\ edited' = [edited EXCEPT ![t] = @ \ {i}]
        /\ UNCHANGED <<hook, prompt, nudged, bound>>

(* assignment_preparing, by a launch that was admitted while the row was planned: *)
(* of two launches one may fail and be reviewed before the other binds its job.  *)
Prepare(t, i) ==
    LET x == task[t].items[i]
    IN  /\ x.row \in {"planned", "failed", "running"} /\ ~x.final /\ ~x.job
        /\ SetItem(t, i, [x EXCEPT !.job = TRUE])
        /\ UNCHANGED <<hook, prompt, nudged, bound, edited>>

(* assignment_preparation_failed *)
PreparationFails(t, i) ==
    LET x == task[t].items[i]
    IN  /\ x.row = "planned"
        /\ SetItem(t, i, [x EXCEPT !.row = "failed"])
        /\ UNCHANGED <<hook, prompt, nudged, bound, edited>>

(* assignment_started, on an owned copy *)
Start(t, i) ==
    LET x == task[t].items[i]
    IN  /\ x.job /\ ~x.final
        /\ x.row = "planned" \/ (x.row = "failed" /\ x.disposition # "none")
        /\ ~\E j \in Ids \ {i} :
              LET y == task[t].items[j]
              IN  y.disposition = "needs-rework" /\ ~y.final /\ y.scope \cap x.scope # {}
        /\ Only(t, i, [x EXCEPT !.row = "running", !.disposition = "none"], "active")
        /\ UNCHANGED <<hook, prompt, nudged, bound, edited>>

(* assignment_finished *)
Finish(t, i, status) ==
    /\ task[t].items[i].row = "running"
    /\ SetItem(t, i, [task[t].items[i] EXCEPT !.row = status])
    /\ UNCHANGED <<hook, prompt, nudged, bound, edited>>

(* _use_result, unless the decision is frozen *)
Use(t, i, disposition) ==
    LET x == task[t].items[i]
    IN  /\ Alone /\ Ended(x) /\ ~x.final
        /\ SetItem(t, i, [x EXCEPT !.disposition = disposition])
        /\ UNCHANGED <<hook, prompt, nudged, bound, edited>>

(* finalize_assignment; cancelling finalizes a job that needs rework too. *)
Finalize(t, i) ==
    LET x == task[t].items[i]
    IN  /\ Alone /\ Ended(x) /\ x.job /\ ~x.final /\ x.disposition # "none"
        /\ SetItem(t, i, [x EXCEPT !.final = TRUE])
        /\ UNCHANGED <<hook, prompt, nudged, bound, edited>>

(* complete_task as a command *)
Complete(t) ==
    /\ Alone /\ Done(t)
    /\ task' = [task EXCEPT ![t].status = "completed"]
    /\ UNCHANGED <<hook, prompt, nudged, bound, edited>>

-----------------------------------------------------------------------------
(* PreToolUse.  The hook reads the current task without the lock and decides    *)
(* what kind of call it is about.                                               *)

Becomes(h, next) == hook' = [hook EXCEPT ![h] = next]

Free(h) == Alone /\ hook[h].at = "idle" /\ \E t \in Turns : Exists(t)

BeginInspect(h, u) ==
    /\ Free(h)
    /\ \E t \in Current :
          /\ task[t].status = "planning"
          /\ Becomes(h, [at |-> "inspect", on |-> t, tool |-> u])
    /\ UNCHANGED <<task, prompt, nudged, bound, edited>>

BeginDispatch(h, i, u) ==
    /\ Free(h)
    /\ \E t \in Current : Becomes(h, [at |-> "dispatch", on |-> t, item |-> i, tool |-> u])
    /\ UNCHANGED <<task, prompt, nudged, bound, edited>>

(* What the deliverables authorize is decided on what was read here. *)
BeginEdit(h, path) ==
    /\ Free(h)
    /\ \E t \in Current :
          /\ Authorizes(t, path)
          /\ Becomes(h, [at |-> "validate", on |-> t, path |-> path])
    /\ UNCHANGED <<task, prompt, nudged, bound, edited>>

(* Mistake: only a repeated delivery is looked for. *)
AnyInspection(t) == TRUE

FirstInspection(t) == task[t].inspected = {}

(* _source_inspection_gate: the first recognized read of an unplanned task is *)
(* recorded and let through with a reminder; so is its repeated delivery.     *)
Inspect(h) ==
    /\ hook[h].at = "inspect" /\ Alone
    /\ LET t == hook[h].on  u == hook[h].tool
           repeated == u \in task[t].inspected
       IN  IF task[t].status = "planning" /\ (repeated \/ FirstInspection(t))
           THEN /\ task' = [task EXCEPT ![t].inspected = @ \cup {u}]
                /\ nudged' = [nudged EXCEPT ![t] = @ \cup {u}]
           ELSE UNCHANGED <<task, nudged>>
    /\ Becomes(h, Idle)
    /\ UNCHANGED <<prompt, bound, edited>>

(* _conflicting_worker *)
Conflict(t, x) ==
    \E s \in Unfinished \cup {t}, i \in Ids :
        /\ Pending(task[s].items[i])
        /\ task[s].items[i].scope \cap x.scope # {}

(* authorize_native_dispatch: one tool call belongs to one deliverable. *)
MayDispatch(t, i, u) ==
    LET x == task[t].items[i]
    IN  /\ x.executor = "native-agent"
        /\ \A s \in Turns, j \in Ids :
              u \in task[s].items[j].dispatches => s = t /\ j = i
        /\ ~Settled(x) /\ task[t].status \notin {"completed", "closed"}
        /\ ~Conflict(t, x)

Dispatch(h) ==
    /\ hook[h].at = "dispatch" /\ Alone
    /\ LET t == hook[h].on  i == hook[h].item  u == hook[h].tool
           new == u \notin task[t].items[i].dispatches
       IN  IF MayDispatch(t, i, u)
           THEN /\ bound' = bound \cup {<<u, t, i>>}
                /\ task' = IF new
                           THEN [task EXCEPT ![t].items[i].dispatches = @ \cup {u},
                                             ![t].events = TRUE, ![t].status = "active"]
                           ELSE task
           ELSE UNCHANGED <<task, bound>>
    /\ Becomes(h, Idle)
    /\ UNCHANGED <<prompt, nudged, edited>>

(* validate_task reads the ledger again *)
Validate(h) ==
    /\ hook[h].at = "validate" /\ Alone
    /\ Becomes(h, IF Classified(hook[h].on) THEN [hook[h] EXCEPT !.at = "scan"] ELSE Idle)
    /\ UNCHANGED <<task, prompt, nudged, bound, edited>>

(* All unfinished tasks are read once more: no pending worker may own the path, *)
(* and the edit will be recorded in each task it touches.                       *)
Scan(h) ==
    /\ hook[h].at = "scan" /\ Alone
    /\ LET t == hook[h].on  path == hook[h].path
           scope == IF Unfinished = {} THEN {t} ELSE Unfinished
           owned == path # NoPath /\ \E s \in scope, i \in Ids :
                       Pending(task[s].items[i]) /\ path \in task[s].items[i].scope
           left == {s \in scope : s = t \/ \E i \in Ids : Touches(path, task[s].items[i])}
       IN  Becomes(h, IF owned \/ left = {} THEN Idle
                      ELSE [at |-> "record", path |-> path, left |-> left])
    /\ UNCHANGED <<task, prompt, nudged, bound, edited>>

Invalidated(x, hit) == [x EXCEPT !.stale = @ \/ hit]

(* record_coordinator_event, task by task; after the last the edit is approved. *)
Record(h) ==
    /\ hook[h].at = "record" /\ Alone
    /\ \E t \in Newest(hook[h].left) :
       LET hit == {i \in Ids : Own(task[t].items[i])
                               /\ Touches(hook[h].path, task[t].items[i])}
           rest == hook[h].left \ {t}
       IN  /\ task' = [task EXCEPT
                 ![t].items = [i \in Ids |-> Invalidated(task[t].items[i], i \in hit)],
                 ![t].events = TRUE,
                 ![t].status = IF @ = "completed" THEN "active" ELSE @]
           /\ edited' = [edited EXCEPT ![t] = @ \cup hit]
           /\ Becomes(h, IF rest = {} THEN Idle ELSE [hook[h] EXCEPT !.left = rest])
    /\ UNCHANGED <<prompt, nudged, bound>>

-----------------------------------------------------------------------------
(* Stop: each unfinished task is closed if nothing happened in it, else judged  *)
(* without the lock and completed under it.                                     *)

BeginStop(h) ==
    /\ Free(h) /\ Unfinished # {}
    /\ Becomes(h, [at |-> "stop", left |-> Unfinished])
    /\ UNCHANGED <<task, prompt, nudged, bound, edited>>

StopNext(left) == IF left = {} THEN Idle ELSE [at |-> "stop", left |-> left]

StopCloses(h) ==
    /\ hook[h].at = "stop" /\ Alone
    /\ \E t \in Newest(hook[h].left) :
       LET rest == hook[h].left \ {t}
       IN  IF Untouched(t)
           THEN /\ task' = [task EXCEPT ![t].status = "closed"]
                /\ Becomes(h, StopNext(rest))
           ELSE /\ Becomes(h, [at |-> "judge", on |-> t, left |-> rest])
                /\ UNCHANGED task
    /\ UNCHANGED <<prompt, nudged, bound, edited>>

StopJudges(h) ==
    /\ hook[h].at = "judge" /\ Alone
    /\ Becomes(h, IF Done(hook[h].on) THEN [hook[h] EXCEPT !.at = "complete"]
                  ELSE StopNext(hook[h].left))
    /\ UNCHANGED <<task, prompt, nudged, bound, edited>>

(* Mistake: what was judged without the lock is not looked at again. *)
StillJudged(t) == TRUE

StillDone(t) == Done(t)

(* A task that is no longer done ends the hook with an error. *)
StopCompletes(h) ==
    /\ hook[h].at = "complete" /\ Alone
    /\ LET t == hook[h].on
       IN  IF StillDone(t)
           THEN /\ task' = [task EXCEPT ![t].status = "completed"]
                /\ Becomes(h, StopNext(hook[h].left))
           ELSE /\ Becomes(h, Idle)
                /\ UNCHANGED task
    /\ UNCHANGED <<prompt, nudged, bound, edited>>

-----------------------------------------------------------------------------
Init ==
    /\ task = [t \in Turns |-> NoTask]
    /\ hook = [h \in Hooks |-> Idle]
    /\ prompt = Idle
    /\ nudged = [t \in Turns |-> {}] /\ bound = {} /\ edited = [t \in Turns |-> {}]

Command ==
    \E t \in Turns :
        \/ \E p \in Plans[t] : Plan(t, p)
        \/ Complete(t)
        \/ \E i \in Ids :
              \/ \E outcome \in {"accepted", "rework"} : Result(t, i, outcome)
              \/ \E disposition \in {"kept", "needs-rework"} : Use(t, i, disposition)
              \/ Finalize(t, i)

Work ==
    \E t \in Turns, i \in Ids :
        \/ Prepare(t, i) \/ PreparationFails(t, i) \/ Start(t, i)
        \/ \E status \in {"succeeded", "failed"} : Finish(t, i, status)

Hook(h) ==
    \/ \E u \in Tools : BeginInspect(h, u) \/ \E i \in Ids : BeginDispatch(h, i, u)
    \/ \E path \in Edits : BeginEdit(h, path)
    \/ Inspect(h) \/ Dispatch(h) \/ Validate(h) \/ Scan(h) \/ Record(h)
    \/ BeginStop(h) \/ StopCloses(h) \/ StopJudges(h) \/ StopCompletes(h)

Prompt == (\E t \in Turns : PromptReads(t)) \/ PromptOpens \/ PromptWrites

Next == Prompt \/ Command \/ Work \/ \E h \in Hooks : Hook(h)

Spec == Init /\ [][Next]_vars

-----------------------------------------------------------------------------
(* Correctness. *)

(* What a hook or a prompt can be about. *)
HookState ==
    {Idle}
    \cup [at : {"inspect"}, on : Turns, tool : Tools]
    \cup [at : {"dispatch"}, on : Turns, item : Ids, tool : Tools]
    \cup [at : {"validate", "scan"}, on : Turns, path : Edits]
    \cup [at : {"record"}, path : Edits, left : SUBSET Turns]
    \cup [at : {"stop"}, left : SUBSET Turns]
    \cup [at : {"judge", "complete"}, on : Turns, left : SUBSET Turns]
PromptState ==
    {Idle} \cup [at : {"open"}, turn : Turns] \cup [at : {"write"}, turn : Turns, found : Task]

(* Ledgers and processes hold what the code can put there; exactly the workers' *)
(* deliverables have an assignment.                                             *)
TypeOK ==
    /\ task \in [Turns -> Task]
    /\ \A t \in Turns, i \in Ids :
          task[t].items[i].executor = "worker" <=> task[t].items[i].row # "none"
    /\ hook \in [Hooks -> HookState]
    /\ prompt \in PromptState
    /\ nudged \in [Turns -> SUBSET Tools]
    /\ bound \subseteq Tools \X Turns \X Ids
    /\ edited \in [Turns -> SUBSET Ids]

(* A completed task rests on results that are newer than every recorded edit of *)
(* their scope, whatever plans, hooks and commands came in between, and on rows *)
(* that ended and were reviewed (complete_task, record_coordinator_event).      *)
CompletedIsCurrent ==
    \A t \in Turns : task[t].status = "completed" =>
        \A i \in Ids :
            LET x == task[t].items[i]
            IN  /\ Own(x) => x.result = "accepted" /\ i \notin edited[t]
                /\ x.executor = "worker" => Ended(x) /\ x.disposition # "none"

(* Stop closes drafts only: no task that was planned, inspected or worked on is *)
(* closed as if nothing had happened (close_unstarted_task).                    *)
ClosedUntouched ==
    \A t \in Turns : task[t].status = "closed" =>
        task[t].items = NoItems /\ nudged[t] = {} /\ edited[t] = {}

(* However many calls of a task are gated at a time, one read of the sources is *)
(* let through before the task is planned (_source_inspection_gate).            *)
OneFreeInspection ==
    \A t \in Turns : \A u, v \in nudged[t] : u = v

(* No tool call is authorized for two deliverables, in whichever tasks and      *)
(* after whatever revisions of their plans (authorize_native_dispatch).         *)
BoundOnce ==
    \A b, c \in bound : b[1] = c[1] => b = c

(* Every edit a hook approved for a deliverable was followed by a result of it *)
(* before its task completed, also if the plan was revised in between          *)
(* (historical_missing of plan_task).                                          *)
EditsAccepted ==
    \A t \in Turns : task[t].status = "completed" => edited[t] = {}
=============================================================================
