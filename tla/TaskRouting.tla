------------------------------ MODULE TaskRouting ------------------------------
(* The ledgers of a project's tasks and what they tell the routing database and *)
(* the lessons journal (coordination.py).  A plan asks for decisions, a start   *)
(* uses them, reviews queue outcomes in the ledger (routing_feedback and        *)
(* lessons_feedback of a row), and every later call replays what the stores may *)
(* not have got.  Ledger, database and journal are separate files: a process    *)
(* that dies has written some of them.  Whoever writes a ledger holds           *)
(* ledger.lock, so that an operation is one step unless it can be cut in two.   *)
EXTENDS RoutingStore, SequencesExt

CONSTANTS
    None,
    Tasks, TaskOf,   \* the tasks and the task of each deliverable
    Definitions,     \* definitions a revised plan may give each deliverable
    UsedOutcomes,    \* outcomes the instance tells apart
    UsedResults,     \* outcomes of the coordinator's own work
    UsedGrades,      \* grades the reviews give
    MaxAttempts,     \* bound on the starts of an assignment
    MaxEvents,       \* bound on the outcomes of all outboxes
    MaxNotes         \* bound on the reviews

ASSUME LedgerAssumption ==
    /\ TaskOf \in [Owners -> Tasks]
    /\ UsedOutcomes \cup UsedResults \subseteq Outcomes /\ UsedGrades \subseteq Grades
    /\ Definitions \in [Owners -> SUBSET Nat]
    /\ MaxAttempts \in [Owners -> Nat] /\ MaxEvents \in Nat /\ MaxNotes \in Nat

VARIABLES
    plan,     \* for each task: no plan, a plan, or one marked routing_committed
    row,      \* deliverable and assignment
    replay,   \* the replay of an outbox whose caller holds ledger.lock
    journal   \* the lessons journal, in the order of its sequence numbers

ledgerVars == <<plan, row, replay, journal>>
vars == <<storeVars, ledgerVars>>

Of(t) == {o \in Owners : TaskOf[o] = t}
Free == replay = None
Reviewed(o) == row[o].status \in {"succeeded", "failed"}

Unplanned ==
    [definition |-> None, executor |-> "none", decision |-> Lost, status |-> "none",
     error |-> "none", disposition |-> "none", at |-> 0,
     attempt |-> 0, start |-> Lost, events |-> <<>>, notes |-> <<>>]

-----------------------------------------------------------------------------
(* Plans. *)

(* Mistake: a failed attempt counts as not begun. *)
StartedWhileAlive(o) == row[o].status \in {"running", "succeeded"}

(* _started_deliverable_ids: what has begun keeps its definition, its executor *)
(* and its decision.                                                           *)
Started(o) == row[o].status \notin {"none", "planned"} \/ row[o].events # <<>>

Revisions(t) == {d \in [Of(t) -> UNION {Definitions[o] : o \in Of(t)}] :
                    \A o \in Of(t) : d[o] \in Definitions[o]}
SamePlan(t, definition) == \A o \in Of(t) : row[o].definition = definition[o]

Executor(o, decision) ==
    IF Requested[o] = "auto" THEN decision.action ELSE Requested[o]

(* An unstarted deliverable gets the decision bound to its definition; an      *)
(* assignment exists only while a worker is to execute it.  The decision of    *)
(* work given to a worker by hand is read by nobody and left out.              *)
Planned(o, definition, decision, key) ==
    LET executor == Executor(o, decision)
    IN [row[o] EXCEPT !.definition = definition, !.executor = executor,
                      !.decision = IF Requested[o] = "worker" THEN None ELSE key,
                      !.status = IF executor = "worker" THEN "planned" ELSE "none"]

(* plan_task writes the ledger inside the transaction of its decisions, then    *)
(* commits, then marks the plan.  It may end at each of these points: "lost"    *)
(* leaves identities in the ledger that the database has never seen.            *)
Plan(t, definition, vetoes, reached) ==
    LET Decided(o) == Predict(PlanKey(o, definition[o]), o \in vetoes)
        new == {Decided(o) : o \in {x \in Of(t) : ~Started(x) /\ Requested[x] # "worker"}}
        Key(d) == IF reached = "lost" /\ ~Known(d.key) THEN Lost ELSE d.key
    IN /\ Free
       /\ ~(SamePlan(t, definition) /\ plan[t] = "committed")
       /\ \A o \in Of(t) : Started(o) => definition[o] = row[o].definition
       /\ row' = [o \in Owners |->
                    IF o \in Of(t) /\ ~Started(o)
                      THEN Planned(o, definition[o], Decided(o), Key(Decided(o)))
                      ELSE row[o]]
       /\ plan' = [plan EXCEPT ![t] = IF reached = "marked" THEN "committed" ELSE "open"]
       /\ decisions' = IF reached = "lost" THEN decisions ELSE decisions \cup new
       /\ UNCHANGED <<now, observed, pause, replay, journal>>

-----------------------------------------------------------------------------
(* Assignments. *)

(* assignment_started: planned, failed and reviewed, or running under a dead    *)
(* process.  A manual start asks for a decision of its own, ignores pauses and, *)
(* like a plan, may be cut off between the ledger and the commit.               *)
Start(o, committed) ==
    /\ Free
    /\ row[o].executor = "worker" /\ row[o].attempt < MaxAttempts[o]
    /\ \/ row[o].status \in {"planned", "running"}
       \/ row[o].status = "failed" /\ row[o].disposition # "none"
    /\ LET key == IF Requested[o] = "auto" THEN row[o].decision
                  ELSE StartKey(o, row[o].attempt + 1)
       IN /\ Requested[o] = "auto" => committed /\ MayStart(key)
          /\ decisions' = IF Requested[o] = "auto" \/ ~committed THEN decisions
                          ELSE decisions \cup {Predict(key, FALSE)}
          /\ row' = [row EXCEPT ![o].status = "running", ![o].error = "none",
                                ![o].disposition = "none", ![o].at = 0,
                                ![o].start = IF committed THEN key ELSE Lost,
                                ![o].attempt = @ + 1]
    /\ UNCHANGED <<now, observed, pause, plan, replay, journal>>

(* The same start given again makes the decision it had lost. *)
StartAgain(o) ==
    /\ Free /\ row[o].status = "running" /\ row[o].start = Lost
    /\ LET key == StartKey(o, row[o].attempt)
       IN /\ decisions' = decisions \cup {Predict(key, FALSE)}
          /\ row' = [row EXCEPT ![o].start = key]
    /\ UNCHANGED <<now, observed, pause, plan, replay, journal>>

Pending(events) == {i \in DOMAIN events : ~events[i].recorded}
Events == UNION {{<<o, i>> : i \in DOMAIN row[o].events} : o \in Owners}
Notes == UNION {{<<o, i>> : i \in DOMAIN row[o].notes} : o \in Owners}
Room == Cardinality(Events) < MaxEvents
NoteRoom == Cardinality(Notes) < MaxNotes

(* Mistake: an outcome like the last one replaces its entry. *)
QueuedInPlace(o, outcome, grade, decision) ==
    LET events == row[o].events
        event == [outcome |-> outcome, grade |-> grade, decision |-> decision,
                  at |-> now, recorded |-> FALSE]
    IN IF events # <<>> /\ Last(events).outcome = outcome
       THEN [events EXCEPT ![Len(events)] = event] ELSE Append(events, event)

(* _queue_feedback: an outcome like the last one is taken for a retry. *)
Queued(o, outcome, grade, decision) ==
    LET events == row[o].events
        event == [outcome |-> outcome, grade |-> grade, decision |-> decision,
                  at |-> now, recorded |-> FALSE]
    IN IF events # <<>> /\ Last(events).outcome = outcome /\ Last(events).grade = grade
       THEN events ELSE Append(events, event)

(* assignment_finished: failures are evidence of operation, not of quality.  A  *)
(* start that was cut off executes nothing; its row can only be abandoned.      *)
Succeed(o) ==
    /\ Free /\ row[o].status = "running" /\ row[o].start # Lost
    /\ row' = [row EXCEPT ![o].status = "succeeded"]
    /\ UNCHANGED <<storeVars, plan, replay, journal>>

Fail(o, outcome) ==
    /\ Free /\ row[o].status = "running" /\ Room
    /\ row[o].start = Lost => outcome = "cancelled"
    /\ row' = [row EXCEPT ![o].status = "failed", ![o].error = outcome,
                          ![o].events = Queued(o, outcome, "none", row[o].start)]
    /\ UNCHANGED <<storeVars, plan, replay, journal>>

RejectedSince(o, disposition) ==
    IF disposition # "rejected" THEN 0
    ELSE IF row[o].disposition = "rejected" THEN row[o].at ELSE now

(* use_result.  A corrected result counts as rework even if it is accepted; a   *)
(* failure of the environment stays one whatever the review says.  That a final *)
(* job takes fewer reviews and no start is in JobLifecycle.                     *)
Use(o, disposition, corrected, grade) ==
    LET reviewed == IF disposition = "accepted" /\ corrected THEN "rework" ELSE disposition
        outcome == IF row[o].error \in {"infrastructure", "cancelled"} THEN row[o].error
                   ELSE reviewed
        note == [disposition |-> disposition, corrected |-> corrected, grade |-> grade,
                 attempt |-> row[o].attempt, recorded |-> FALSE]
    IN /\ Free /\ Reviewed(o) /\ Room /\ NoteRoom
       /\ row' = [row EXCEPT ![o].disposition = disposition,
                             ![o].at = RejectedSince(o, disposition),
                             ![o].events = Queued(o, outcome, grade, row[o].start),
                             ![o].notes = Append(@, note)]
       /\ UNCHANGED <<storeVars, plan, replay, journal>>

(* observe_coordinator_result: no check that the plan was committed. *)
Result(o, outcome) ==
    /\ Free /\ row[o].executor = "coordinator" /\ Room
    /\ row' = [row EXCEPT ![o].events = Queued(o, outcome, "none", row[o].decision)]
    /\ UNCHANGED <<storeVars, plan, replay, journal>>

-----------------------------------------------------------------------------
(* Replays of the outboxes.  Each observation is a transaction of its own; the  *)
(* ledger is written once at the end.                                           *)

Event(o, i) ==
    LET event == row[o].events[i]
    IN [owner |-> o, index |-> i, by |-> row[o].executor, outcome |-> event.outcome,
        grade |-> event.grade, decision |-> event.decision, at |-> event.at]

Note(o, i) ==
    LET note == row[o].notes[i]
    IN [owner |-> o, attempt |-> note.attempt, disposition |-> note.disposition,
        corrected |-> note.corrected, grade |-> note.grade]

Outbox(o, store) == IF store = "routing" THEN row[o].events ELSE row[o].notes
Waiting(t, store) ==
    UNION {{<<o, i>> : i \in Pending(Outbox(o, store))} : o \in Of(t)}

(* Assignments come before deliverables, entries of one in their order.  The    *)
(* lessons are replayed by a caller whose replay of the routing has succeeded.  *)
IsNext(o, i) ==
    LET left == Waiting(replay.task, replay.store) \ replay.done
    IN /\ <<o, i>> \in left
       /\ \A e \in left : /\ e[1] = o => e[2] >= i
                          /\ row[e[1]].executor = "worker" => row[o].executor = "worker"

Replaying(t, store) == [task |-> t, store |-> store, done |-> {}]

Replay(t) ==
    /\ Free
    /\ \/ Waiting(t, "routing") # {} /\ replay' = Replaying(t, "routing")
       \/ /\ Waiting(t, "routing") = {} /\ Waiting(t, "lessons") # {}
          /\ replay' = Replaying(t, "lessons")
    /\ UNCHANGED <<storeVars, plan, row, journal>>

ReplayObserves(o, i) ==
    /\ ~Free /\ replay.store = "routing" /\ IsNext(o, i)
    /\ Observe(Event(o, i))
    /\ replay' = [replay EXCEPT !.done = @ \cup {<<o, i>>}]
    /\ UNCHANGED <<now, decisions, plan, row, journal>>

(* lessons.record_outcome: an event with the same key is there already. *)
ReplayNotes(o, i) ==
    /\ ~Free /\ replay.store = "lessons" /\ IsNext(o, i)
    /\ journal' = IF Contains(journal, Note(o, i)) THEN journal
                  ELSE Append(journal, Note(o, i))
    /\ replay' = [replay EXCEPT !.done = @ \cup {<<o, i>>}]
    /\ UNCHANGED <<storeVars, plan, row>>

Marked(o, entries) ==
    [i \in DOMAIN entries |->
       [entries[i] EXCEPT !.recorded = @ \/ <<o, i>> \in replay.done]]

ReplayEnds ==
    /\ ~Free /\ replay.done = Waiting(replay.task, replay.store)
    /\ row' = [o \in Owners |->
                 IF TaskOf[o] # replay.task THEN row[o]
                 ELSE IF replay.store = "routing"
                   THEN [row[o] EXCEPT !.events = Marked(o, @)]
                   ELSE [row[o] EXCEPT !.notes = Marked(o, @)]]
    /\ replay' = None
    /\ UNCHANGED <<storeVars, plan, journal>>

(* The store refuses an entry: nothing is marked, and the caller fails. *)
ReplayRefused(o, i) ==
    /\ ~Free /\ replay.store = "routing" /\ IsNext(o, i) /\ ~Accepts(Event(o, i))
    /\ replay' = None
    /\ UNCHANGED <<storeVars, plan, row, journal>>

(* The process dies between the stores. *)
ReplayDies ==
    /\ ~Free /\ replay.done # {}
    /\ replay' = None
    /\ UNCHANGED <<storeVars, plan, row, journal>>

-----------------------------------------------------------------------------
Init ==
    /\ StoreInit
    /\ plan = [t \in Tasks |-> "none"]
    /\ row = [o \in Owners |-> Unplanned]
    /\ replay = None
    /\ journal = <<>>

Planning ==
    \E t \in Tasks, reached \in {"lost", "unmarked", "marked"} :
        \E definition \in Revisions(t), vetoes \in SUBSET {o \in Of(t) : Requested[o] = "auto"} :
            Plan(t, definition, vetoes, reached)

Working(o) ==
    \/ \E committed \in BOOLEAN : Start(o, committed)
    \/ StartAgain(o) \/ Succeed(o)
    \/ \E outcome \in UsedOutcomes \ Labelled : Fail(o, outcome)
    \/ \E disposition \in UsedOutcomes \cap Labelled, corrected \in BOOLEAN, grade \in UsedGrades :
         (corrected => disposition = "accepted") /\ Use(o, disposition, corrected, grade)
    \/ \E outcome \in UsedResults : Result(o, outcome)

Replays ==
    \/ \E t \in Tasks : Replay(t)
    \/ \E e \in Events : ReplayObserves(e[1], e[2]) \/ ReplayRefused(e[1], e[2])
    \/ \E e \in Notes : ReplayNotes(e[1], e[2])
    \/ ReplayEnds \/ ReplayDies

Next ==
    \/ Tick /\ UNCHANGED ledgerVars
    \/ Planning
    \/ \E o \in Owners : Working(o)
    \/ Replays

Spec == Init /\ [][Next]_vars

-----------------------------------------------------------------------------
Decisions == [key : Keys, action : {"worker", "coordinator"}]
Observations == [owner : Owners, index : Nat, by : {"worker", "coordinator"},
                 outcome : Outcomes, grade : Grades, decision : Keys, at : Nat]
Lessons == [owner : Owners, attempt : Nat, disposition : Labelled, corrected : BOOLEAN,
            grade : Grades]
Outcome == [outcome : Outcomes, grade : Grades, decision : Keys \cup {Lost}, at : Nat,
            recorded : BOOLEAN]
Review == [disposition : Labelled, corrected : BOOLEAN, grade : Grades, attempt : Nat,
           recorded : BOOLEAN]
Rows == [definition : Nat \cup {None}, executor : {"none", "worker", "coordinator"},
         decision : Keys \cup {Lost, None},
         status : {"none", "planned", "running", "succeeded", "failed"},
         error : Outcomes \cup {"none"}, disposition : Labelled \cup {"none"}, at : Nat,
         attempt : Nat, start : Keys \cup {Lost},
         events : Seq(Outcome), notes : Seq(Review)]

(* Rows, outboxes and stores hold what the code can put there.  A decision has *)
(* one advice, and an assignment exists for a worker only.                      *)
TypeOK ==
    /\ now \in 0 .. MaxTime
    /\ decisions \subseteq Decisions
    /\ \A d, e \in decisions : d.key = e.key => d = e
    /\ observed \subseteq Observations
    /\ pause \in [Families -> 0 .. MaxTime + Window]
    /\ plan \in [Tasks -> {"none", "open", "committed"}]
    /\ row \in [Owners -> Rows]
    /\ \A o \in Owners :
         /\ row[o].status # "none" => row[o].executor = "worker"
         /\ row[o].attempt \in 0 .. MaxAttempts[o]
    /\ journal \in Seq(Lessons)
    /\ \/ replay = None
       \/ /\ replay \in [task : Tasks, store : {"routing", "lessons"},
                         done : SUBSET (Owners \X Nat)]
          /\ replay.done \subseteq Waiting(replay.task, replay.store)

(* However often a replay dies between the stores and is begun again, each      *)
(* entry of an outbox is in its store exactly once, with the content it was     *)
(* queued with, as soon as it is marked; the stores hold nothing else           *)
(* (sync_routing_feedback, sync_lessons_feedback).                              *)
CountedOnce ==
    /\ \A r \in observed : r.index \in DOMAIN row[r.owner].events
                           /\ r = Event(r.owner, r.index)
    /\ \A o \in Owners :
         /\ \A i \in DOMAIN row[o].events : row[o].events[i].recorded => Event(o, i) \in observed
         /\ \A i \in DOMAIN row[o].notes : row[o].notes[i].recorded => Contains(journal, Note(o, i))
    /\ IsInjective(journal)

(* The database refuses an entry of an outbox, and by that blocks every later   *)
(* one of the task, only if a plan or a start was cut off between ledger and    *)
(* commit and its outcome was recorded before it was given again.               *)
OnlyLostPlansBlock ==
    \A t \in Tasks : \A e \in Waiting(t, "routing") :
        ~Accepts(Event(e[1], e[2])) => Event(e[1], e[2]).decision = Lost

(* Whatever is planned again, revised or cut off, an attempt that executed has  *)
(* its decision in the database; an automatic one runs and is judged under the  *)
(* decision its deliverable still carries, which gave it to a worker.           *)
RunsAsDecided ==
    \A o \in Owners : row[o].attempt > 0 =>
        /\ row[o].status = "succeeded" => Known(row[o].start) /\ row[o].start.owner = o
        /\ Requested[o] = "auto" => /\ Known(row[o].start) /\ row[o].start = row[o].decision
                                    /\ row[o].decision = PlanKey(o, row[o].definition)
                                    /\ Recorded(row[o].start).action = "worker"

(* No automatic start while a rejection the database knows of is recent: a late *)
(* outcome replayed in between never shortens the pause.  A rejection counts if *)
(* it is graded as a failure or nothing in its case is graded                   *)
(* (record_outcome, validate_start).                                            *)
PausedAfterRejection ==
    [][\A o \in Owners :
         row'[o].attempt # row[o].attempt /\ Requested[o] = "auto" =>
           \A r \in observed :
             /\ Family[r.owner] = Family[o] /\ r.by = "worker" /\ r.outcome = "rejected"
             /\ r.grade = "major" \/ \A q \in CaseOf(r.owner, observed) : q.grade = "none"
             => r.at + Window <= now]_vars

(* "A rejection [...] within the cooldown window pause[s] the family"           *)
(* (docs/ROUTING.md:165): once the outbox of the task is empty, the family of a *)
(* rejected attempt is paused from the rejection on.                            *)
RejectionPauses ==
    \A o \in Owners :
        /\ row[o].disposition = "rejected" /\ row[o].error \notin {"infrastructure", "cancelled"}
        /\ \A e \in DOMAIN row[o].events : row[o].events[e].grade = "none"
        /\ Waiting(TaskOf[o], "routing") = {}
        => pause[Family[o]] >= row[o].at + Window
=============================================================================
