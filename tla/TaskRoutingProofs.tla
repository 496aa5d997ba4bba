------------------------- MODULE TaskRoutingProofs -------------------------
(* What holds of ledger, database and journal for any number of tasks and       *)
(* deliverables: an inductive invariant, one lemma per action, the properties.  *)
EXTENDS TaskRouting, SequenceTheorems, TLAPS

(* A decision a row relies on is one of its own, or one that was lost. *)
Holds(o, key) == key = Lost \/ (Known(key) /\ key.owner = o)

(* What an assignment ran and runs under. *)
RowOK(o) ==
    /\ row[o].status \in {"running", "succeeded", "failed"} <=> row[o].attempt > 0
    /\ row[o].executor = "none" => row[o].status = "none" /\ row[o].events = <<>>
    /\ row[o].executor = "coordinator" => Requested[o] # "worker"
    /\ row[o].executor # "none" /\ Requested[o] # "worker" =>
         \/ row[o].decision = Lost
         \/ row[o].decision = PlanKey(o, row[o].definition) /\ Known(row[o].decision)
    /\ Holds(o, row[o].start)
    /\ row[o].status = "succeeded" => row[o].start # Lost
    /\ Requested[o] = "auto" /\ row[o].attempt > 0 =>
         /\ row[o].start # Lost /\ row[o].start = row[o].decision
         /\ Recorded(row[o].start).action = "worker"
RowInv == \A o \in Owners : RowOK(o)

(* Outcomes wait in the order of their time, and the database has a prefix.  *)
OutboxInv ==
    \A o \in Owners : \A i \in DOMAIN row[o].events :
        LET event == row[o].events[i]
        IN /\ Holds(o, event.decision)
           /\ event.at <= now
           /\ \A j \in DOMAIN row[o].events : i <= j => event.at <= row[o].events[j].at
           /\ event.recorded => Event(o, i) \in observed
           /\ \A j \in DOMAIN row[o].events :
                i < j /\ Event(o, j) \in observed => Event(o, i) \in observed

(* A marked review is in the journal, which holds nothing twice. *)
NotesInv ==
    /\ IsInjective(journal)
    /\ \A o \in Owners : \A i \in DOMAIN row[o].notes :
         row[o].notes[i].recorded => Contains(journal, Note(o, i))

(* What is observed was queued, and its decision is recorded. *)
ObservedInv ==
    \A r \in observed :
        /\ r.index \in DOMAIN row[r.owner].events /\ r = Event(r.owner, r.index)
        /\ Known(r.decision)

(* A replay has written what it is going to mark. *)
ReplayInv ==
    replay # None =>
        \A e \in replay.done :
            IF replay.store = "routing" THEN Event(e[1], e[2]) \in observed
            ELSE Contains(journal, Note(e[1], e[2]))

(* A rejection that counts pauses its family for the window. *)
PauseInv ==
    \A r \in observed :
        /\ r.by = "worker" /\ r.outcome = "rejected"
        /\ r.grade = "major" \/ \A q \in CaseOf(r.owner, observed) : q.grade = "none"
        => pause[Family[r.owner]] >= r.at + Window

IInv == /\ TypeOK /\ RowInv /\ OutboxInv /\ NotesInv /\ ObservedInv /\ ReplayInv /\ PauseInv

-----------------------------------------------------------------------------
(* Lemmas about the operators. *)

(* The larger of two numbers, of the choice Max makes. *)
LEMMA MaxOfTwo ==
  ASSUME NEW a \in Int, NEW b \in Int
  PROVE  /\ Max({a, b}) \in {a, b}
         /\ Max({a, b}) >= a /\ Max({a, b}) >= b
<1>1. \E x \in {a, b} : \A y \in {a, b} : x >= y
  <2>1. CASE a >= b BY <2>1
  <2>2. CASE b >= a BY <2>2
  <2>3. QED BY <2>1, <2>2
<1>2. QED BY <1>1 DEF Max

(* The decision of a key is found, and the one that is made has this key. *)
LEMMA RecordedIs ==
  ASSUME NEW key, Known(key)
  PROVE  Recorded(key) \in decisions /\ Recorded(key).key = key
BY DEF Known, Recorded

(* predict answers with a decision for the key it was asked for. *)
LEMMA PredictIs ==
  ASSUME decisions \subseteq Decisions, NEW key \in Keys, NEW veto \in BOOLEAN
  PROVE  /\ Predict(key, veto) \in Decisions /\ Predict(key, veto).key = key
         /\ Known(key) => Predict(key, veto) = Recorded(key)
<1>1. CASE Known(key)
  BY <1>1, RecordedIs DEF Predict
<1>2. CASE ~Known(key)
  BY <1>2 DEF Predict, Decisions
<1>3. QED BY <1>1, <1>2

(* A lost identity is none the database holds. *)
LEMMA LostUnknown ==
  ASSUME decisions \subseteq Decisions
  PROVE  /\ ~Known(Lost)
         /\ \A key : Known(key) => key \in Keys
BY LostAssumption DEF Known, Decisions

(* What was decided stays decided. *)
Grown == decisions \subseteq decisions'

(* What was decided stays decided. *)
LEMMA StillHeld ==
  ASSUME Grown, NEW o, NEW key, Holds(o, key)
  PROVE  Holds(o, key)'
BY DEF Grown, Holds, Known

(* The identities of plans and starts are keys of their owner. *)
LEMMA KeysAre ==
  ASSUME NEW o \in Owners, NEW n \in Nat
  PROVE  /\ PlanKey(o, n) \in Keys /\ PlanKey(o, n).owner = o
         /\ StartKey(o, n) \in Keys /\ StartKey(o, n).owner = o
BY DEF PlanKey, StartKey, Keys

(* What waits are the unrecorded entries of the task's outboxes. *)
LEMMA WaitingIs ==
  ASSUME NEW t, NEW store, NEW e
  PROVE  e \in Waiting(t, store) <=>
           \E o \in Of(t) : \E i \in DOMAIN Outbox(o, store) :
              e = <<o, i>> /\ ~Outbox(o, store)[i].recorded
BY DEF Waiting, Pending

-----------------------------------------------------------------------------
(* Steps that leave an outbox as it is, or append an outcome of this moment    *)
(* under a decision its row holds.                                             *)

Kept(o) ==
    /\ row'[o].events = row[o].events
    /\ row[o].events # <<>> => row'[o].executor = row[o].executor
Extended(o) ==
    \E e \in Outcome :
        /\ row'[o].events = Append(row[o].events, e)
        /\ e.at = now /\ ~e.recorded /\ Holds(o, e.decision)
        /\ row'[o].executor = row[o].executor
OutboxStep ==
    /\ \A o \in Owners : Kept(o) \/ Extended(o)
    /\ observed' = observed /\ Grown /\ now' \in Nat /\ now' >= now

(* Rows and their outboxes have their types. *)
LEMMA RowTyped ==
  ASSUME TypeOK, NEW o \in Owners
  PROVE  /\ row[o] \in Rows
         /\ row[o].events \in Seq(Outcome) /\ row[o].notes \in Seq(Review)
         /\ DOMAIN row[o].events = 1 .. Len(row[o].events)
         /\ DOMAIN row[o].notes = 1 .. Len(row[o].notes)
         /\ Len(row[o].events) \in Nat /\ Len(row[o].notes) \in Nat
         /\ \A i \in DOMAIN row[o].events : row[o].events[i] \in Outcome
         /\ \A i \in DOMAIN row[o].notes : row[o].notes[i] \in Review
<1>1. row[o] \in Rows BY DEF TypeOK
<1>2. row[o].events \in Seq(Outcome) /\ row[o].notes \in Seq(Review)
  BY <1>1 DEF Rows
<1>3. QED BY <1>1, <1>2

(* Such a step changes no entry that is there. *)
LEMMA OldEntryStays ==
  ASSUME TypeOK, NEW o \in Owners, Kept(o) \/ Extended(o), NEW i \in DOMAIN row[o].events
  PROVE  /\ i \in DOMAIN row'[o].events /\ row'[o].events[i] = row[o].events[i]
         /\ Event(o, i)' = Event(o, i)
<1> DEFINE s == row[o].events
<1>1. /\ s \in Seq(Outcome) /\ i \in 1 .. Len(s) /\ s # <<>>
  BY RowTyped
<1>2. /\ i \in DOMAIN row'[o].events /\ row'[o].events[i] = s[i]
      /\ row'[o].executor = row[o].executor
  <2>1. CASE Kept(o) BY <2>1, <1>1 DEF Kept
  <2>2. CASE Extended(o)
    <3>1. PICK e \in Outcome : row'[o].events = Append(s, e) /\ row'[o].executor = row[o].executor
      BY <2>2 DEF Extended
    <3> HIDE DEF s
    <3>2. QED BY <3>1, <1>1, AppendProperties
  <2>3. QED BY <2>1, <2>2
<1>3. QED BY <1>2 DEF Event

(* The entry it adds is the last, of this moment and unrecorded. *)
LEMMA NewEntryIs ==
  ASSUME TypeOK, NEW o \in Owners, Kept(o) \/ Extended(o),
         NEW i \in DOMAIN row'[o].events, i \notin DOMAIN row[o].events
  PROVE  /\ row'[o].events[i] \in Outcome /\ row'[o].events[i].at = now
         /\ ~row'[o].events[i].recorded /\ Holds(o, row'[o].events[i].decision)
         /\ i = Len(row[o].events) + 1
         /\ DOMAIN row'[o].events = 1 .. i
<1> DEFINE s == row[o].events
<1>1. s \in Seq(Outcome) /\ DOMAIN s = 1 .. Len(s) /\ Len(s) \in Nat
  BY RowTyped
<1>2. Extended(o) BY DEF Kept
<1>3. PICK e \in Outcome : /\ row'[o].events = Append(s, e) /\ e.at = now
                           /\ ~e.recorded /\ Holds(o, e.decision)
  BY <1>2 DEF Extended
<1> HIDE DEF s
<1>4. /\ DOMAIN row'[o].events = 1 .. Len(s) + 1 /\ row'[o].events[Len(s) + 1] = e
  BY <1>1, <1>3, AppendProperties
<1>5. i = Len(s) + 1 BY <1>1, <1>4 DEF s
<1>6. QED BY <1>1, <1>3, <1>4, <1>5 DEF s

(* Such steps keep the outboxes in order and the database backed by them. *)
LEMMA OutboxKept ==
  ASSUME TypeOK, OutboxInv, ObservedInv, OutboxStep
  PROVE  OutboxInv' /\ ObservedInv'
<1>1. \A o \in Owners : Kept(o) \/ Extended(o) BY DEF OutboxStep
<1>2. ObservedInv'
  <2> SUFFICES ASSUME NEW r \in observed
               PROVE  /\ r.index \in DOMAIN row'[r.owner].events /\ r = Event(r.owner, r.index)'
                      /\ Known(r.decision)'
    BY DEF ObservedInv, OutboxStep
  <2>1. /\ r.owner \in Owners /\ r.index \in DOMAIN row[r.owner].events
        /\ r = Event(r.owner, r.index) /\ Known(r.decision)
    BY DEF ObservedInv, TypeOK, Observations
  <2>2. QED BY <2>1, <1>1, OldEntryStays DEF OutboxStep, Grown, Known
<1>3. OutboxInv'
  <2> SUFFICES ASSUME NEW o \in Owners, NEW i \in DOMAIN row'[o].events
               PROVE /\ Holds(o, row[o].events[i].decision)'
                     /\ row'[o].events[i].at <= now'
                     /\ \A j \in DOMAIN row'[o].events :
                          i <= j => row'[o].events[i].at <= row'[o].events[j].at
                     /\ row'[o].events[i].recorded => Event(o, i)' \in observed'
                     /\ \A j \in DOMAIN row'[o].events :
                          i < j /\ Event(o, j)' \in observed' => Event(o, i)' \in observed'
    BY DEF OutboxInv
  <2>1. /\ observed' = observed /\ Grown /\ now' \in Nat /\ now' >= now /\ now \in Nat
        /\ Kept(o) \/ Extended(o)
    BY StoreAssumption DEF OutboxStep, TypeOK
  <2>2. \A j \in DOMAIN row[o].events :
          /\ j \in DOMAIN row'[o].events /\ row'[o].events[j] = row[o].events[j]
          /\ Event(o, j)' = Event(o, j)
    BY <2>1, OldEntryStays
  <2>3. \A j \in DOMAIN row'[o].events \ DOMAIN row[o].events :
          /\ row'[o].events[j].at = now /\ j = Len(row[o].events) + 1
          /\ ~row'[o].events[j].recorded /\ Holds(o, row'[o].events[j].decision)
          /\ Event(o, j)' \notin observed
    <3>1. SUFFICES ASSUME NEW j \in DOMAIN row'[o].events \ DOMAIN row[o].events
                   PROVE  Event(o, j)' \notin observed
      BY <2>1, NewEntryIs
    <3>2. Event(o, j)'.owner = o /\ Event(o, j)'.index = j BY DEF Event
    <3>3. QED BY <3>2 DEF ObservedInv
  <2>4. /\ DOMAIN row[o].events = 1 .. Len(row[o].events) /\ Len(row[o].events) \in Nat
        /\ \A j \in DOMAIN row[o].events : row[o].events[j].at \in Nat
    BY RowTyped DEF Outcome
  <2>5. CASE i \in DOMAIN row[o].events
    <3>1. /\ Holds(o, row[o].events[i].decision) /\ row[o].events[i].at <= now
          /\ \A j \in DOMAIN row[o].events : i <= j => row[o].events[i].at <= row[o].events[j].at
          /\ row[o].events[i].recorded => Event(o, i) \in observed
          /\ \A j \in DOMAIN row[o].events :
                i < j /\ Event(o, j) \in observed => Event(o, i) \in observed
      BY <2>5 DEF OutboxInv
    <3>2. row'[o].events[i] = row[o].events[i] /\ Event(o, i)' = Event(o, i)
      BY <2>5, <2>2
    <3>3. Holds(o, row[o].events[i].decision)'
      <4>1. Holds(o, row[o].events[i].decision) BY <3>1
      <4>2. Holds(o, row'[o].events[i].decision) BY <4>1, <3>2
      <4>3. QED BY <4>2, <2>1 DEF Holds, Known, Grown
    <3>4. \A j \in DOMAIN row'[o].events :
             i <= j => row'[o].events[i].at <= row'[o].events[j].at
      BY <3>1, <3>2, <2>2, <2>3
    <3>5. \A j \in DOMAIN row'[o].events :
             i < j /\ Event(o, j)' \in observed => Event(o, i)' \in observed
      BY <3>1, <3>2, <2>2, <2>3
    <3>6. row'[o].events[i].at <= now' BY SMT, <3>1, <3>2, <2>1, <2>4, <2>5
    <3>7. QED BY <3>1, <3>2, <3>3, <3>4, <3>5, <3>6, <2>1
  <2>6. CASE i \notin DOMAIN row[o].events
    <3>1. Holds(o, row[o].events[i].decision)'
      BY <2>6, <2>3, <2>1 DEF Holds, Known, Grown
    <3>2. \A j \in DOMAIN row'[o].events : i <= j => j = i
      BY <2>6, <2>3, <2>4
    <3>3. \A j \in DOMAIN row'[o].events : i < j => FALSE
      BY <2>6, <2>3, <2>4
    <3>4. row'[o].events[i].at = now /\ ~row'[o].events[i].recorded BY <2>6, <2>3
    <3>5. QED BY <3>1, <3>2, <3>3, <3>4, <2>1
  <2>7. QED BY <2>5, <2>6
<1>4. QED BY <1>2, <1>3

-----------------------------------------------------------------------------
(* Steps that write rows. *)

NotesKept(o) ==
    \/ row'[o].notes = row[o].notes
    \/ \E n \in Review : row'[o].notes = Append(row[o].notes, n) /\ ~n.recorded

Unique == \A d, e \in decisions : d.key = e.key => d = e

(* All a step that writes rows has to be shown to keep. *)
RowStep ==
    /\ Free
    /\ UNCHANGED <<now, observed, pause, replay, journal>>
    /\ Grown /\ decisions' \subseteq Decisions /\ Unique'
    /\ plan' \in [Tasks -> {"none", "open", "committed"}]
    /\ row' \in [Owners -> Rows]
    /\ \A o \in Owners :
         /\ row'[o] = row[o] \/ RowOK(o)'
         /\ row'[o].status # "none" => row'[o].executor = "worker"
         /\ row'[o].attempt \in 0 .. MaxAttempts[o]
         /\ Kept(o) \/ Extended(o)
         /\ NotesKept(o)

(* A review appended unrecorded leaves the journal true. *)
LEMMA NotesStay ==
  ASSUME TypeOK, NotesInv, journal' = journal, \A o \in Owners : NotesKept(o)
  PROVE  NotesInv'
<1> SUFFICES ASSUME NEW o \in Owners, NEW i \in DOMAIN row'[o].notes, row'[o].notes[i].recorded
             PROVE  Contains(journal, Note(o, i)')
  BY DEF NotesInv, Contains, IsInjective
<1> DEFINE s == row[o].notes
<1>1. s \in Seq(Review) /\ DOMAIN s = 1 .. Len(s) /\ Len(s) \in Nat
  BY RowTyped
<1>2. i \in DOMAIN s /\ row'[o].notes[i] = s[i]
  <2>1. CASE row'[o].notes = s BY <2>1
  <2>2. CASE \E n \in Review : row'[o].notes = Append(s, n) /\ ~n.recorded
    <3> HIDE DEF s
    <3>1. QED BY <2>2, <1>1, AppendProperties
  <2>3. QED BY <2>1, <2>2 DEF NotesKept
<1>3. Note(o, i)' = Note(o, i) BY <1>2 DEF Note
<1>4. QED BY <1>2, <1>3 DEF NotesInv

(* A row stays right while decisions are only added. *)
LEMMA SameRow ==
  ASSUME NEW o \in Owners, RowOK(o), row'[o] = row[o], Grown, Unique'
  PROVE  RowOK(o)'
<1>1. Holds(o, row[o].start)' BY StillHeld DEF RowOK, Holds, Known, Grown
<1>2. Known(row[o].decision) => Known(row[o].decision)' BY DEF Known, Grown
<1>3. row[o].start # Lost => Recorded(row[o].start)' = Recorded(row[o].start)
  <2>1. SUFFICES ASSUME row[o].start # Lost PROVE Recorded(row[o].start)' = Recorded(row[o].start)
    OBVIOUS
  <2>2. Known(row[o].start) BY <2>1 DEF RowOK, Holds
  <2> DEFINE key == row[o].start
  <2>3. key' = key OBVIOUS
  <2>4. Recorded(key) \in decisions' /\ Recorded(key).key = key
    BY <2>2, RecordedIs DEF Grown
  <2>5. Recorded(key)' \in decisions' /\ Recorded(key)'.key = key
    BY <2>4, <2>3 DEF Recorded
  <2>6. QED BY <2>4, <2>5 DEF Unique
<1>4. QED BY <1>1, <1>2, <1>3 DEF RowOK, PlanKey

(* A step of this form keeps the inductive invariant. *)
LEMMA RowStepKeeps == IInv /\ RowStep => IInv'
<1> SUFFICES ASSUME IInv, RowStep PROVE IInv'
  OBVIOUS
<1> USE DEF IInv
<1>1. RowInv' BY SameRow DEF RowInv, RowStep
<1>2. TypeOK' BY DEF TypeOK, RowStep, Unique, Free
<1>3. OutboxInv' /\ ObservedInv'
  <2>1. now \in Nat BY StoreAssumption DEF TypeOK
  <2>2. OutboxStep BY <2>1 DEF OutboxStep, RowStep
  <2>3. QED BY <2>2, OutboxKept
<1>4. NotesInv' BY NotesStay DEF RowStep
<1>5. ReplayInv' BY DEF ReplayInv, RowStep, Free
<1>6. PauseInv' BY DEF PauseInv, CaseOf, RowStep
<1>7. QED BY <1>1, <1>2, <1>3, <1>4, <1>5, <1>6

-----------------------------------------------------------------------------
(* Plans. *)

(* A decision predicted and recorded is the only one of its key. *)
LEMMA OneMoreDecision ==
  ASSUME decisions \subseteq Decisions, Unique, NEW key \in Keys, NEW veto \in BOOLEAN,
         decisions' = decisions \cup {Predict(key, veto)}
  PROVE  /\ Grown /\ decisions' \subseteq Decisions /\ Unique' /\ Known(key)'
<1>1. /\ Predict(key, veto) \in Decisions /\ Predict(key, veto).key = key
      /\ Known(key) => Predict(key, veto) = Recorded(key)
  BY PredictIs
<1>2. Unique'
  <2>1. CASE Known(key) BY <2>1, <1>1, RecordedIs DEF Unique
  <2>2. CASE ~Known(key) BY <2>2, <1>1 DEF Unique, Known
  <2>3. QED BY <2>1, <2>2
<1>3. QED BY <1>1, <1>2 DEF Grown, Known

(* plan_task, wherever it is cut off. *)
LEMMA PlanKeeps ==
  ASSUME IInv, NEW t \in Tasks, NEW definition \in Revisions(t), NEW vetoes,
         NEW reached \in {"lost", "unmarked", "marked"}, Plan(t, definition, vetoes, reached)
  PROVE  IInv'
<1> DEFINE Decided(o) == Predict(PlanKey(o, definition[o]), o \in vetoes)
           Mine == {x \in Of(t) : ~Started(x) /\ Requested[x] # "worker"}
           new == {Decided(o) : o \in Mine}
           Key(d) == IF reached = "lost" /\ ~Known(d.key) THEN Lost ELSE d.key
<1>1. TypeOK /\ RowInv BY DEF IInv
<1>2. \A o \in Of(t) : o \in Owners /\ definition[o] \in Nat
  BY LedgerAssumption DEF Of, Revisions
<1>3. \A o \in Of(t) : /\ Decided(o) \in Decisions /\ Decided(o).key = PlanKey(o, definition[o])
                       /\ Known(PlanKey(o, definition[o])) =>
                            Decided(o) \in decisions
  <2> SUFFICES ASSUME NEW o \in Of(t)
               PROVE  /\ Decided(o) \in Decisions /\ Decided(o).key = PlanKey(o, definition[o])
                      /\ Known(PlanKey(o, definition[o])) => Decided(o) \in decisions
    OBVIOUS
  <2>1. PlanKey(o, definition[o]) \in Keys BY <1>2, KeysAre
  <2>2. (o \in vetoes) \in BOOLEAN OBVIOUS
  <2>3. decisions \subseteq Decisions BY <1>1 DEF TypeOK
  <2>4. /\ Decided(o) \in Decisions /\ Decided(o).key = PlanKey(o, definition[o])
        /\ Known(PlanKey(o, definition[o])) => Decided(o) = Recorded(PlanKey(o, definition[o]))
    BY <2>1, <2>2, <2>3, PredictIs
  <2> HIDE DEF Decided
  <2>5. QED BY <2>4, RecordedIs
<1>4. decisions' = decisions \/ decisions' = decisions \cup new
  BY DEF Plan
<1>5. Grown /\ decisions' \subseteq Decisions
  BY <1>1, <1>3, <1>4 DEF Grown, TypeOK
<1>6. Unique'
  <2>1. \A o \in Mine, d \in decisions : Decided(o).key = d.key => Decided(o) = d
    BY <1>1, <1>3 DEF Known, TypeOK
  <2>2. \A o, x \in Mine : Decided(o).key = Decided(x).key => o = x
    BY <1>2, <1>3, KeysAre
  <2> HIDE DEF Mine, Decided
  <2>3. QED BY <2>1, <2>2, <1>1, <1>4 DEF Unique, TypeOK
<1>7. \A o \in Mine : Key(Decided(o)) = Lost
                      \/ (Key(Decided(o)) = PlanKey(o, definition[o]) /\ Known(PlanKey(o, definition[o]))')
  <2>1. SUFFICES ASSUME NEW o \in Mine, Key(Decided(o)) # Lost
                 PROVE Key(Decided(o)) = PlanKey(o, definition[o])
                       /\ Known(PlanKey(o, definition[o]))'
    OBVIOUS
  <2>2. Key(Decided(o)) = PlanKey(o, definition[o]) BY <2>1, <1>3
  <2>3. Decided(o) \in decisions'
    BY <2>1, <1>3 DEF Plan, Known
  <2> HIDE DEF Decided
  <2>4. Known(PlanKey(o, definition[o]))' BY <2>3, <1>3 DEF Known
  <2>5. QED BY <2>2, <2>4
<1>8. ASSUME NEW o \in Owners
      PROVE  /\ row'[o] \in Rows
             /\ row'[o] = row[o] \/ RowOK(o)'
             /\ row'[o].status # "none" => row'[o].executor = "worker"
             /\ row'[o].attempt \in 0 .. MaxAttempts[o]
             /\ Kept(o) /\ NotesKept(o)
  <2>1. CASE o \in Of(t) /\ ~Started(o)
    <3>1. row'[o] = Planned(o, definition[o], Decided(o), Key(Decided(o)))
      BY <2>1 DEF Plan
    <3>2. /\ row[o] \in Rows /\ row[o].events = <<>> /\ row[o].status \in {"none", "planned"}
          /\ row[o].attempt = 0 /\ RowOK(o)
      BY <2>1, <1>1, RowTyped DEF Started, RowInv, RowOK, Rows
    <3>3. Executor(o, Decided(o)) \in {"worker", "coordinator"}
      BY <2>1, <1>3, StoreAssumption DEF Executor, Decisions
    <3>4. Requested[o] # "worker" => Key(Decided(o)) \in Keys \cup {Lost}
      BY <2>1, <1>2, <1>3, KeysAre
    <3>5. PICK k \in Keys \cup {Lost, None} :
              /\ row'[o] = [row[o] EXCEPT !.definition = definition[o],
                              !.executor = Executor(o, Decided(o)), !.decision = k,
                              !.status = IF Executor(o, Decided(o)) = "worker"
                                         THEN "planned" ELSE "none"]
              /\ Requested[o] # "worker" => k = Key(Decided(o))
      BY Zenon, <3>1, <3>4 DEF Planned
    <3> DEFINE ex == Executor(o, Decided(o))
    <3>6. definition[o] \in Nat BY <2>1, <1>2
    <3>7. Requested[o] # "worker" => k = Lost
                      \/ (k = PlanKey(o, definition[o]) /\ Known(k)')
      BY <3>5, <1>7, <2>1
    <3>8. ex = "coordinator" => Requested[o] # "worker" BY DEF Executor
    <3> HIDE DEF ex, Decided, Key
    <3>9. /\ row'[o].definition = definition[o] /\ row'[o].executor = ex
          /\ row'[o].decision = k /\ row'[o].status = IF ex = "worker" THEN "planned" ELSE "none"
          /\ row'[o].events = row[o].events /\ row'[o].notes = row[o].notes
          /\ row'[o].attempt = row[o].attempt /\ row'[o].start = row[o].start
          /\ row'[o] \in Rows
      BY ZenonT(60), <3>2, <3>3, <3>5, <3>6 DEF Rows, ex
    <3>10. Holds(o, row[o].start)' BY <3>2, <3>9, <1>5 DEF RowOK, Holds, Known, Grown
    <3>11. RowOK(o)'
      BY <3>2, <3>3, <3>7, <3>8, <3>9, <3>10 DEF RowOK, ex, PlanKey
    <3>12. row'[o].attempt \in 0 .. MaxAttempts[o] BY <3>2, <3>9, <1>1 DEF TypeOK
    <3>13. QED BY <3>2, <3>3, <3>9, <3>11, <3>12 DEF Kept, NotesKept, ex
  <2>2. CASE ~(o \in Of(t) /\ ~Started(o))
    <3>1. row'[o] = row[o] BY <2>2 DEF Plan
    <3>2. QED BY <3>1, <1>1, RowTyped DEF Kept, NotesKept, TypeOK
  <2>3. QED BY <2>1, <2>2
<1>9. row' \in [Owners -> Rows]
  <2>1. row' = [o \in Owners |-> row'[o]] BY DEF Plan
  <2>2. QED BY <2>1, <1>8
<1>10. plan' \in [Tasks -> {"none", "open", "committed"}]
  BY <1>1 DEF Plan, TypeOK
<1>11. RowStep BY <1>5, <1>6, <1>8, <1>9, <1>10 DEF Plan, RowStep
<1>12. QED BY <1>11, RowStepKeeps

-----------------------------------------------------------------------------
(* Steps that write one row. *)

OneRow(o) ==
    /\ Free
    /\ UNCHANGED <<now, observed, pause, plan, replay, journal>>
    /\ row' = [row EXCEPT ![o] = row'[o]]
    /\ row'[o] \in Rows /\ RowOK(o)'
    /\ row'[o].status # "none" => row'[o].executor = "worker"
    /\ row'[o].attempt \in 0 .. MaxAttempts[o]
    /\ Kept(o) \/ Extended(o)
    /\ NotesKept(o)

(* A step of this form that writes one row. *)
LEMMA OneRowKeeps ==
  ASSUME IInv, NEW o \in Owners, OneRow(o), Grown, decisions' \subseteq Decisions, Unique'
  PROVE  IInv'
<1>1. TypeOK /\ RowInv BY DEF IInv
<1>2. \A x \in Owners \ {o} : row'[x] = row[x] BY <1>1 DEF OneRow, TypeOK
<1>3. row' \in [Owners -> Rows] BY <1>1 DEF OneRow, TypeOK
<1>4. \A x \in Owners \ {o} :
         /\ row'[x].status # "none" => row'[x].executor = "worker"
         /\ row'[x].attempt \in 0 .. MaxAttempts[x]
         /\ Kept(x) /\ NotesKept(x)
  BY <1>1, <1>2 DEF TypeOK, Kept, NotesKept
<1>5. RowStep BY <1>1, <1>2, <1>3, <1>4 DEF OneRow, RowStep, TypeOK
<1>6. QED BY <1>5, RowStepKeeps

(* What is known of a row before a step. *)
LEMMA RowFacts ==
  ASSUME IInv, NEW o \in Owners
  PROVE  /\ row[o] \in Rows /\ RowOK(o) /\ decisions \subseteq Decisions /\ Unique
         /\ row[o].status # "none" => row[o].executor = "worker"
         /\ row[o].attempt \in 0 .. MaxAttempts[o] /\ row[o].attempt \in Nat
         /\ MaxAttempts[o] \in Nat /\ now \in Nat
BY StoreAssumption, LedgerAssumption DEF IInv, TypeOK, RowInv, Unique, Rows

(* What a row needs after a start under decision k. *)
LEMMA StartedRow ==
  ASSUME IInv, NEW o \in Owners, NEW k \in Keys \cup {Lost},
         row[o].executor = "worker",
         row' = [row EXCEPT ![o].status = "running", ![o].error = "none",
                            ![o].disposition = "none", ![o].at = 0, ![o].start = k,
                            ![o].attempt = @ + 1]
  PROVE  /\ row'[o] \in Rows /\ row'[o].status = "running" /\ row'[o].executor = "worker"
         /\ row'[o].start = k /\ row'[o].attempt = row[o].attempt + 1
         /\ row'[o].events = row[o].events /\ row'[o].notes = row[o].notes
         /\ row'[o].decision = row[o].decision /\ row'[o].definition = row[o].definition
         /\ row' = [row EXCEPT ![o] = row'[o]]
<1>1. row[o] \in Rows /\ row \in [Owners -> Rows] BY DEF IInv, TypeOK
<1> DEFINE r == row[o]
           new == [definition |-> r.definition, executor |-> r.executor,
                   decision |-> r.decision, status |-> "running", error |-> "none",
                   disposition |-> "none", at |-> 0, attempt |-> r.attempt + 1,
                   start |-> k, events |-> r.events, notes |-> r.notes]
<1>2. r.definition \in Nat \cup {None} /\ r.executor \in {"none", "worker", "coordinator"}
      /\ r.decision \in Keys \cup {Lost, None} /\ r.attempt \in Nat
      /\ r.events \in Seq(Outcome) /\ r.notes \in Seq(Review)
  BY <1>1 DEF Rows
<1>3. new \in Rows
  <2> HIDE DEF r
  <2>1. QED BY <1>2 DEF Rows
<1>4. row'[o] = new
  BY ZenonT(60), <1>1 DEF Rows
<1>5. row' = [row EXCEPT ![o] = row'[o]] BY <1>1
<1>6. QED BY <1>3, <1>4, <1>5

(* assignment_started, whether its commit is reached or not. *)
LEMMA StartKeeps ==
  ASSUME IInv, NEW o \in Owners, NEW committed \in BOOLEAN, Start(o, committed)
  PROVE  IInv'
<1> DEFINE auto == Requested[o] = "auto"
<1>0. PICK key : key = IF auto THEN row[o].decision ELSE StartKey(o, row[o].attempt + 1)
  OBVIOUS
<1>1. /\ row[o] \in Rows /\ RowOK(o) /\ decisions \subseteq Decisions /\ Unique
      /\ row[o].executor = "worker" /\ row[o].attempt \in Nat
      /\ row[o].attempt < MaxAttempts[o] /\ MaxAttempts[o] \in Nat
      /\ row[o].status \in {"planned", "running", "failed"}
  BY RowFacts DEF Start
<1>2. auto => /\ committed /\ Known(key) /\ Recorded(key).action = "worker"
              /\ key = row[o].decision /\ decisions' = decisions
  BY <1>0 DEF Start, MayStart
<1>3. auto => key \in Keys /\ key # Lost /\ key.owner = o
  <2>1. SUFFICES ASSUME auto PROVE key \in Keys /\ key # Lost /\ key.owner = o
    OBVIOUS
  <2>2. key \in Keys /\ key # Lost BY <2>1, <1>1, <1>2, LostUnknown
  <2>3. key = PlanKey(o, row[o].definition) BY <2>1, <2>2, <1>1, <1>2 DEF RowOK
  <2>4. QED BY <2>2, <2>3 DEF PlanKey
<1>4. ~auto => key \in Keys /\ key.owner = o BY <1>0, <1>1, KeysAre
<1>5. ~auto => decisions' = IF committed THEN decisions \cup {Predict(key, FALSE)}
                            ELSE decisions
  BY <1>0 DEF Start
<1>6. /\ Grown /\ decisions' \subseteq Decisions /\ Unique'
      /\ committed => Known(key)'
  <2>1. CASE decisions' = decisions /\ (committed => Known(key))
    BY <2>1, <1>1 DEF Grown, Unique, Known
  <2>2. CASE decisions' = decisions \cup {Predict(key, FALSE)} /\ key \in Keys
    BY <2>2, <1>1, OneMoreDecision
  <2>3. QED BY <2>1, <2>2, <1>2, <1>4, <1>5
<1>7. PICK k \in Keys \cup {Lost} : k = IF committed THEN key ELSE Lost
  BY <1>3, <1>4
<1>8. row' = [row EXCEPT ![o].status = "running", ![o].error = "none",
                         ![o].disposition = "none", ![o].at = 0, ![o].start = k,
                         ![o].attempt = @ + 1]
  BY <1>0, <1>7 DEF Start
<1>9. /\ row'[o] \in Rows /\ row'[o].status = "running" /\ row'[o].executor = "worker"
      /\ row'[o].start = k /\ row'[o].attempt = row[o].attempt + 1
      /\ row'[o].events = row[o].events /\ row'[o].notes = row[o].notes
      /\ row'[o].decision = row[o].decision /\ row'[o].definition = row[o].definition
      /\ row' = [row EXCEPT ![o] = row'[o]]
  BY ZenonT(60), <1>1, <1>8, StartedRow
<1>10. RowOK(o)'
  <2>1. Holds(o, row[o].start)' BY <1>3, <1>4, <1>6, <1>7, <1>9 DEF Holds
  <2>2. Known(row[o].decision) => Known(row[o].decision)' BY <1>6, <1>9 DEF Known, Grown
  <2>3. auto => /\ row'[o].start # Lost /\ row'[o].start = row'[o].decision
                /\ Recorded(row[o].start)'.action = "worker"
    <3>1. auto => k = key /\ Recorded(k)' = Recorded(k) BY <1>2, <1>7 DEF Recorded
    <3>2. QED BY <3>1, <1>2, <1>3, <1>9 DEF Recorded
  <2>4. QED BY <1>1, <1>9, <2>1, <2>2, <2>3 DEF RowOK, PlanKey
<1>11. OneRow(o)
  <2>1. Free /\ UNCHANGED <<now, observed, pause, plan, replay, journal>> BY DEF Start
  <2>2. row'[o].attempt \in 0 .. MaxAttempts[o] BY <1>1, <1>9
  <2>3. Kept(o) /\ NotesKept(o) BY <1>1, <1>9 DEF Kept, NotesKept
  <2>4. row' = [row EXCEPT ![o] = row'[o]] BY <1>9
  <2>5. QED BY <1>9, <1>10, <2>1, <2>2, <2>3, <2>4 DEF OneRow
<1>12. QED BY <1>6, <1>11, OneRowKeeps

(* The start given again. *)
LEMMA StartAgainKeeps ==
  ASSUME IInv, NEW o \in Owners, StartAgain(o)
  PROVE  IInv'
<1>0. PICK key : key = StartKey(o, row[o].attempt) OBVIOUS
<1>1. /\ row[o] \in Rows /\ RowOK(o) /\ decisions \subseteq Decisions /\ Unique
      /\ row[o].executor = "worker" /\ row[o].attempt \in Nat /\ row[o].attempt > 0
      /\ row[o].attempt \in 0 .. MaxAttempts[o]
      /\ row[o].status = "running" /\ row[o].start = Lost
  BY RowFacts DEF StartAgain, RowOK
<1>2. key \in Keys /\ key.owner = o BY <1>0, <1>1, KeysAre
<1>3. /\ row' = [row EXCEPT ![o].start = key]
      /\ decisions' = decisions \cup {Predict(key, FALSE)}
  BY <1>0 DEF StartAgain
<1>4. Grown /\ decisions' \subseteq Decisions /\ Unique' /\ Known(key)'
  BY <1>1, <1>2, <1>3, OneMoreDecision
<1>5. /\ row'[o] \in Rows /\ row'[o].start = key /\ row'[o].status = row[o].status
      /\ row'[o].executor = row[o].executor /\ row'[o].attempt = row[o].attempt
      /\ row'[o].events = row[o].events /\ row'[o].notes = row[o].notes
      /\ row'[o].decision = row[o].decision /\ row'[o].definition = row[o].definition
      /\ row' = [row EXCEPT ![o] = row'[o]]
  BY ZenonT(60), <1>1, <1>2, <1>3 DEF Rows, IInv, TypeOK
<1>6. Requested[o] # "auto" BY <1>1 DEF RowOK
<1>7. RowOK(o)'
  <2>1. Holds(o, row[o].start)' BY <1>2, <1>4, <1>5 DEF Holds
  <2>2. Known(row[o].decision) => Known(row[o].decision)' BY <1>4, <1>5 DEF Known, Grown
  <2>3. QED BY <1>1, <1>5, <1>6, <2>1, <2>2 DEF RowOK, PlanKey
<1>8. OneRow(o)
  BY <1>1, <1>5, <1>7 DEF StartAgain, OneRow, Kept, NotesKept
<1>9. QED BY <1>4, <1>8, OneRowKeeps

-----------------------------------------------------------------------------
(* Results, reviews and outcomes. *)

(* assignment_finished of a success. *)
LEMMA SucceedKeeps ==
  ASSUME IInv, NEW o \in Owners, Succeed(o)
  PROVE  IInv'
<1>1. /\ row[o] \in Rows /\ RowOK(o) /\ decisions \subseteq Decisions /\ Unique
      /\ row[o].executor = "worker" /\ row[o].attempt \in 0 .. MaxAttempts[o]
      /\ row[o].status = "running" /\ row[o].start # Lost
      /\ row' = [row EXCEPT ![o].status = "succeeded"]
  BY RowFacts DEF Succeed
<1>2. /\ row'[o] \in Rows /\ row'[o].status = "succeeded" /\ row'[o].start = row[o].start
      /\ row'[o].executor = row[o].executor /\ row'[o].attempt = row[o].attempt
      /\ row'[o].events = row[o].events /\ row'[o].notes = row[o].notes
      /\ row'[o].decision = row[o].decision /\ row'[o].definition = row[o].definition
      /\ row' = [row EXCEPT ![o] = row'[o]]
  BY ZenonT(60), <1>1 DEF Rows, IInv, TypeOK
<1>3. decisions' = decisions BY DEF Succeed, storeVars
<1>4. RowOK(o)'
  <2>1. Recorded(row[o].start)' = Recorded(row[o].start) BY <1>2, <1>3 DEF Recorded
  <2>2. QED BY <1>1, <1>2, <1>3, <2>1 DEF RowOK, PlanKey, Holds, Known
<1>5. OneRow(o)
  BY <1>1, <1>2, <1>4 DEF Succeed, OneRow, Kept, NotesKept, storeVars
<1>6. QED BY <1>1, <1>3, <1>5, OneRowKeeps DEF Grown, Unique

(* _queue_feedback leaves the outbox or appends an outcome of this moment. *)
LEMMA QueuedIs ==
  ASSUME IInv, NEW o \in Owners, NEW outcome \in Outcomes, NEW grade \in Grades,
         NEW decision \in Keys \cup {Lost}, Holds(o, decision)
  PROVE  /\ Queued(o, outcome, grade, decision) \in Seq(Outcome)
         /\ \/ Queued(o, outcome, grade, decision) = row[o].events
            \/ \E e \in Outcome :
                 /\ Queued(o, outcome, grade, decision) = Append(row[o].events, e)
                 /\ e.at = now /\ ~e.recorded /\ Holds(o, e.decision)
<1> DEFINE e == [outcome |-> outcome, grade |-> grade, decision |-> decision,
                 at |-> now, recorded |-> FALSE]
<1>1. e \in Outcome /\ e.at = now /\ ~e.recorded /\ Holds(o, e.decision)
  BY RowFacts DEF Outcome
<1>2. row[o].events \in Seq(Outcome) BY RowTyped DEF IInv
<1>3. Queued(o, outcome, grade, decision) = row[o].events
      \/ Queued(o, outcome, grade, decision) = Append(row[o].events, e)
  BY DEF Queued
<1> HIDE DEF e
<1>4. Append(row[o].events, e) \in Seq(Outcome) BY <1>1, <1>2
<1>5. QED BY <1>1, <1>2, <1>3, <1>4

(* What a row needs after an outcome has been queued for it. *)
LEMMA QueuedRow ==
  ASSUME IInv, NEW o \in Owners, Free, UNCHANGED <<storeVars, plan, replay, journal>>,
         NEW outcome \in Outcomes, NEW grade \in Grades,
         NEW decision \in Keys \cup {Lost}, Holds(o, decision),
         row[o].executor # "none",
         row' = [row EXCEPT ![o] = row'[o]], row'[o] \in Rows,
         row'[o].executor = row[o].executor, row'[o].attempt = row[o].attempt,
         row'[o].start = row[o].start, row'[o].decision = row[o].decision,
         row'[o].definition = row[o].definition,
         row'[o].events = Queued(o, outcome, grade, decision),
         \/ row'[o].status = row[o].status
         \/ row[o].status = "running" /\ row'[o].status = "failed",
         NotesKept(o)
  PROVE  IInv'
<1>1. /\ RowOK(o) /\ decisions \subseteq Decisions /\ Unique
      /\ row[o].status # "none" => row[o].executor = "worker"
      /\ row[o].attempt \in 0 .. MaxAttempts[o]
  BY RowFacts
<1>2. Kept(o) \/ Extended(o) BY QueuedIs DEF Kept, Extended
<1>3. decisions' = decisions BY DEF storeVars
<1>4. RowOK(o)'
  <2>1. Recorded(row[o].start)' = Recorded(row[o].start) BY <1>3 DEF Recorded
  <2>2. QED BY <1>1, <1>3, <2>1 DEF RowOK, PlanKey, Holds, Known
<1>5. OneRow(o) BY <1>1, <1>2, <1>4 DEF OneRow, storeVars
<1>6. QED BY <1>1, <1>3, <1>5, OneRowKeeps DEF Grown, Unique

(* assignment_finished of a failure. *)
LEMMA FailKeeps ==
  ASSUME IInv, NEW o \in Owners, NEW outcome \in Outcomes, Fail(o, outcome)
  PROVE  IInv'
<1>1. /\ row[o] \in Rows /\ RowOK(o) /\ row[o].status = "running"
      /\ row[o].executor = "worker" /\ row[o].start \in Keys \cup {Lost}
      /\ Holds(o, row[o].start)
  BY RowFacts DEF Fail, RowOK, Rows
<1>2. PICK events \in Seq(Outcome) : events = Queued(o, outcome, "none", row[o].start)
  BY <1>1, QueuedIs DEF Grades
<1>3. row' = [row EXCEPT ![o].status = "failed", ![o].error = outcome, ![o].events = events]
  BY <1>2 DEF Fail
<1>4. /\ row'[o] \in Rows /\ row'[o].status = "failed" /\ row'[o].start = row[o].start
      /\ row'[o].executor = row[o].executor /\ row'[o].attempt = row[o].attempt
      /\ row'[o].events = events /\ row'[o].notes = row[o].notes
      /\ row'[o].decision = row[o].decision /\ row'[o].definition = row[o].definition
      /\ row' = [row EXCEPT ![o] = row'[o]]
  BY ZenonT(60), <1>1, <1>2, <1>3 DEF Rows, IInv, TypeOK
<1>5. Free /\ UNCHANGED <<storeVars, plan, replay, journal>> BY DEF Fail
<1>6. NotesKept(o) BY <1>4 DEF NotesKept
<1>7. "none" \in Grades BY DEF Grades
<1>8. QED BY <1>1, <1>2, <1>4, <1>5, <1>6, <1>7, QueuedRow

(* observe_coordinator_result. *)
LEMMA ResultKeeps ==
  ASSUME IInv, NEW o \in Owners, NEW outcome \in Outcomes, Result(o, outcome)
  PROVE  IInv'
<1>1. /\ row[o] \in Rows /\ RowOK(o) /\ row[o].executor = "coordinator"
      /\ row[o].definition \in Nat \cup {None}
  BY RowFacts DEF Result, Rows
<1>2. row[o].decision \in Keys \cup {Lost} /\ Holds(o, row[o].decision)
  <2>1. row[o].decision = Lost \/ (row[o].decision = PlanKey(o, row[o].definition)
                                   /\ Known(row[o].decision))
    BY <1>1 DEF RowOK
  <2>2. QED BY <2>1, RowFacts, LostUnknown DEF PlanKey, Holds
<1>3. PICK events \in Seq(Outcome) : events = Queued(o, outcome, "none", row[o].decision)
  BY <1>2, QueuedIs DEF Grades
<1>4. row' = [row EXCEPT ![o].events = events] BY <1>3 DEF Result
<1>5. /\ row'[o] \in Rows /\ row'[o].status = row[o].status /\ row'[o].start = row[o].start
      /\ row'[o].executor = row[o].executor /\ row'[o].attempt = row[o].attempt
      /\ row'[o].events = events /\ row'[o].notes = row[o].notes
      /\ row'[o].decision = row[o].decision /\ row'[o].definition = row[o].definition
      /\ row' = [row EXCEPT ![o] = row'[o]]
  BY ZenonT(60), <1>1, <1>3, <1>4 DEF Rows, IInv, TypeOK
<1>6. Free /\ UNCHANGED <<storeVars, plan, replay, journal>> BY DEF Result
<1>7. NotesKept(o) BY <1>5 DEF NotesKept
<1>8. "none" \in Grades /\ row[o].executor # "none" BY <1>1 DEF Grades
<1>9. QED BY <1>2, <1>3, <1>5, <1>6, <1>7, <1>8, QueuedRow

(* use_result. *)
LEMMA UseKeeps ==
  ASSUME IInv, NEW o \in Owners, NEW disposition \in Labelled, NEW corrected \in BOOLEAN,
         NEW grade \in Grades, Use(o, disposition, corrected, grade)
  PROVE  IInv'
<1>1. /\ row[o] \in Rows /\ RowOK(o) /\ row[o].status \in {"succeeded", "failed"}
      /\ row[o].executor = "worker" /\ row[o].start \in Keys \cup {Lost}
      /\ Holds(o, row[o].start) /\ row[o].at \in Nat /\ row[o].attempt \in Nat
      /\ row[o].error \in Outcomes \cup {"none"} /\ row[o].notes \in Seq(Review)
      /\ now \in Nat
  BY RowFacts DEF Use, Reviewed, RowOK, Rows
<1> DEFINE reviewed == IF disposition = "accepted" /\ corrected THEN "rework" ELSE disposition
           result == IF row[o].error \in {"infrastructure", "cancelled"} THEN row[o].error
                     ELSE reviewed
           n == [disposition |-> disposition, corrected |-> corrected, grade |-> grade,
                 attempt |-> row[o].attempt, recorded |-> FALSE]
<1>2. PICK outcome \in Outcomes : outcome = result
  BY <1>1 DEF Outcomes, Labelled
<1>3. PICK note \in Review : note = n /\ ~note.recorded
  <2>1. n \in Review BY <1>1 DEF Review
  <2>2. ~n.recorded OBVIOUS
  <2> HIDE DEF n
  <2>3. QED BY <2>1, <2>2
<1>4. PICK events \in Seq(Outcome) : events = Queued(o, outcome, grade, row[o].start)
  BY <1>1, QueuedIs
<1>5. PICK at \in Nat : at = RejectedSince(o, disposition) BY <1>1 DEF RejectedSince
<1>6. PICK notes \in Seq(Review) : notes = Append(row[o].notes, note)
  <2>1. Append(row[o].notes, note) \in Seq(Review) BY <1>1
  <2>2. QED BY <2>1
<1>7. row' = [row EXCEPT ![o].disposition = disposition, ![o].at = at,
                         ![o].events = events, ![o].notes = notes]
  BY <1>2, <1>3, <1>4, <1>5, <1>6 DEF Use
<1>8. /\ row'[o] \in Rows /\ row'[o].status = row[o].status /\ row'[o].start = row[o].start
      /\ row'[o].executor = row[o].executor /\ row'[o].attempt = row[o].attempt
      /\ row'[o].events = events /\ row'[o].notes = notes
      /\ row'[o].decision = row[o].decision /\ row'[o].definition = row[o].definition
      /\ row' = [row EXCEPT ![o] = row'[o]]
  BY ZenonT(60), <1>1, <1>4, <1>5, <1>6, <1>7 DEF Rows, IInv, TypeOK
<1>9. Free /\ UNCHANGED <<storeVars, plan, replay, journal>> BY DEF Use
<1>10. NotesKept(o) BY <1>3, <1>6, <1>8 DEF NotesKept
<1>11. QED BY <1>1, <1>2, <1>4, <1>8, <1>9, <1>10, QueuedRow

-----------------------------------------------------------------------------
(* Time and replays. *)

(* Time passes. *)
LEMMA TickKeeps ==
  ASSUME IInv, Tick, UNCHANGED ledgerVars
  PROVE  IInv'
<1> USE DEF IInv
<1>1. /\ now \in Nat /\ now < MaxTime /\ now' = now + 1 /\ MaxTime \in Nat
      /\ UNCHANGED <<decisions, observed, pause, plan, row, replay, journal>>
  BY StoreAssumption DEF Tick, ledgerVars, TypeOK
<1>2. TypeOK' BY <1>1 DEF TypeOK, Waiting, Pending, Outbox, Of
<1>3. OutboxInv' /\ ObservedInv'
  <2>1. OutboxStep BY <1>1 DEF OutboxStep, Kept, Grown
  <2>2. QED BY <2>1, OutboxKept
<1>4. RowInv' BY <1>1 DEF RowInv, RowOK, Holds, Known, Recorded, PlanKey
<1>5. NotesInv' /\ ReplayInv' /\ PauseInv'
  BY <1>1 DEF NotesInv, ReplayInv, PauseInv, CaseOf, Note, Event
<1>6. QED BY <1>2, <1>3, <1>4, <1>5

(* A replay that begins, is refused or dies changes neither rows nor stores.   *)
LEMMA OnlyReplay ==
  ASSUME IInv, UNCHANGED <<storeVars, plan, row, journal>>,
         \/ replay' = None
         \/ \E t \in Tasks, store \in {"routing", "lessons"} : replay' = Replaying(t, store)
  PROVE  IInv'
<1> USE DEF IInv
<1>1. UNCHANGED <<now, decisions, observed, pause, plan, row, journal>> BY DEF storeVars
<1>2. \/ replay' = None
      \/ replay' \in [task : Tasks, store : {"routing", "lessons"},
                      done : SUBSET (Owners \X Nat)] /\ replay'.done = {}
  BY DEF Replaying
<1>3. TypeOK'
  <2>1. \/ replay' = None
        \/ /\ replay' \in [task : Tasks, store : {"routing", "lessons"},
                           done : SUBSET (Owners \X Nat)]
           /\ replay'.done \subseteq Waiting(replay.task, replay.store)'
    BY <1>2
  <2>2. QED BY <1>1, <2>1 DEF TypeOK
<1>4. OutboxInv' /\ ObservedInv'
  BY <1>1 DEF OutboxInv, ObservedInv, Holds, Known, Event
<1>5. RowInv' BY <1>1 DEF RowInv, RowOK, Holds, Known, Recorded, PlanKey
<1>6. NotesInv' /\ PauseInv' BY <1>1 DEF NotesInv, PauseInv, CaseOf, Note
<1>7. ReplayInv' BY <1>2 DEF ReplayInv
<1>8. QED BY <1>3, <1>4, <1>5, <1>6, <1>7

(* The entry replayed next waits, and those before it are recorded or done. *)
LEMMA NextIs ==
  ASSUME IInv, ~Free, NEW o, NEW i, IsNext(o, i)
  PROVE  /\ replay \in [task : Tasks, store : {"routing", "lessons"},
                        done : SUBSET (Owners \X Nat)]
         /\ o \in Owners /\ o \in Of(replay.task) /\ i \in Nat
         /\ <<o, i>> \in Waiting(replay.task, replay.store)
         /\ i \in DOMAIN Outbox(o, replay.store) /\ ~Outbox(o, replay.store)[i].recorded
         /\ \A j \in DOMAIN Outbox(o, replay.store) :
              j < i => Outbox(o, replay.store)[j].recorded \/ <<o, j>> \in replay.done
<1>1. replay \in [task : Tasks, store : {"routing", "lessons"}, done : SUBSET (Owners \X Nat)]
  BY DEF IInv, TypeOK, Free
<1> DEFINE t == replay.task
           store == replay.store
<1>2. <<o, i>> \in Waiting(t, store)
      /\ \A e \in Waiting(t, store) \ replay.done : e[1] = o => e[2] >= i
  BY DEF IsNext
<1>3. /\ o \in Of(t) /\ i \in DOMAIN Outbox(o, store) /\ ~Outbox(o, store)[i].recorded
  BY <1>2, WaitingIs
<1>4. o \in Owners BY <1>3 DEF Of
<1>5. DOMAIN Outbox(o, store) \subseteq Nat
  BY <1>4, RowTyped DEF Outbox, IInv
<1>6. \A j \in DOMAIN Outbox(o, store) : j < i => Outbox(o, store)[j].recorded \/ <<o, j>> \in replay.done
  <2> SUFFICES ASSUME NEW j \in DOMAIN Outbox(o, store), j < i, ~Outbox(o, store)[j].recorded,
                      <<o, j>> \notin replay.done
               PROVE  FALSE
    OBVIOUS
  <2>1. <<o, j>> \in Waiting(t, store) BY <1>3, WaitingIs
  <2>2. j >= i BY <2>1, <1>2
  <2>3. QED BY <2>2, <1>3, <1>5
<1>7. QED BY <1>1, <1>2, <1>3, <1>4, <1>5, <1>6

(* More that is done by a replay whose rows stay. *)
LEMMA DoneTyped ==
  ASSUME IInv, ~Free, NEW o, NEW i, IsNext(o, i),
         replay' = [replay EXCEPT !.done = @ \cup {<<o, i>>}], row' = row
  PROVE  /\ replay' \in [task : Tasks, store : {"routing", "lessons"},
                         done : SUBSET (Owners \X Nat)]
         /\ replay'.task = replay.task /\ replay'.store = replay.store
         /\ replay'.done = replay.done \cup {<<o, i>>}
         /\ replay'.done \subseteq Waiting(replay.task, replay.store)'
<1>1. /\ replay \in [task : Tasks, store : {"routing", "lessons"},
                     done : SUBSET (Owners \X Nat)]
      /\ o \in Owners /\ i \in Nat /\ <<o, i>> \in Waiting(replay.task, replay.store)
  BY NextIs
<1>2. replay.done \subseteq Waiting(replay.task, replay.store)
  BY DEF IInv, TypeOK, Free
<1>3. /\ replay'.task = replay.task /\ replay'.store = replay.store
      /\ replay'.done = replay.done \cup {<<o, i>>}
      /\ replay' \in [task : Tasks, store : {"routing", "lessons"},
                      done : SUBSET (Owners \X Nat)]
  BY <1>1
<1>4. Waiting(replay.task, replay.store)' = Waiting(replay.task, replay.store)
  BY <1>3 DEF Waiting, Pending, Outbox, Of
<1>5. QED BY <1>1, <1>2, <1>3, <1>4

(* An observation never shortens a pause, and one that must pause does. *)
LEMMA PauseGrows ==
  ASSUME pause \in [Families -> Nat], NEW r \in Observations, Observe(r),
         Window \in Nat
  PROVE  /\ pause' \in [Families -> Nat]
         /\ \A f \in Families : pause'[f] >= pause[f]
         /\ \A f \in Families : pause'[f] = pause[f] \/ pause'[f] = r.at + Window
         /\ r \notin observed /\ Pauses(r, observed') => pause'[Family[r.owner]] >= r.at + Window
<1> DEFINE f == Family[r.owner]
           until == r.at + Window
<1>1. f \in Families /\ until \in Nat /\ pause[f] \in Nat
  BY DEF Observations, Families
<1>2. CASE r \notin observed /\ Pauses(r, observed')
  <2>1. PICK m : m = Max({pause[f], until}) OBVIOUS
  <2>2. pause' = [pause EXCEPT ![f] = m] BY <1>2, <2>1 DEF Observe, Later
  <2>3. m \in {pause[f], until} /\ m >= pause[f] /\ m >= until
    <3>1. PICK a \in Int, b \in Int : a = pause[f] /\ b = until BY <1>1
    <3>2. Max({a, b}) \in {a, b} /\ Max({a, b}) >= a /\ Max({a, b}) >= b
      BY MaxOfTwo, Zenon
    <3>3. QED BY <2>1, <3>1, <3>2
  <2>4. /\ pause'[f] = m /\ \A g \in Families \ {f} : pause'[g] = pause[g]
        /\ pause' \in [Families -> Nat]
    BY <1>1, <2>2, <2>3
  <2>5. QED BY <1>1, <2>3, <2>4
<1>3. CASE ~(r \notin observed /\ Pauses(r, observed'))
  <2>1. pause' = pause BY <1>3 DEF Observe
  <2>2. QED BY <1>3, <2>1
<1>4. QED BY <1>2, <1>3

(* A rejection that is graded as a failure, or whose case has no grade, pauses. *)
Counts(r, rows) == r.grade = "major" \/ \A q \in CaseOf(r.owner, rows) : q.grade = "none"

(* Such a rejection pauses, whatever else its case holds. *)
LEMMA RejectionCounts ==
  ASSUME NEW rows, NEW r \in rows, r.by = "worker", r.outcome = "rejected", Counts(r, rows)
  PROVE  Pauses(r, rows)
<1>1. r \in CaseOf(r.owner, rows) BY DEF CaseOf, Labelled
<1>2. Substantive(r.owner, rows)
  <2>1. CASE r.grade = "major"
    BY <2>1, <1>1 DEF Substantive
  <2>2. CASE \A q \in CaseOf(r.owner, rows) : q.grade = "none"
    BY <2>2, <1>1 DEF Substantive
  <2>3. QED BY <2>1, <2>2 DEF Counts
<1>3. QED BY <1>2 DEF Pauses

(* One more observation leaves every counted rejection paused for. *)
LEMMA ObserveKeepsPause ==
  ASSUME PauseInv, pause \in [Families -> Nat], observed \subseteq Observations,
         NEW r \in Observations, Observe(r), Window \in Nat
  PROVE  PauseInv'
<1>1. observed' = observed \cup {r} BY DEF Observe
<1>2. SUFFICES ASSUME NEW q \in observed', q.by = "worker", q.outcome = "rejected",
                      Counts(q, observed')
               PROVE  pause'[Family[q.owner]] >= q.at + Window
  BY DEF PauseInv, Counts, CaseOf
<1>3. q \in Observations /\ Family[q.owner] \in Families /\ q.at \in Nat
  BY <1>1, <1>2 DEF Observations, Families
<1>4. CASE q \in observed
  <2>1. CaseOf(q.owner, observed) \subseteq CaseOf(q.owner, observed')
    BY <1>1 DEF CaseOf
  <2>2. pause[Family[q.owner]] >= q.at + Window
    BY <1>2, <1>4, <2>1 DEF PauseInv, Counts
  <2>3. pause'[Family[q.owner]] >= pause[Family[q.owner]]
        /\ pause'[Family[q.owner]] \in Nat /\ pause[Family[q.owner]] \in Nat
    BY <1>3, PauseGrows
  <2>4. QED BY <1>3, <2>2, <2>3
<1>5. CASE q \notin observed
  <2>1. q = r BY <1>1, <1>5
  <2>2. Pauses(r, observed') BY <1>1, <1>2, <2>1, RejectionCounts
  <2>3. QED BY <1>5, <2>1, <2>2, PauseGrows
<1>6. QED BY <1>4, <1>5

(* An observation replayed: those before it in the outbox are in the database. *)
LEMMA ObservesKeeps ==
  ASSUME IInv, NEW o, NEW i, ReplayObserves(o, i)
  PROVE  IInv'
<1> USE DEF IInv
<1>0. PICK r : r = Event(o, i) OBVIOUS
<1>1. /\ ~Free /\ replay.store = "routing" /\ IsNext(o, i) /\ Observe(r)
      /\ replay' = [replay EXCEPT !.done = @ \cup {<<o, i>>}]
      /\ UNCHANGED <<now, decisions, plan, row, journal>>
  BY <1>0 DEF ReplayObserves
<1>2. /\ o \in Owners /\ i \in Nat
      /\ i \in DOMAIN row[o].events /\ ~row[o].events[i].recorded
      /\ \A j \in DOMAIN row[o].events :
           j < i => row[o].events[j].recorded \/ <<o, j>> \in replay.done
  BY <1>1, NextIs DEF Outbox
<1>3. Accepts(r) /\ observed' = observed \cup {r} BY <1>1 DEF Observe
<1>4. /\ r.owner = o /\ r.index = i /\ r.by = row[o].executor
      /\ r.decision = row[o].events[i].decision /\ r.at = row[o].events[i].at
  BY <1>0 DEF Event
<1>5. Known(r.decision)
  BY <1>3 DEF Accepts, ObservedInv
<1>6. r.decision \in Keys BY <1>5, LostUnknown DEF TypeOK
<1>7. r \in Observations /\ row[o].events[i].at <= now
  <2>1. row[o].events[i] \in Outcome /\ row[o].events # <<>> BY <1>2, RowTyped
  <2>2. row[o].executor \in {"worker", "coordinator"}
    BY <1>2, <2>1, RowFacts DEF RowOK, Rows
  <2>3. QED BY <1>0, <1>2, <1>4, <1>6, <2>1, <2>2 DEF Event, Observations, Outcome, OutboxInv
<1>8. /\ now \in Nat /\ MaxTime \in Nat /\ Window \in Nat /\ now <= MaxTime
      /\ pause \in [Families -> Nat] /\ \A f \in Families : pause[f] <= MaxTime + Window
  BY StoreAssumption DEF TypeOK
<1>9. pause' \in [Families -> 0 .. MaxTime + Window]
  <2>1. /\ pause' \in [Families -> Nat]
        /\ \A f \in Families : pause'[f] = pause[f] \/ pause'[f] = r.at + Window
    BY <1>1, <1>7, <1>8, PauseGrows
  <2>2. r.at \in Nat /\ r.at <= now BY <1>4, <1>7 DEF Observations
  <2>3. \A f \in Families : pause'[f] \in Nat /\ pause'[f] <= MaxTime + Window
    BY <1>8, <2>1, <2>2
  <2>4. QED BY <2>1, <2>3
<1>10. TypeOK'
  <2>1. /\ replay' \in [task : Tasks, store : {"routing", "lessons"},
                        done : SUBSET (Owners \X Nat)]
        /\ replay'.done \subseteq Waiting(replay.task, replay.store)'
    BY <1>1, DoneTyped
  <2>2. QED BY <1>1, <1>3, <1>7, <1>9, <2>1 DEF TypeOK
<1>11. \A x, j : Event(x, j)' = Event(x, j) BY <1>1 DEF Event
<1>12. ObservedInv'
  <2> SUFFICES ASSUME NEW q \in observed'
               PROVE  /\ q.index \in DOMAIN row[q.owner].events /\ q = Event(q.owner, q.index)
                      /\ Known(q.decision)
    BY <1>1, <1>11 DEF ObservedInv, Known
  <2>1. CASE q \in observed BY <2>1 DEF ObservedInv
  <2>2. CASE q = r BY <2>2, <1>0, <1>2, <1>4, <1>5
  <2>3. QED BY <1>3, <2>1, <2>2
<1>13. \A e \in replay.done : Event(e[1], e[2]) \in observed
  BY <1>1 DEF ReplayInv, Free
<1>14. OutboxInv'
  <2> SUFFICES ASSUME NEW x \in Owners, NEW j \in DOMAIN row[x].events
               PROVE  /\ Holds(x, row[x].events[j].decision)
                      /\ row[x].events[j].at <= now
                      /\ \A k \in DOMAIN row[x].events :
                           j <= k => row[x].events[j].at <= row[x].events[k].at
                      /\ row[x].events[j].recorded => Event(x, j) \in observed'
                      /\ \A k \in DOMAIN row[x].events :
                           j < k /\ Event(x, k) \in observed' => Event(x, j) \in observed'
    BY <1>1, <1>11 DEF OutboxInv, Holds, Known
  <2>1. /\ Holds(x, row[x].events[j].decision)
        /\ row[x].events[j].at <= now
        /\ \A k \in DOMAIN row[x].events :
              j <= k => row[x].events[j].at <= row[x].events[k].at
        /\ row[x].events[j].recorded => Event(x, j) \in observed'
    BY <1>3 DEF OutboxInv
  <2>2. ASSUME NEW k \in DOMAIN row[x].events, j < k, Event(x, k) \in observed'
        PROVE  Event(x, j) \in observed'
    <3>1. CASE Event(x, k) \in observed BY <2>2, <3>1, <1>3 DEF OutboxInv
    <3>2. CASE Event(x, k) = r
      <4>1. x = o /\ k = i BY <3>2, <1>4 DEF Event
      <4>2. row[o].events[j].recorded \/ <<o, j>> \in replay.done BY <4>1, <2>2, <1>2
      <4>3. QED BY <4>1, <4>2, <1>3, <1>13 DEF OutboxInv
    <3>3. QED BY <2>2, <3>1, <3>2, <1>3
  <2>3. QED BY <2>1, <2>2
<1>15. RowInv' BY <1>1 DEF RowInv, RowOK, Holds, Known, Recorded, PlanKey
<1>16. NotesInv' BY <1>1 DEF NotesInv, Note
<1>17. ReplayInv'
  <2>1. /\ replay'.store = "routing" /\ replay'.done = replay.done \cup {<<o, i>>}
    BY <1>1, DoneTyped
  <2>2. \A e \in replay'.done : Event(e[1], e[2]) \in observed'
    BY <2>1, <1>0, <1>3, <1>13
  <2>3. QED BY <2>1, <2>2, <1>11 DEF ReplayInv
<1>18. PauseInv'
  <2>1. observed \subseteq Observations BY DEF TypeOK
  <2>2. QED BY <2>1, <1>1, <1>7, <1>8, ObserveKeepsPause
<1>19. QED BY <1>10, <1>12, <1>14, <1>15, <1>16, <1>17, <1>18

(* An event is appended to the journal unless it is there. *)
LEMMA JournalGrows ==
  ASSUME journal \in Seq(Lessons), IsInjective(journal), NEW n \in Lessons,
         journal' = IF Contains(journal, n) THEN journal ELSE Append(journal, n)
  PROVE  /\ journal' \in Seq(Lessons) /\ IsInjective(journal)'
         /\ Contains(journal, n)'
         /\ \A m : Contains(journal, m) => Contains(journal, m)'
<1>1. CASE Contains(journal, n) BY <1>1 DEF Contains, IsInjective
<1>2. CASE ~Contains(journal, n)
  <2>1. journal' = Append(journal, n) BY <1>2
  <2>2. /\ journal' \in Seq(Lessons) /\ Len(journal') = Len(journal) + 1
        /\ DOMAIN journal' = 1 .. Len(journal) + 1 /\ DOMAIN journal = 1 .. Len(journal)
        /\ journal'[Len(journal) + 1] = n /\ Len(journal) \in Nat
        /\ \A k \in 1 .. Len(journal) : journal'[k] = journal[k]
    BY <2>1, AppendProperties
  <2>3. \A k \in 1 .. Len(journal) : journal[k] # n BY <1>2 DEF Contains
  <2>4. IsInjective(journal)' BY <2>2, <2>3 DEF IsInjective
  <2>5. Contains(journal, n)' BY <2>2 DEF Contains
  <2>6. \A m : Contains(journal, m) => Contains(journal, m)' BY <2>2 DEF Contains
  <2>7. QED BY <2>2, <2>4, <2>5, <2>6
<1>3. QED BY <1>1, <1>2

(* A review replayed into the journal. *)
LEMMA NotesKeeps ==
  ASSUME IInv, NEW o, NEW i, ReplayNotes(o, i)
  PROVE  IInv'
<1> USE DEF IInv
<1>0. PICK n : n = Note(o, i) OBVIOUS
<1>1. /\ ~Free /\ replay.store = "lessons" /\ IsNext(o, i)
      /\ journal' = IF Contains(journal, n) THEN journal ELSE Append(journal, n)
      /\ replay' = [replay EXCEPT !.done = @ \cup {<<o, i>>}]
      /\ UNCHANGED <<now, decisions, observed, pause, plan, row>>
  BY <1>0 DEF ReplayNotes, storeVars
<1>2. o \in Owners /\ i \in DOMAIN row[o].notes BY <1>1, NextIs DEF Outbox
<1>3. n \in Lessons
  <2>1. row[o].notes[i] \in Review BY <1>2, RowTyped
  <2>2. QED BY <1>0, <1>2, <2>1 DEF Note, Lessons, Review
<1>4. /\ journal' \in Seq(Lessons) /\ IsInjective(journal)'
      /\ Contains(journal, n)'
      /\ \A m : Contains(journal, m) => Contains(journal, m)'
  BY <1>1, <1>3, JournalGrows DEF TypeOK, NotesInv
<1>5. \A x, j : Note(x, j)' = Note(x, j) /\ Event(x, j)' = Event(x, j) BY <1>1 DEF Note, Event
<1>6. /\ replay' \in [task : Tasks, store : {"routing", "lessons"},
                      done : SUBSET (Owners \X Nat)]
      /\ replay'.done \subseteq Waiting(replay.task, replay.store)'
      /\ replay'.store = "lessons" /\ replay'.done = replay.done \cup {<<o, i>>}
  BY <1>1, DoneTyped
<1>7. TypeOK' BY <1>1, <1>4, <1>6 DEF TypeOK
<1>8. NotesInv'
  <2> SUFFICES ASSUME NEW x \in Owners, NEW j \in DOMAIN row[x].notes, row[x].notes[j].recorded
               PROVE  Contains(journal', Note(x, j))
    BY <1>1, <1>4, <1>5 DEF NotesInv, Contains, IsInjective
  <2>1. Contains(journal, Note(x, j)) BY DEF NotesInv
  <2>2. QED BY <2>1, <1>4 DEF Contains
<1>9. ReplayInv'
  <2>1. \A e \in replay.done : Contains(journal, Note(e[1], e[2]))
    BY <1>1 DEF ReplayInv, Free
  <2>2. ASSUME NEW e \in replay'.done PROVE Contains(journal', Note(e[1], e[2]))
    <3>1. CASE e \in replay.done BY <2>1, <3>1, <1>4 DEF Contains
    <3>2. CASE e = <<o, i>> BY <3>2, <1>0, <1>4 DEF Contains
    <3>3. QED BY <3>1, <3>2, <1>6
  <2>3. \A e \in replay'.done : Contains(journal, Note(e[1], e[2]))'
    BY <2>2, <1>5 DEF Contains
  <2>4. QED BY <2>3, <1>6 DEF ReplayInv
<1>10. OutboxInv' /\ ObservedInv'
  BY <1>1, <1>5 DEF OutboxInv, ObservedInv, Holds, Known
<1>11. RowInv' BY <1>1 DEF RowInv, RowOK, Holds, Known, Recorded, PlanKey
<1>12. PauseInv' BY <1>1 DEF PauseInv, CaseOf
<1>13. QED BY <1>7, <1>8, <1>9, <1>10, <1>11, <1>12

(* Marking changes nothing but the marks. *)
LEMMA MarkedIs ==
  ASSUME NEW o, NEW S \in {Outcome, Review}, NEW entries \in Seq(S)
  PROVE  /\ Marked(o, entries) \in Seq(S) /\ DOMAIN Marked(o, entries) = DOMAIN entries
         /\ \A i \in DOMAIN entries :
              /\ Marked(o, entries)[i] \in S
              /\ Marked(o, entries)[i].recorded <=>
                    entries[i].recorded \/ <<o, i>> \in replay.done
              /\ Marked(o, entries)[i] = [entries[i] EXCEPT !.recorded =
                    entries[i].recorded \/ <<o, i>> \in replay.done]
<1>1. DOMAIN entries = 1 .. Len(entries) /\ Len(entries) \in Nat OBVIOUS
<1>2. ASSUME NEW i \in DOMAIN entries
      PROVE  /\ Marked(o, entries)[i] \in S
             /\ Marked(o, entries)[i].recorded <=>
                    entries[i].recorded \/ <<o, i>> \in replay.done
             /\ Marked(o, entries)[i] = [entries[i] EXCEPT !.recorded =
                    entries[i].recorded \/ <<o, i>> \in replay.done]
  <2>1. entries[i] \in S OBVIOUS
  <2>2. PICK mark \in BOOLEAN : mark = (entries[i].recorded \/ <<o, i>> \in replay.done)
    OBVIOUS
  <2>3. Marked(o, entries)[i] = [entries[i] EXCEPT !.recorded = mark]
    BY <2>2 DEF Marked
  <2>4. /\ Marked(o, entries)[i] \in S /\ Marked(o, entries)[i].recorded = mark
    <3>1. CASE S = Outcome BY <2>1, <2>3, <3>1 DEF Outcome
    <3>2. CASE S = Review BY <2>1, <2>3, <3>2 DEF Review
    <3>3. QED BY <3>1, <3>2
  <2>5. QED BY <2>2, <2>3, <2>4
<1>3. Marked(o, entries) = [i \in 1 .. Len(entries) |-> Marked(o, entries)[i]]
      /\ DOMAIN Marked(o, entries) = 1 .. Len(entries)
  BY <1>1 DEF Marked
<1>4. \A i \in 1 .. Len(entries) : Marked(o, entries)[i] \in S BY <1>1, <1>2
<1>5. Marked(o, entries) \in Seq(S) BY <1>1, <1>3, <1>4
<1>6. QED BY <1>1, <1>2, <1>3, <1>5

(* Marking of outcomes, field by field. *)
LEMMA MarkedEvents ==
  ASSUME NEW o, NEW entries \in Seq(Outcome)
  PROVE  /\ Marked(o, entries) \in Seq(Outcome) /\ DOMAIN Marked(o, entries) = DOMAIN entries
         /\ \A i \in DOMAIN entries :
              /\ Marked(o, entries)[i].outcome = entries[i].outcome
              /\ Marked(o, entries)[i].grade = entries[i].grade
              /\ Marked(o, entries)[i].decision = entries[i].decision
              /\ Marked(o, entries)[i].at = entries[i].at
              /\ Marked(o, entries)[i].recorded <=>
                    entries[i].recorded \/ <<o, i>> \in replay.done
<1>1. PICK S \in {Outcome, Review} : S = Outcome OBVIOUS
<1>2. entries \in Seq(S) BY <1>1
<1>3. /\ Marked(o, entries) \in Seq(S) /\ DOMAIN Marked(o, entries) = DOMAIN entries
      /\ \A i \in DOMAIN entries :
           /\ Marked(o, entries)[i].recorded <=>
                 entries[i].recorded \/ <<o, i>> \in replay.done
           /\ Marked(o, entries)[i] = [entries[i] EXCEPT !.recorded =
                 entries[i].recorded \/ <<o, i>> \in replay.done]
  BY <1>2, MarkedIs
<1>4. \A i \in DOMAIN entries : entries[i] \in Outcome OBVIOUS
<1>5. QED BY <1>1, <1>3, <1>4 DEF Outcome

(* Marking of reviews, field by field. *)
LEMMA MarkedNotes ==
  ASSUME NEW o, NEW entries \in Seq(Review)
  PROVE  /\ Marked(o, entries) \in Seq(Review) /\ DOMAIN Marked(o, entries) = DOMAIN entries
         /\ \A i \in DOMAIN entries :
              /\ Marked(o, entries)[i].attempt = entries[i].attempt
              /\ Marked(o, entries)[i].disposition = entries[i].disposition
              /\ Marked(o, entries)[i].corrected = entries[i].corrected
              /\ Marked(o, entries)[i].grade = entries[i].grade
              /\ Marked(o, entries)[i].recorded <=>
                    entries[i].recorded \/ <<o, i>> \in replay.done
<1>1. PICK S \in {Outcome, Review} : S = Review OBVIOUS
<1>2. entries \in Seq(S) BY <1>1
<1>3. /\ Marked(o, entries) \in Seq(S) /\ DOMAIN Marked(o, entries) = DOMAIN entries
      /\ \A i \in DOMAIN entries :
           /\ Marked(o, entries)[i].recorded <=>
                 entries[i].recorded \/ <<o, i>> \in replay.done
           /\ Marked(o, entries)[i] = [entries[i] EXCEPT !.recorded =
                 entries[i].recorded \/ <<o, i>> \in replay.done]
  BY <1>2, MarkedIs
<1>4. \A i \in DOMAIN entries : entries[i] \in Review OBVIOUS
<1>5. QED BY <1>1, <1>3, <1>4 DEF Review

(* The ledger written at the end marks what the stores have got. *)
LEMMA EndsKeeps == IInv /\ ReplayEnds => IInv'
<1> SUFFICES ASSUME IInv, ReplayEnds PROVE IInv'
  OBVIOUS
<1> USE DEF IInv
<1>1. /\ ~Free /\ replay.done = Waiting(replay.task, replay.store) /\ replay' = None
      /\ UNCHANGED <<now, decisions, observed, pause, plan, journal>>
      /\ replay.store \in {"routing", "lessons"}
  BY DEF ReplayEnds, storeVars, TypeOK, Free
<1> DEFINE Writes(o, store) == TaskOf[o] = replay.task /\ replay.store = store
           Events2(o) == IF Writes(o, "routing") THEN Marked(o, row[o].events) ELSE row[o].events
           Notes2(o) == IF Writes(o, "lessons") THEN Marked(o, row[o].notes) ELSE row[o].notes
<1>2. \A o \in Owners : row'[o] = [row[o] EXCEPT !.events = Events2(o), !.notes = Notes2(o)]
  <2>1. SUFFICES ASSUME NEW o \in Owners
                 PROVE row'[o] = [row[o] EXCEPT !.events = Events2(o), !.notes = Notes2(o)]
    BY Zenon
  <2>2. row[o] \in Rows BY RowTyped
  <2>3. row[o] = [row[o] EXCEPT !.events = row[o].events, !.notes = row[o].notes]
    BY <2>2 DEF Rows
  <2>4. CASE TaskOf[o] # replay.task
    BY <2>3, <2>4 DEF ReplayEnds
  <2>5. CASE TaskOf[o] = replay.task /\ replay.store = "routing"
    BY <2>2, <2>5 DEF ReplayEnds, Rows
  <2>6. CASE TaskOf[o] = replay.task /\ replay.store = "lessons"
    BY <2>2, <2>6 DEF ReplayEnds, Rows
  <2>7. QED BY <1>1, <2>4, <2>5, <2>6
<1>3. \A o \in Owners :
        /\ Events2(o) \in Seq(Outcome) /\ DOMAIN Events2(o) = DOMAIN row[o].events
        /\ \A i \in DOMAIN row[o].events :
             /\ Events2(o)[i].outcome = row[o].events[i].outcome
             /\ Events2(o)[i].grade = row[o].events[i].grade
             /\ Events2(o)[i].decision = row[o].events[i].decision
             /\ Events2(o)[i].at = row[o].events[i].at
             /\ Events2(o)[i].recorded =>
                  row[o].events[i].recorded
                  \/ (replay.store = "routing" /\ <<o, i>> \in replay.done)
  <2>1. \A o \in Owners : row[o].events \in Seq(Outcome) BY RowTyped
  <2>2. QED BY <2>1, MarkedEvents
<1>4. \A o \in Owners :
        /\ Notes2(o) \in Seq(Review) /\ DOMAIN Notes2(o) = DOMAIN row[o].notes
        /\ \A i \in DOMAIN row[o].notes :
             /\ Notes2(o)[i].attempt = row[o].notes[i].attempt
             /\ Notes2(o)[i].disposition = row[o].notes[i].disposition
             /\ Notes2(o)[i].corrected = row[o].notes[i].corrected
             /\ Notes2(o)[i].grade = row[o].notes[i].grade
             /\ Notes2(o)[i].recorded =>
                  row[o].notes[i].recorded
                  \/ (replay.store = "lessons" /\ <<o, i>> \in replay.done)
  <2>1. \A o \in Owners : row[o].notes \in Seq(Review) BY RowTyped
  <2>2. QED BY <2>1, MarkedNotes
<1> HIDE DEF Events2, Notes2, Writes
<1>5. \A o \in Owners :
        /\ row'[o] \in Rows /\ row'[o].events = Events2(o) /\ row'[o].notes = Notes2(o)
        /\ row'[o].definition = row[o].definition /\ row'[o].executor = row[o].executor
        /\ row'[o].decision = row[o].decision /\ row'[o].status = row[o].status
        /\ row'[o].attempt = row[o].attempt /\ row'[o].start = row[o].start
  <2>1. SUFFICES ASSUME NEW o \in Owners
        PROVE  /\ row'[o] \in Rows /\ row'[o].events = Events2(o) /\ row'[o].notes = Notes2(o)
               /\ row'[o].definition = row[o].definition /\ row'[o].executor = row[o].executor
               /\ row'[o].decision = row[o].decision /\ row'[o].status = row[o].status
               /\ row'[o].attempt = row[o].attempt /\ row'[o].start = row[o].start
    OBVIOUS
  <2>2. row[o] \in Rows BY RowTyped
  <2>3. PICK events \in Seq(Outcome), notes \in Seq(Review) :
           events = Events2(o) /\ notes = Notes2(o)
    BY <1>3, <1>4
  <2>4. row'[o] = [row[o] EXCEPT !.events = events, !.notes = notes] BY Zenon, <1>2, <2>3
  <2>5. QED BY ZenonT(60), <2>2, <2>3, <2>4 DEF Rows
<1>6. TypeOK'
  <2>1. row' = [o \in Owners |-> row'[o]] BY DEF ReplayEnds
  <2>2. row' \in [Owners -> Rows] BY <2>1, <1>5
  <2>3. QED BY <1>1, <1>5, <2>2 DEF TypeOK
<1>7. \A o \in Owners : \A i \in DOMAIN row[o].events : Event(o, i)' = Event(o, i)
  <2>1. SUFFICES ASSUME NEW o \in Owners, NEW i \in DOMAIN row[o].events
                 PROVE  Event(o, i)' = Event(o, i)
    OBVIOUS
  <2>2. /\ Events2(o)[i].outcome = row[o].events[i].outcome
        /\ Events2(o)[i].grade = row[o].events[i].grade
        /\ Events2(o)[i].decision = row[o].events[i].decision
        /\ Events2(o)[i].at = row[o].events[i].at
    BY <1>3
  <2>3. row'[o].events = Events2(o) /\ row'[o].executor = row[o].executor BY <1>5
  <2>4. QED BY <2>2, <2>3 DEF Event
<1>8. \A o \in Owners : \A i \in DOMAIN row[o].notes : Note(o, i)' = Note(o, i)
  <2>1. SUFFICES ASSUME NEW o \in Owners, NEW i \in DOMAIN row[o].notes
                 PROVE  Note(o, i)' = Note(o, i)
    OBVIOUS
  <2>2. /\ Notes2(o)[i].attempt = row[o].notes[i].attempt
        /\ Notes2(o)[i].disposition = row[o].notes[i].disposition
        /\ Notes2(o)[i].corrected = row[o].notes[i].corrected
        /\ Notes2(o)[i].grade = row[o].notes[i].grade
    BY <1>4
  <2>3. row'[o].notes = Notes2(o) BY <1>5
  <2>4. QED BY <2>2, <2>3 DEF Note
<1>9. RowInv'
  <2> SUFFICES ASSUME NEW o \in Owners PROVE RowOK(o)'
    BY DEF RowInv
  <2>1. row[o].events = <<>> => Events2(o) = <<>> BY <1>3, RowTyped
  <2>2. RowOK(o) BY DEF RowInv
  <2>3. Recorded(row[o].start)' = Recorded(row[o].start) BY <1>1, <1>5 DEF Recorded
  <2>4. QED BY <1>1, <1>5, <2>1, <2>2, <2>3 DEF RowOK, Holds, Known, PlanKey
<1>10. ObservedInv'
  <2> SUFFICES ASSUME NEW r \in observed
               PROVE  /\ r.index \in DOMAIN row'[r.owner].events
                      /\ r = Event(r.owner, r.index)' /\ Known(r.decision)'
    BY <1>1 DEF ObservedInv
  <2>1. r.owner \in Owners BY DEF TypeOK, Observations
  <2>2. QED BY <2>1, <1>1, <1>3, <1>5, <1>7 DEF ObservedInv, Known
<1>11. OutboxInv'
  <2> SUFFICES ASSUME NEW o \in Owners, NEW i \in DOMAIN row'[o].events
               PROVE  /\ Holds(o, row[o].events[i].decision)'
                      /\ row'[o].events[i].at <= now
                      /\ \A j \in DOMAIN row'[o].events :
                           i <= j => row'[o].events[i].at <= row'[o].events[j].at
                      /\ row'[o].events[i].recorded => Event(o, i)' \in observed
                      /\ \A j \in DOMAIN row'[o].events :
                           i < j /\ Event(o, j)' \in observed => Event(o, i)' \in observed
    BY <1>1 DEF OutboxInv
  <2>1. /\ Holds(o, row[o].events[i].decision) /\ row[o].events[i].at <= now
        /\ \A j \in DOMAIN row[o].events : i <= j => row[o].events[i].at <= row[o].events[j].at
        /\ row[o].events[i].recorded => Event(o, i) \in observed
        /\ \A j \in DOMAIN row[o].events :
              i < j /\ Event(o, j) \in observed => Event(o, i) \in observed
        /\ i \in DOMAIN row[o].events
    BY <1>3, <1>5 DEF OutboxInv
  <2>2. Holds(o, row[o].events[i].decision)'
    BY ZenonT(60), <2>1, <1>1, <1>3, <1>5 DEF Holds, Known
  <2>3. row'[o].events[i].recorded => Event(o, i)' \in observed
    <3>1. replay.store = "routing" /\ <<o, i>> \in replay.done => Event(o, i) \in observed
      BY <1>1 DEF ReplayInv, Free
    <3>2. QED BY <2>1, <3>1, <1>3, <1>5, <1>7
  <2>4. /\ DOMAIN row'[o].events = DOMAIN row[o].events
        /\ \A j \in DOMAIN row[o].events :
             row'[o].events[j].at = row[o].events[j].at /\ Event(o, j)' = Event(o, j)
    BY ZenonT(60), <1>3, <1>5, <1>7
  <2>5. QED BY <2>1, <2>2, <2>3, <2>4
<1>12. NotesInv'
  <2> SUFFICES ASSUME NEW o \in Owners, NEW i \in DOMAIN row'[o].notes, row'[o].notes[i].recorded
               PROVE  Contains(journal, Note(o, i)')
    BY <1>1 DEF NotesInv, Contains, IsInjective
  <2>1. i \in DOMAIN row[o].notes BY <1>4, <1>5
  <2>2. CASE row[o].notes[i].recorded BY <2>1, <2>2, <1>8 DEF NotesInv
  <2>3. CASE replay.store = "lessons" /\ <<o, i>> \in replay.done
    <3>1. Contains(journal, Note(o, i)) BY <2>3, <1>1 DEF ReplayInv, Free
    <3>2. QED BY <3>1, <2>1, <1>8
  <2>4. QED BY <2>1, <2>2, <2>3, <1>4, <1>5
<1>13. ReplayInv' BY <1>1 DEF ReplayInv
<1>14. PauseInv' BY <1>1 DEF PauseInv, CaseOf
<1>15. QED BY <1>6, <1>9, <1>10, <1>11, <1>12, <1>13, <1>14

-----------------------------------------------------------------------------
(* The inductive invariant. *)

(* The inductive invariant holds at first. *)
LEMMA InitInv == Init => IInv
<1> SUFFICES ASSUME Init PROVE IInv
  OBVIOUS
<1>1. /\ now = 0 /\ decisions = {} /\ observed = {} /\ replay = None /\ journal = <<>>
      /\ pause = [f \in Families |-> 0] /\ plan = [t \in Tasks |-> "none"]
      /\ row = [o \in Owners |-> Unplanned]
  BY DEF Init, StoreInit
<1>2. Unplanned \in Rows
  <2>1. <<>> \in Seq(Outcome) /\ <<>> \in Seq(Review) OBVIOUS
  <2>2. QED BY <2>1 DEF Unplanned, Rows
<1>3. \A o \in Owners : /\ row[o] = Unplanned /\ DOMAIN row[o].events = {}
                        /\ DOMAIN row[o].notes = {}
  BY <1>1 DEF Unplanned
<1>4. TypeOK
  <2>1. MaxTime \in Nat /\ Window \in Nat BY StoreAssumption
  <2>2. \A o \in Owners : row[o].status = "none" /\ row[o].attempt \in 0 .. MaxAttempts[o]
    BY <1>3, LedgerAssumption DEF Unplanned
  <2>3. QED BY <1>1, <1>2, <2>1, <2>2 DEF TypeOK
<1>5. RowInv BY <1>3 DEF RowInv, RowOK, Unplanned, Holds
<1>6. OutboxInv BY <1>3 DEF OutboxInv
<1>7. NotesInv BY <1>1, <1>3 DEF NotesInv, IsInjective
<1>8. ObservedInv /\ ReplayInv /\ PauseInv BY <1>1 DEF ObservedInv, ReplayInv, PauseInv
<1>9. QED BY <1>4, <1>5, <1>6, <1>7, <1>8 DEF IInv

(* The steps of an assignment keep it. *)
LEMMA WorkingKeeps ==
  ASSUME IInv, NEW o \in Owners, Working(o)
  PROVE  IInv'
<1>1. ASSUME NEW committed \in BOOLEAN, Start(o, committed) PROVE IInv'
  BY <1>1, StartKeeps
<1>2. CASE StartAgain(o) BY <1>2, StartAgainKeeps
<1>3. CASE Succeed(o) BY <1>3, SucceedKeeps
<1>4. ASSUME NEW outcome \in UsedOutcomes, Fail(o, outcome) PROVE IInv'
  BY <1>4, FailKeeps, LedgerAssumption
<1>5. ASSUME NEW disposition \in UsedOutcomes \cap Labelled, NEW corrected \in BOOLEAN,
             NEW grade \in UsedGrades, Use(o, disposition, corrected, grade)
      PROVE  IInv'
  BY <1>5, UseKeeps, LedgerAssumption
<1>6. ASSUME NEW outcome \in UsedResults, Result(o, outcome) PROVE IInv'
  BY <1>6, ResultKeeps, LedgerAssumption
<1>7. QED BY <1>1, <1>2, <1>3, <1>4, <1>5, <1>6 DEF Working

(* The steps of a replay keep it. *)
LEMMA ReplaysKeep ==
  ASSUME IInv, Replays
  PROVE  IInv'
<1>1. ASSUME NEW t \in Tasks, Replay(t) PROVE IInv'
  <2>1. UNCHANGED <<storeVars, plan, row, journal>> BY <1>1 DEF Replay
  <2>2. \E store \in {"routing", "lessons"} : replay' = Replaying(t, store)
    BY <1>1 DEF Replay
  <2>3. QED BY <2>1, <2>2, OnlyReplay
<1>2. ASSUME NEW o, NEW i, ReplayObserves(o, i) PROVE IInv' BY <1>2, ObservesKeeps
<1>3. ASSUME NEW o, NEW i, ReplayRefused(o, i) PROVE IInv'
  BY <1>3, OnlyReplay DEF ReplayRefused
<1>4. ASSUME NEW o, NEW i, ReplayNotes(o, i) PROVE IInv' BY <1>4, NotesKeeps
<1>5. CASE ReplayEnds BY <1>5, EndsKeeps
<1>6. CASE ReplayDies BY <1>6, OnlyReplay DEF ReplayDies
<1>7. QED BY <1>1, <1>2, <1>3, <1>4, <1>5, <1>6 DEF Replays

(* It is about the variables of the specification alone. *)
LEMMA StutterKeeps == IInv /\ UNCHANGED vars => IInv'
<1> SUFFICES ASSUME IInv, UNCHANGED vars PROVE IInv'
  OBVIOUS
<1>1. UNCHANGED <<now, decisions, observed, pause, plan, row, replay, journal>>
  BY DEF vars, storeVars, ledgerVars
<1>2. TypeOK' BY <1>1 DEF IInv, TypeOK, Waiting, Pending, Outbox, Of
<1>3. RowInv' BY <1>1 DEF IInv, RowInv, RowOK, Holds, Known, Recorded, PlanKey
<1>4. \A o, i : Event(o, i)' = Event(o, i) /\ Note(o, i)' = Note(o, i)
  BY <1>1 DEF Event, Note
<1>5. OutboxInv' /\ ObservedInv' BY <1>1, <1>4 DEF IInv, OutboxInv, ObservedInv, Holds, Known
<1>6. NotesInv' /\ ReplayInv'
  BY <1>1, <1>4 DEF IInv, NotesInv, ReplayInv, Contains, IsInjective
<1>7. PauseInv' BY <1>1 DEF IInv, PauseInv, CaseOf
<1>8. QED BY <1>2, <1>3, <1>5, <1>6, <1>7 DEF IInv

(* Every step keeps it. *)
LEMMA NextInv == IInv /\ [Next]_vars => IInv'
<1> SUFFICES ASSUME IInv, [Next]_vars PROVE IInv'
  OBVIOUS
<1>1. CASE Tick /\ UNCHANGED ledgerVars BY <1>1, TickKeeps
<1>2. CASE Planning BY <1>2, PlanKeeps DEF Planning
<1>3. ASSUME NEW o \in Owners, Working(o) PROVE IInv' BY <1>3, WorkingKeeps
<1>4. CASE Replays BY <1>4, ReplaysKeep
<1>5. CASE UNCHANGED vars BY <1>5, StutterKeeps
<1>6. QED BY <1>1, <1>2, <1>3, <1>4, <1>5 DEF Next

-----------------------------------------------------------------------------
(* What follows. *)

(* The inductive invariant of ledger, database and journal: wherever a plan, a  *)
(* start or a replay is cut off, rows, outboxes and stores fit together.        *)
THEOREM Consistent == Spec => []IInv
<1> QED BY InitInv, NextInv, PTL DEF Spec

(* Rows, outboxes and stores hold what the code can put there; a decision has   *)
(* one advice, and an assignment exists for a worker only.                      *)
THEOREM TypeCorrect == Spec => []TypeOK
<1>1. IInv => TypeOK BY DEF IInv
<1> QED BY <1>1, Consistent, PTL

(* An entry counted is the entry queued. *)
LEMMA InvCounted == IInv => CountedOnce
<1> SUFFICES ASSUME IInv PROVE CountedOnce
  OBVIOUS
<1>1. \A r \in observed : r.index \in DOMAIN row[r.owner].events /\ r = Event(r.owner, r.index)
  BY DEF IInv, ObservedInv
<1>2. \A o \in Owners : \A i \in DOMAIN row[o].events :
        row[o].events[i].recorded => Event(o, i) \in observed
  BY DEF IInv, OutboxInv
<1>3. QED BY <1>1, <1>2 DEF CountedOnce, IInv, NotesInv

(* However often replays die between the stores and are begun again, each entry *)
(* of an outbox is counted once, and nothing else is.                           *)
THEOREM EntriesCountedOnce == Spec => []CountedOnce
<1> QED BY InvCounted, Consistent, PTL

(* Entries come in order under a decision of their own owner. *)
LEMMA InvBlocks == IInv => OnlyLostPlansBlock
<1> SUFFICES ASSUME IInv, NEW t \in Tasks, NEW e \in Waiting(t, "routing"),
                    Event(e[1], e[2]).decision # Lost
             PROVE  Accepts(Event(e[1], e[2]))
  BY DEF OnlyLostPlansBlock
<1>1. PICK o \in Of(t) : \E i \in DOMAIN row[o].events :
            e = <<o, i>> /\ ~row[o].events[i].recorded
  BY WaitingIs DEF Outbox
<1>2. PICK i \in DOMAIN row[o].events : e = <<o, i>> BY <1>1
<1>3. o \in Owners BY DEF Of
<1>4. PICK r : r = Event(o, i) OBVIOUS
<1>5. /\ r.owner = o /\ r.index = i /\ r.decision = row[o].events[i].decision
      /\ r.at = row[o].events[i].at /\ r.decision # Lost
  BY <1>2, <1>4 DEF Event
<1>6. Known(r.decision) /\ r.decision.owner = o
  BY <1>3, <1>5 DEF IInv, OutboxInv, Holds
<1>7. \A q \in observed :
        /\ q.owner \in Owners /\ q.index \in DOMAIN row[q.owner].events
        /\ q = Event(q.owner, q.index)
  BY DEF IInv, ObservedInv, TypeOK, Observations
<1>8. CASE \E q \in observed : SameId(q, r)
  <2>1. PICK q \in observed : SameId(q, r) BY <1>8
  <2>2. q = r BY <2>1, <1>4, <1>5, <1>7 DEF SameId
  <2>3. QED BY <2>1, <2>2, <1>2, <1>4 DEF Accepts
<1>9. CASE ~ \E q \in observed : SameId(q, r)
  <2>1. \A q \in observed : q.decision = r.decision => q.owner = r.owner
    <3>1. SUFFICES ASSUME NEW q \in observed, q.decision = r.decision PROVE q.owner = o
      BY <1>5
    <3>2. q.decision = row[q.owner].events[q.index].decision BY <1>7 DEF Event
    <3>3. Holds(q.owner, q.decision) BY <1>7, <3>2 DEF IInv, OutboxInv
    <3>4. QED BY <3>1, <3>3, <1>5, <1>6 DEF Holds
  <2>2. InOrder(r)
    <3>1. SUFFICES ASSUME NEW q \in observed, q.owner = o PROVE q.at <= r.at
      BY <1>5 DEF InOrder
    <3>2. PICK j \in DOMAIN row[o].events : j = q.index /\ q = Event(o, j) BY <1>7, <3>1
    <3>3. q.at = row[o].events[j].at BY <3>2 DEF Event
    <3>4. i \in Nat /\ j \in Nat BY <1>3, RowTyped DEF IInv
    <3>5. ~(i < j)
      <4>1. i < j => Event(o, i) \in observed BY <1>3, <3>2 DEF IInv, OutboxInv
      <4>2. SameId(r, r) BY DEF SameId
      <4>3. QED BY <4>1, <4>2, <1>4, <1>9
    <3>6. j <= i BY <3>4, <3>5
    <3>7. row[o].events[j].at <= row[o].events[i].at BY <3>6, <1>3 DEF IInv, OutboxInv
    <3>8. QED BY <3>3, <3>7, <1>5
  <2>3. QED BY <2>1, <2>2, <1>2, <1>4, <1>6, <1>9 DEF Accepts
<1>10. QED BY <1>8, <1>9

(* The outbox of a task is blocked by nothing but an outcome under a decision   *)
(* that a crash between ledger and commit has lost.                             *)
THEOREM OutboxBlocked == Spec => []OnlyLostPlansBlock
<1> QED BY InvBlocks, Consistent, PTL

(* An attempt that executed holds its decision. *)
LEMMA InvDecided == IInv => RunsAsDecided
<1> SUFFICES ASSUME IInv, NEW o \in Owners, row[o].attempt > 0
             PROVE  /\ row[o].status = "succeeded" => Known(row[o].start) /\ row[o].start.owner = o
                    /\ Requested[o] = "auto" =>
                         /\ Known(row[o].start) /\ row[o].start = row[o].decision
                         /\ row[o].decision = PlanKey(o, row[o].definition)
                         /\ Recorded(row[o].start).action = "worker"
  BY DEF RunsAsDecided
<1>1. RowOK(o) /\ (row[o].status # "none" => row[o].executor = "worker")
  BY RowFacts DEF IInv, TypeOK, RowInv
<1>2. row[o].executor = "worker" BY <1>1 DEF RowOK
<1>3. QED BY <1>1, <1>2 DEF RowOK, Holds

(* An attempt that executed runs and is judged under a decision the database    *)
(* holds; for automatic work it is the one that gave the deliverable to a       *)
(* worker.                                                                      *)
THEOREM DecisionsFollowed == Spec => []RunsAsDecided
<1> QED BY InvDecided, Consistent, PTL

-----------------------------------------------------------------------------
(* Pauses. *)

(* Nothing but a start changes the number of attempts. *)
LEMMA OnlyStarts ==
  ASSUME IInv, [Next]_vars, NEW o \in Owners, row'[o].attempt # row[o].attempt
  PROVE  \E committed \in BOOLEAN : Start(o, committed)
<1>1. row \in [Owners -> Rows] /\ \A x \in Owners : row[x] \in Rows
  BY DEF IInv, TypeOK
<1>2. row' # row OBVIOUS
<1>3. ~Planning
  <2>1. SUFFICES ASSUME NEW t, NEW definition, NEW vetoes, NEW reached,
                        Plan(t, definition, vetoes, reached)
                 PROVE FALSE
    BY DEF Planning
  <2>2. PICK decision, key :
           row'[o] = row[o] \/ row'[o] = Planned(o, definition[o], decision, key)
    BY <2>1 DEF Plan
  <2>3. Planned(o, definition[o], decision, key).attempt = row[o].attempt
    BY <1>1 DEF Planned, Rows
  <2>4. QED BY <2>2, <2>3
<1>4. ~Replays
  <2>1. ~ReplayEnds
    <3>1. SUFFICES ASSUME ReplayEnds PROVE FALSE OBVIOUS
    <3>2. PICK events, notes : \/ row'[o] = row[o]
                               \/ row'[o] = [row[o] EXCEPT !.events = events]
                               \/ row'[o] = [row[o] EXCEPT !.notes = notes]
      BY <3>1 DEF ReplayEnds
    <3>3. QED BY <3>2, <1>1 DEF Rows
  <2>2. QED BY <1>2, <2>1 DEF Replays, Replay, ReplayObserves, ReplayRefused, ReplayNotes,
                               ReplayDies
<1>5. PICK x \in Owners : Working(x)
  BY <1>2, <1>3, <1>4 DEF Next, vars, ledgerVars
<1>6. ASSUME StartAgain(x) PROVE FALSE
  <2>1. PICK key : row' = [row EXCEPT ![x].start = key] BY <1>6 DEF StartAgain
  <2>2. QED BY <2>1, <1>1 DEF Rows
<1>7. ~Succeed(x)
  BY SMTT(60), <1>1 DEF Succeed, Rows
<1>8. ASSUME NEW outcome, Fail(x, outcome) PROVE FALSE
  <2>1. PICK events : row' = [row EXCEPT ![x].status = "failed", ![x].error = outcome,
                                         ![x].events = events]
    BY <1>8 DEF Fail
  <2>2. QED BY <2>1, <1>1 DEF Rows
<1>9. ASSUME NEW disposition, NEW corrected, NEW grade, Use(x, disposition, corrected, grade)
      PROVE  FALSE
  <2>1. PICK at, events, notes :
           row' = [row EXCEPT ![x].disposition = disposition, ![x].at = at,
                              ![x].events = events, ![x].notes = notes]
    BY Zenon, <1>9 DEF Use
  <2>2. QED BY <2>1, <1>1 DEF Rows
<1>10. ASSUME NEW outcome, Result(x, outcome) PROVE FALSE
  <2>1. PICK events : row' = [row EXCEPT ![x].events = events] BY <1>10 DEF Result
  <2>2. QED BY <2>1, <1>1 DEF Rows
<1>11. PICK committed \in BOOLEAN : Start(x, committed)
  BY <1>5, <1>6, <1>7, <1>8, <1>9, <1>10 DEF Working
<1>12. x = o
  <2>1. PICK start, attempt :
           row' = [row EXCEPT ![x].status = "running", ![x].error = "none",
                              ![x].disposition = "none", ![x].at = 0, ![x].start = start,
                              ![x].attempt = attempt]
    BY Zenon, <1>11 DEF Start
  <2>2. QED BY <2>1, <1>1
<1>13. QED BY <1>11, <1>12

(* A start finds the family not paused. *)
LEMMA StartsUnpaused ==
  ASSUME IInv, [Next]_vars, NEW o \in Owners, row'[o].attempt # row[o].attempt,
         Requested[o] = "auto", NEW r \in observed,
         Family[r.owner] = Family[o], r.by = "worker", r.outcome = "rejected",
         r.grade = "major" \/ \A q \in CaseOf(r.owner, observed) : q.grade = "none"
  PROVE  r.at + Window <= now
<1>1. PICK committed \in BOOLEAN : Start(o, committed) BY OnlyStarts
<1>2. MayStart(row[o].decision) BY <1>1 DEF Start
<1>3. row[o].decision.owner = o
  <2>1. RowOK(o) /\ row[o].executor = "worker" /\ Known(row[o].decision)
        /\ decisions \subseteq Decisions
    BY <1>1, <1>2, RowFacts DEF Start, MayStart
  <2>2. row[o].decision # Lost BY <2>1, LostUnknown
  <2>3. QED BY <2>1, <2>2 DEF RowOK, PlanKey
<1>4. ~Cooling(o) BY <1>2, <1>3 DEF MayStart
<1>5. pause[Family[o]] \in Nat /\ now \in Nat /\ r.at \in Nat /\ Window \in Nat
  BY StoreAssumption DEF IInv, TypeOK, Observations, Families
<1>6. pause[Family[o]] <= now BY <1>4, <1>5 DEF Cooling
<1>7. pause[Family[o]] >= r.at + Window BY DEF IInv, PauseInv
<1>8. QED BY <1>5, <1>6, <1>7

(* No automatic attempt is started within the window after a rejection the      *)
(* database knows of, whatever is recorded late or by another task in between.  *)
THEOREM StartsPaused == Spec => PausedAfterRejection
<1>1. IInv /\ [Next]_vars =>
        [\A o \in Owners :
           row'[o].attempt # row[o].attempt /\ Requested[o] = "auto" =>
             \A r \in observed :
               /\ Family[r.owner] = Family[o] /\ r.by = "worker" /\ r.outcome = "rejected"
               /\ r.grade = "major" \/ \A q \in CaseOf(r.owner, observed) : q.grade = "none"
               => r.at + Window <= now]_vars
  BY StartsUnpaused
<1> QED BY <1>1, Consistent, PTL DEF Spec, PausedAfterRejection
=============================================================================
