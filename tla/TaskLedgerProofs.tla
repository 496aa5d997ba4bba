-------------------------- MODULE TaskLedgerProofs --------------------------
(* What holds of a session's ledgers for any number of turns, deliverables and *)
(* hooks: an inductive invariant, one lemma per action, the properties.        *)
EXTENDS TaskLedger, FiniteSetTheorems, TLAPS

(* Exactly the workers' deliverables have an assignment. *)
Fits(k) == \A i \in Ids : k.items[i].executor = "worker" <=> k.items[i].row # "none"

(* What a ledger promises of the edits e and the inspections n of its task. *)
LedgerOK(k, e, n) ==
    /\ n \subseteq k.inspected /\ \A u, v \in k.inspected : u = v
    /\ k.status \in {"none", "closed"} => k.items = NoItems /\ n = {} /\ e = {}
    /\ e # {} => k.events
    /\ \A i \in e : Own(k.items[i]) => k.items[i].stale \/ k.items[i].result = "none"
    /\ k.status = "completed" =>
         \A i \in Ids :
            /\ Own(k.items[i]) => Settled(k.items[i])
            /\ k.items[i].executor = "worker" =>
                  Ended(k.items[i]) /\ k.items[i].disposition # "none"
LedgerInv == \A t \in Turns : LedgerOK(task[t], edited[t], nudged[t])

(* What a prompt is about to write once more is as good as what it replaces. *)
WriteInv ==
    prompt.at = "write" =>
        LET t == prompt.turn  k == prompt.found
        IN  /\ k.status # "none"
            /\ LedgerOK(k, edited[t], nudged[t])
            /\ \A i \in Ids : k.items[i].dispatches = task[t].items[i].dispatches
FoundFits == prompt.at = "write" => Fits(prompt.found)

(* The authorized dispatches are the recorded ones, one for each call. *)
BoundInv ==
    /\ \A u \in Tools, t \in Turns, i \in Ids :
          <<u, t, i>> \in bound <=> u \in task[t].items[i].dispatches
    /\ BoundOnce

Typed == TypeOK /\ FoundFits
Sound == LedgerInv /\ WriteInv /\ BoundInv

-----------------------------------------------------------------------------
(* Ledgers as records. *)

Step(t, k) == task' = [task EXCEPT ![t] = k]

With(k, i, x) == [k EXCEPT !.items = [k.items EXCEPT ![i] = x]]

(* One ledger is replaced, the others stay. *)
LEMMA StepIs ==
  ASSUME task \in [Turns -> Task], NEW t \in Turns, NEW k \in Task, Step(t, k)
  PROVE  /\ task' \in [Turns -> Task] /\ task'[t] = k
         /\ \A s \in Turns \ {t} : task'[s] = task[s]
BY DEF Step

(* One deliverable is replaced, the others stay. *)
LEMMA WithIs ==
  ASSUME NEW k \in Task, NEW i \in Ids, NEW x \in Item
  PROVE  /\ With(k, i, x) \in Task
         /\ With(k, i, x).items[i] = x
         /\ \A j \in Ids \ {i} : With(k, i, x).items[j] = k.items[j]
         /\ With(k, i, x).status = k.status /\ With(k, i, x).born = k.born
         /\ With(k, i, x).inspected = k.inspected /\ With(k, i, x).events = k.events
BY DEF With, Task

(* A ledger's status is replaced, the rest stays. *)
LEMMA StatusIs ==
  ASSUME NEW k \in Task,
         NEW s \in {"none", "planning", "planned", "active", "completed", "closed"}
  PROVE  LET n == [k EXCEPT !.status = s]
         IN  /\ n \in Task /\ n.status = s /\ n.items = k.items /\ n.born = k.born
             /\ n.inspected = k.inspected /\ n.events = k.events
BY DEF Task

(* The fields of ledgers and deliverables. *)
LEMMA Fields ==
  /\ \A k \in Task :
       /\ k.status \in {"none", "planning", "planned", "active", "completed", "closed"}
       /\ k.items \in [Ids -> Item] /\ k.born \in Nat
       /\ k.inspected \subseteq Tools /\ k.events \in BOOLEAN
  /\ \A x \in Item :
       /\ x.executor \in Executors \cup {"none"} /\ x.scope \subseteq Paths
       /\ x.result \in {"none", "accepted", "rework"} /\ x.stale \in BOOLEAN
       /\ x.dispatches \subseteq Tools
       /\ x.row \in {"none", "planned", "running", "succeeded", "failed"}
       /\ x.job \in BOOLEAN /\ x.disposition \in {"none", "kept", "needs-rework"}
       /\ x.final \in BOOLEAN
BY DEF Task, Item

(* What a command writes to one deliverable is a step of its ledger. *)
LEMMA SetItemIs ==
  ASSUME task \in [Turns -> Task], NEW t \in Turns, NEW i \in Ids, NEW x, SetItem(t, i, x)
  PROVE  Step(t, With(task[t], i, x))
BY DEF SetItem, Step, With

(* So is what it writes to one deliverable and the status. *)
LEMMA OnlyIs ==
  ASSUME task \in [Turns -> Task], NEW t \in Turns, NEW i \in Ids, NEW x, NEW s,
         Only(t, i, x, s)
  PROVE  Step(t, [With(task[t], i, x) EXCEPT !.status = s])
BY DEF Only, Step, With

(* A deliverable that does not exist, and a new ledger. *)
LEMMA NewIs ==
  /\ Absent \in Item /\ NoItems \in [Ids -> Item] /\ NoTask \in Task
  /\ Opened \in Task /\ Opened.status = "planning" /\ Opened.items = NoItems
  /\ Opened.inspected = {}
  /\ Fits(NoTask) /\ Fits(Opened)
<1>1. Absent \in Item BY DEF Absent, Item, Executors
<1>2. NoItems \in [Ids -> Item] BY <1>1 DEF NoItems
<1>3. NoTask \in Task BY <1>2 DEF NoTask, Task
<1>4. Cardinality({t \in Turns : Exists(t)}) \in Nat
  <2>1. {t \in Turns : Exists(t)} \subseteq Turns OBVIOUS
  <2>2. IsFiniteSet({t \in Turns : Exists(t)})
    BY <2>1, LedgerAssumption, FS_Subset
  <2>3. QED BY <2>2, FS_CardinalityType
<1>5. /\ Opened \in Task /\ Opened.status = "planning" /\ Opened.items = NoItems
      /\ Opened.inspected = {}
  <2>1. 1 + Cardinality({t \in Turns : Exists(t)}) \in Nat BY <1>4
  <2>2. QED BY Zenon, <1>2, <2>1 DEF Opened, NoTask, Task
<1>6. Fits(NoTask) /\ Fits(Opened)
  BY <1>5 DEF NoTask, Fits, NoItems, Absent
<1>7. QED BY <1>1, <1>2, <1>3, <1>5, <1>6

-----------------------------------------------------------------------------
(* What steps of one ledger preserve. *)

Others == /\ prompt' = prompt /\ hook' \in [Hooks -> HookState]
          /\ nudged' \in [Turns -> SUBSET Tools]
          /\ bound' \subseteq Tools \X Turns \X Ids
          /\ edited' \in [Turns -> SUBSET Ids]

(* A well-formed ledger in place of another keeps the types. *)
LEMMA StepTyped ==
  ASSUME TypeOK, FoundFits, NEW t \in Turns, NEW k \in Task, Fits(k), Step(t, k), Others
  PROVE  TypeOK' /\ FoundFits'
<1>1. /\ task' \in [Turns -> Task] /\ task'[t] = k
      /\ \A s \in Turns \ {t} : task'[s] = task[s]
  BY StepIs DEF TypeOK
<1>2. \A s \in Turns : Fits(task'[s])
  BY <1>1 DEF TypeOK, Fits
<1>3. FoundFits'
  BY DEF FoundFits, Fits, Others
<1>4. QED BY <1>1, <1>2, <1>3 DEF TypeOK, Fits, Others

(* Steps that do not touch a ledger keep the types. *)
LEMMA SameTyped ==
  ASSUME TypeOK, FoundFits, task' = task, Others
  PROVE  TypeOK' /\ FoundFits'
BY DEF TypeOK, FoundFits, Fits, Others

Marks(t, e, n) ==
    edited' = [edited EXCEPT ![t] = e] /\ nudged' = [nudged EXCEPT ![t] = n]

(* A sound ledger in place of another keeps all ledgers sound. *)
LEMMA StepSound ==
  ASSUME TypeOK, LedgerInv, NEW t \in Turns, NEW k \in Task, Step(t, k),
         NEW e, NEW n, Marks(t, e, n), LedgerOK(k, e, n)
  PROVE  LedgerInv'
<1>1. /\ task'[t] = k /\ \A s \in Turns \ {t} : task'[s] = task[s]
  BY StepIs DEF TypeOK
<1>2. /\ edited'[t] = e /\ nudged'[t] = n
      /\ \A s \in Turns \ {t} : edited'[s] = edited[s] /\ nudged'[s] = nudged[s]
  BY DEF Marks, TypeOK
<1>3. ASSUME NEW s \in Turns PROVE LedgerOK(task'[s], edited'[s], nudged'[s])
  <2>1. CASE s = t BY <1>1, <1>2, <2>1
  <2>2. CASE s # t
    <3>1. task'[s] = task[s] /\ edited'[s] = edited[s] /\ nudged'[s] = nudged[s]
      BY <1>1, <1>2, <2>2
    <3>2. LedgerOK(task[s], edited[s], nudged[s]) BY DEF LedgerInv
    <3>3. QED BY <3>1, <3>2
  <2>3. QED BY <2>1, <2>2
<1>4. LedgerInv' = \A s \in Turns : LedgerOK(task'[s], edited'[s], nudged'[s])
  BY DEF LedgerInv, LedgerOK, Own, Settled, Ended
<1>5. QED BY <1>3, <1>4

(* Unless a prompt is under way there is nothing it is about to write. *)
LEMMA AloneMeans ==
  ASSUME PromptAlone, Alone, prompt' = prompt
  PROVE  WriteInv'
BY DEF Alone, WriteInv

(* A step that authorizes no dispatch and keeps those recorded. *)
LEMMA BoundKept ==
  ASSUME TypeOK, BoundInv, NEW t \in Turns, NEW k \in Task, Step(t, k), bound' = bound,
         \A i \in Ids : k.items[i].dispatches = task[t].items[i].dispatches
  PROVE  BoundInv'
<1>1. /\ task'[t] = k /\ \A s \in Turns \ {t} : task'[s] = task[s]
  BY StepIs DEF TypeOK
<1>2. \A s \in Turns, i \in Ids : task'[s].items[i].dispatches = task[s].items[i].dispatches
  BY SMT, <1>1
<1>3. QED BY <1>2 DEF BoundInv, BoundOnce

(* A row's step leaves its ledger sound, also if it opens the task again. *)
LEMMA RowSound ==
  ASSUME TypeOK, LedgerInv, NEW t \in Turns, NEW i \in Ids, NEW x \in Item,
         LET y == task[t].items[i]
         IN  /\ y.executor # "none"
             /\ x.executor = y.executor /\ x.result = y.result /\ x.stale = y.stale,
         NEW s \in {"active", task[t].status},
         s = "completed" =>
           LET y == task[t].items[i]
           IN  Ended(y) /\ y.disposition # "none" => Ended(x) /\ x.disposition # "none"
  PROVE  LedgerOK([With(task[t], i, x) EXCEPT !.status = s], edited[t], nudged[t])
<1> DEFINE k == task[t]
           w == With(k, i, x)
           n == [w EXCEPT !.status = s]
<1>1. k \in Task BY DEF TypeOK
<1>2. s \in {"none", "planning", "planned", "active", "completed", "closed"}
  BY <1>1, Fields
<1>3. /\ w \in Task /\ w.items[i] = x
      /\ \A j \in Ids \ {i} : w.items[j] = k.items[j]
      /\ w.inspected = k.inspected /\ w.events = k.events
  BY <1>1, WithIs
<1>4. /\ n.status = s /\ n.items = w.items
      /\ n.inspected = k.inspected /\ n.events = k.events
  BY <1>2, <1>3, StatusIs
<1>5. LedgerOK(k, edited[t], nudged[t]) BY DEF LedgerInv
<1>6. k.status \notin {"none", "closed"}
  BY <1>5 DEF LedgerOK, NoItems, Absent
<1>7. s \notin {"none", "closed"} BY <1>6
<1>8. edited[t] \subseteq Ids BY DEF TypeOK
<1>9. \A j \in Ids :
        /\ n.items[j].executor = k.items[j].executor
        /\ n.items[j].result = k.items[j].result
        /\ n.items[j].stale = k.items[j].stale
  BY <1>3, <1>4
<1>10. \A j \in edited[t] : Own(n.items[j]) => n.items[j].stale \/ n.items[j].result = "none"
  BY <1>5, <1>8, <1>9 DEF LedgerOK, Own
<1>11. ASSUME n.status = "completed", NEW j \in Ids
       PROVE  /\ Own(n.items[j]) => Settled(n.items[j])
              /\ n.items[j].executor = "worker" =>
                    Ended(n.items[j]) /\ n.items[j].disposition # "none"
  <2>1. k.status = "completed" BY <1>4, <1>11
  <2>2. Own(n.items[j]) => Settled(n.items[j])
    BY <1>5, <1>9, <2>1 DEF LedgerOK, Own, Settled
  <2>3. CASE j = i
    <3>1. s = "completed" BY <1>4, <1>11
    <3>2. k.items[i].executor = "worker" =>
            Ended(k.items[i]) /\ k.items[i].disposition # "none"
      BY <1>5, <2>1 DEF LedgerOK
    <3>3. n.items[i] = x BY <1>3, <1>4
    <3>4. QED BY <2>2, <2>3, <3>1, <3>2, <3>3
  <2>4. CASE j # i
    <3>1. n.items[j] = k.items[j] BY <1>3, <1>4, <2>4
    <3>2. QED BY <1>5, <2>1, <2>2, <3>1 DEF LedgerOK
  <2>5. QED BY <2>3, <2>4
<1>12. QED BY <1>4, <1>5, <1>7, <1>10, <1>11 DEF LedgerOK

-----------------------------------------------------------------------------
(* One lemma per action: it keeps the types, and soundness if nothing runs *)
(* beside a prompt.  First the steps of workers and of their review.       *)

RestSame == UNCHANGED <<hook, prompt, nudged, bound, edited>>

(* A step that changes the row of a deliverable, and may open its task again. *)
LEMMA RowStep ==
  ASSUME Typed, NEW t \in Turns, NEW i \in Ids, NEW x \in Item,
         LET y == task[t].items[i]
         IN  /\ y.executor # "none" /\ (y.row = "none" <=> x.row = "none")
             /\ x.executor = y.executor /\ x.result = y.result /\ x.stale = y.stale
             /\ x.dispatches = y.dispatches,
         NEW s \in {"active", task[t].status},
         s = "completed" =>
           LET y == task[t].items[i]
           IN  Ended(y) /\ y.disposition # "none" => Ended(x) /\ x.disposition # "none",
         Step(t, [With(task[t], i, x) EXCEPT !.status = s]), RestSame
  PROVE  Typed' /\ (Sound => Sound')
<1> DEFINE k == task[t]
           w == With(k, i, x)
           n == [w EXCEPT !.status = s]
<1>1. k \in Task BY DEF Typed, TypeOK
<1>2. /\ w \in Task /\ w.items[i] = x
      /\ \A j \in Ids \ {i} : w.items[j] = k.items[j]
  BY <1>1, WithIs
<1>3. n \in Task /\ n.items = w.items
  <2>1. s \in {"none", "planning", "planned", "active", "completed", "closed"}
    BY <1>1, Fields
  <2>2. QED BY ZenonT(60), <1>2, <2>1, StatusIs
<1>4. Fits(n)
  BY <1>2, <1>3 DEF Fits, Typed, TypeOK
<1>5. Typed'
  BY <1>3, <1>4, StepTyped DEF Typed, RestSame, Others, TypeOK
<1>6. ASSUME Sound PROVE Sound'
  <2>1. LedgerOK(n, edited[t], nudged[t])
    BY <1>6, RowSound DEF Typed, Sound
  <2>2. Marks(t, edited[t], nudged[t])
    BY DEF Marks, RestSame, Typed, TypeOK
  <2>3. LedgerInv'
    BY <1>3, <1>6, <2>1, <2>2, StepSound DEF Typed, Sound
  <2>4. \A j \in Ids : n.items[j].dispatches = k.items[j].dispatches
    BY <1>2, <1>3
  <2>5. BoundInv'
    BY <1>3, <1>6, <2>4, BoundKept DEF Typed, Sound, RestSame
  <2>6. task'[t] = n /\ \A u \in Turns \ {t} : task'[u] = task[u]
    BY <1>3, StepIs DEF Typed, TypeOK
  <2>7. \A u \in Turns, j \in Ids : task'[u].items[j].dispatches = task[u].items[j].dispatches
    <3>1. ASSUME NEW u \in Turns, NEW j \in Ids
          PROVE  task'[u].items[j].dispatches = task[u].items[j].dispatches
      <4>1. CASE u = t BY <2>4, <2>6, <4>1
      <4>2. CASE u # t BY <2>6, <4>2
      <4>3. QED BY <4>1, <4>2
    <3>2. QED BY <3>1
  <2>8. WriteInv'
    <3>1. SUFFICES ASSUME prompt'.at = "write"
                   PROVE  LET u == prompt'.turn  f == prompt'.found
                          IN  /\ f.status # "none"
                              /\ LedgerOK(f, edited'[u], nudged'[u])
                              /\ \A j \in Ids :
                                    f.items[j].dispatches = task'[u].items[j].dispatches
      BY DEF WriteInv, LedgerOK, Own, Settled, Ended
    <3>2. prompt' = prompt /\ edited' = edited /\ nudged' = nudged BY DEF RestSame
    <3>3. prompt.turn \in Turns
      BY <3>1, <3>2 DEF Typed, TypeOK, PromptState, Idle
    <3>4. QED BY Zenon, <1>6, <2>7, <3>1, <3>2, <3>3 DEF Sound, WriteInv
  <2>9. QED BY <2>3, <2>5, <2>8 DEF Sound
<1>7. QED BY <1>5, <1>6

(* With its status unchanged. *)
LEMMA RowItem ==
  ASSUME Typed, NEW t \in Turns, NEW i \in Ids, NEW x \in Item,
         LET y == task[t].items[i]
         IN  /\ y.executor # "none" /\ (y.row = "none" <=> x.row = "none")
             /\ x.executor = y.executor /\ x.result = y.result /\ x.stale = y.stale
             /\ x.dispatches = y.dispatches
             /\ Ended(y) /\ y.disposition # "none" => Ended(x) /\ x.disposition # "none",
         SetItem(t, i, x), RestSame
  PROVE  Typed' /\ (Sound => Sound')
<1>1. task[t] \in Task BY DEF Typed, TypeOK
<1>2. With(task[t], i, x) \in Task /\ With(task[t], i, x).status = task[t].status
  BY <1>1, WithIs
<1>3. [With(task[t], i, x) EXCEPT !.status = task[t].status] = With(task[t], i, x)
  BY <1>2 DEF Task
<1>4. Step(t, With(task[t], i, x))
  BY SetItemIs DEF Typed, TypeOK
<1>5. QED BY ZenonT(60), <1>3, <1>4, RowStep

(* A deliverable with an assignment exists. *)
LEMMA RowMeans ==
  ASSUME Typed, NEW t \in Turns, NEW i \in Ids, task[t].items[i].row # "none"
  PROVE  /\ task[t].items[i] \in Item
         /\ task[t].items[i].executor = "worker"
BY Fields DEF Typed, TypeOK

(* Binding a job to a row. *)
LEMMA PrepareStep ==
  ASSUME Typed, NEW t \in Turns, NEW i \in Ids, Prepare(t, i)
  PROVE  Typed' /\ (Sound => Sound')
<1> DEFINE y == task[t].items[i]
           x == [y EXCEPT !.job = TRUE]
<1>1. y.row # "none" /\ SetItem(t, i, x) /\ RestSame
  BY DEF Prepare, RestSame
<1>2. y \in Item /\ y.executor = "worker" BY <1>1, RowMeans
<1>3. x \in Item /\ x.executor = y.executor /\ x.result = y.result /\ x.stale = y.stale
      /\ x.dispatches = y.dispatches /\ x.row = y.row /\ x.disposition = y.disposition
  BY <1>2 DEF Item
<1>4. QED BY <1>1, <1>2, <1>3, RowItem DEF Ended

(* A preparation that failed ends the row. *)
LEMMA PreparationFailsStep ==
  ASSUME Typed, NEW t \in Turns, NEW i \in Ids, PreparationFails(t, i)
  PROVE  Typed' /\ (Sound => Sound')
<1> DEFINE y == task[t].items[i]
           x == [y EXCEPT !.row = "failed"]
<1>1. y.row = "planned" /\ SetItem(t, i, x) /\ RestSame
  BY DEF PreparationFails, RestSame
<1>2. y \in Item /\ y.executor = "worker" BY <1>1, RowMeans
<1>3. x \in Item /\ x.executor = y.executor /\ x.result = y.result /\ x.stale = y.stale
      /\ x.dispatches = y.dispatches /\ x.row = "failed" /\ x.disposition = y.disposition
  BY <1>2 DEF Item
<1>4. QED BY <1>1, <1>2, <1>3, RowItem DEF Ended

(* A start opens the task again. *)
LEMMA StartStep ==
  ASSUME Typed, NEW t \in Turns, NEW i \in Ids, Start(t, i)
  PROVE  Typed' /\ (Sound => Sound')
<1> DEFINE y == task[t].items[i]
           x == [y EXCEPT !.row = "running", !.disposition = "none"]
<1>1. y.row # "none" /\ Only(t, i, x, "active") /\ RestSame
  BY DEF Start, RestSame
<1>2. y \in Item /\ y.executor = "worker" BY <1>1, RowMeans
<1>3. x \in Item /\ x.executor = y.executor /\ x.result = y.result /\ x.stale = y.stale
      /\ x.dispatches = y.dispatches /\ x.row = "running"
  BY <1>2 DEF Item
<1>4. Step(t, [With(task[t], i, x) EXCEPT !.status = "active"])
  BY <1>1, OnlyIs DEF Typed, TypeOK
<1>5. QED BY <1>1, <1>2, <1>3, <1>4, RowStep

(* An execution ends. *)
LEMMA FinishStep ==
  ASSUME Typed, NEW t \in Turns, NEW i \in Ids,
         NEW status \in {"succeeded", "failed"}, Finish(t, i, status)
  PROVE  Typed' /\ (Sound => Sound')
<1> DEFINE y == task[t].items[i]
           x == [y EXCEPT !.row = status]
<1>1. y.row = "running" /\ SetItem(t, i, x) /\ RestSame
  BY DEF Finish, RestSame
<1>2. y \in Item /\ y.executor = "worker" BY <1>1, RowMeans
<1>3. x \in Item /\ x.executor = y.executor /\ x.result = y.result /\ x.stale = y.stale
      /\ x.dispatches = y.dispatches /\ x.row = status /\ x.disposition = y.disposition
  BY <1>2 DEF Item
<1>4. QED BY <1>1, <1>2, <1>3, RowItem DEF Ended

(* A result is reviewed. *)
LEMMA UseStep ==
  ASSUME Typed, NEW t \in Turns, NEW i \in Ids,
         NEW disposition \in {"kept", "needs-rework"}, Use(t, i, disposition)
  PROVE  Typed' /\ (Sound => Sound')
<1> DEFINE y == task[t].items[i]
           x == [y EXCEPT !.disposition = disposition]
<1>1. Ended(y) /\ SetItem(t, i, x) /\ RestSame
  BY DEF Use, RestSame
<1>2. y \in Item /\ y.executor = "worker" BY <1>1, RowMeans DEF Ended
<1>3. x \in Item /\ x.executor = y.executor /\ x.result = y.result /\ x.stale = y.stale
      /\ x.dispatches = y.dispatches /\ x.row = y.row /\ x.disposition = disposition
  BY <1>2 DEF Item
<1>4. QED BY <1>1, <1>2, <1>3, RowItem DEF Ended

(* A job is finalized. *)
LEMMA FinalizeStep ==
  ASSUME Typed, NEW t \in Turns, NEW i \in Ids, Finalize(t, i)
  PROVE  Typed' /\ (Sound => Sound')
<1> DEFINE y == task[t].items[i]
           x == [y EXCEPT !.final = TRUE]
<1>1. Ended(y) /\ SetItem(t, i, x) /\ RestSame
  BY DEF Finalize, RestSame
<1>2. y \in Item /\ y.executor = "worker" BY <1>1, RowMeans DEF Ended
<1>3. x \in Item /\ x.executor = y.executor /\ x.result = y.result /\ x.stale = y.stale
      /\ x.dispatches = y.dispatches /\ x.row = y.row /\ x.disposition = y.disposition
  BY <1>2 DEF Item
<1>4. QED BY <1>1, <1>2, <1>3, RowItem DEF Ended

-----------------------------------------------------------------------------
(* Steps of commands and hooks: nothing runs beside a prompt. *)

(* A sound ledger in place of another, outside a prompt. *)
LEMMA AloneStep ==
  ASSUME Typed, NEW t \in Turns, NEW k \in Task, Fits(k), Step(t, k), Others, Alone,
         NEW e, NEW n, Marks(t, e, n)
  PROVE  /\ Typed'
         /\ PromptAlone /\ Sound /\ LedgerOK(k, e, n) /\ BoundInv' => Sound'
<1>1. Typed' BY StepTyped DEF Typed
<1>2. ASSUME PromptAlone, Sound, LedgerOK(k, e, n), BoundInv' PROVE Sound'
  <2>1. LedgerInv' BY <1>2, StepSound DEF Typed, Sound
  <2>2. WriteInv' BY <1>2, AloneMeans DEF Others
  <2>3. QED BY <1>2, <2>1, <2>2 DEF Sound
<1>3. QED BY <1>1, <1>2

(* What a hook is about keeps its shape. *)
LEMMA BecomesIs ==
  ASSUME Typed, NEW h \in Hooks, NEW next \in HookState, Becomes(h, next)
  PROVE  hook' \in [Hooks -> HookState]
BY DEF Becomes, Typed, TypeOK

(* A hook goes on without writing to a ledger. *)
LEMMA HookOnly ==
  ASSUME Typed, NEW h \in Hooks, NEW next \in HookState, Becomes(h, next),
         UNCHANGED <<task, prompt, nudged, bound, edited>>
  PROVE  Typed' /\ (Sound => Sound')
<1>1. Typed'
  <2>1. hook' \in [Hooks -> HookState] BY BecomesIs
  <2>2. Others BY Zenon, <2>1 DEF Others, Typed, TypeOK
  <2>3. QED BY <2>2, SameTyped DEF Typed
<1>2. ASSUME Sound PROVE Sound'
  BY <1>2 DEF Sound, LedgerInv, WriteInv, BoundInv, BoundOnce, LedgerOK, Own, Settled, Ended
<1>3. QED BY <1>1, <1>2

(* What a hook is about, by what it is going to do. *)
LEMMA HookIs ==
  ASSUME NEW s \in HookState
  PROVE  /\ s.at \in {"inspect", "dispatch", "validate", "scan", "judge", "complete"}
              => s.on \in Turns
         /\ s.at \in {"inspect", "dispatch"} => s.tool \in Tools
         /\ s.at = "dispatch" => s.item \in Ids
         /\ s.at \in {"validate", "scan", "record"} => s.path \in Edits
         /\ s.at \in {"record", "stop", "judge", "complete"} => s.left \subseteq Turns
         /\ s.at = "validate" => [s EXCEPT !.at = "scan"] \in HookState
         /\ s.at = "record" => \A rest \in SUBSET Turns : [s EXCEPT !.left = rest] \in HookState
         /\ s.at = "judge" => [s EXCEPT !.at = "complete"] \in HookState
<1>1. CASE s = Idle BY <1>1 DEF Idle
<1>2. CASE s \in [at : {"inspect"}, on : Turns, tool : Tools] BY <1>2
<1>3. CASE s \in [at : {"dispatch"}, on : Turns, item : Ids, tool : Tools] BY <1>3
<1>4. CASE s \in [at : {"validate", "scan"}, on : Turns, path : Edits] BY <1>4 DEF HookState
<1>5. CASE s \in [at : {"record"}, path : Edits, left : SUBSET Turns] BY <1>5 DEF HookState
<1>6. CASE s \in [at : {"stop"}, left : SUBSET Turns] BY <1>6
<1>7. CASE s \in [at : {"judge", "complete"}, on : Turns, left : SUBSET Turns]
  BY <1>7 DEF HookState
<1>8. QED BY <1>1, <1>2, <1>3, <1>4, <1>5, <1>6, <1>7 DEF HookState

(* The shapes hooks go on with. *)
LEMMA NextIs ==
  /\ Idle \in HookState
  /\ \A left \in SUBSET Turns : StopNext(left) \in HookState
BY DEF HookState, StopNext, Idle

(* A current task is one of the session's. *)
LEMMA CurrentIs == Current \subseteq Turns
BY DEF Current, Newest, Unfinished

(* A plan keeps what has begun, with its marks, and every dispatch. *)
LEMMA PlanStep ==
  ASSUME Typed, NEW t \in Turns, NEW p \in Plans[t], Plan(t, p)
  PROVE  Typed' /\ (PromptAlone /\ Sound => Sound')
<1> DEFINE k == task[t]
           f == [i \in Ids |-> Revised(k.items[i], p[i])]
           n == [k EXCEPT !.items = f, !.status = "planned"]
<1>1. k \in Task /\ k.items \in [Ids -> Item] /\ p \in [Ids -> Definition]
  BY LedgerAssumption, Fields DEF Typed, TypeOK
<1>2. Step(t, n) /\ Alone /\ RestSame
  BY DEF Plan, Step, RestSame
<1>3. ASSUME NEW i \in Ids PROVE Planned(p[i]) \in Item
  <2>1. p[i] \in Definition BY <1>1
  <2>2. QED BY <2>1 DEF Planned, Definition, Item, Executors
<1>4. f \in [Ids -> Item]
  BY <1>1, <1>3, NewIs DEF Revised, Carried
<1>5. n \in Task /\ n.items = f /\ n.status = "planned" /\ n.inspected = k.inspected
      /\ n.events = k.events
  BY Zenon, <1>1, <1>4 DEF Task
<1>6. Fits(k) BY DEF Typed, TypeOK, Fits
<1>7. ASSUME NEW i \in Ids PROVE f[i].executor = "worker" <=> f[i].row # "none"
  <2>1. CASE p[i].executor = "none" BY <2>1 DEF Revised, Absent
  <2>2. CASE p[i].executor # "none" /\ Started(k.items[i])
    BY <1>6, <2>2 DEF Revised, Carried, Fits
  <2>3. CASE p[i].executor # "none" /\ ~Started(k.items[i])
    BY <2>3 DEF Revised, Planned
  <2>4. QED BY <2>1, <2>2, <2>3
<1>8. Fits(n) BY <1>5, <1>7 DEF Fits
<1>9. Others /\ Marks(t, edited[t], nudged[t])
  BY <1>2 DEF RestSame, Others, Marks, Typed, TypeOK
<1>10. ASSUME Sound PROVE LedgerOK(n, edited[t], nudged[t]) /\ BoundInv'
  <2>1. LedgerOK(k, edited[t], nudged[t]) BY <1>10 DEF Sound, LedgerInv
  <2>2. ASSUME NEW i \in Ids
        PROVE  /\ f[i].dispatches = k.items[i].dispatches
               /\ i \in edited[t] /\ Own(f[i]) => f[i].stale \/ f[i].result = "none"
    <3>1. Historic(k.items[i]) => p[i].executor # "none"
      BY DEF Plan
    <3>2. CASE p[i].executor = "none"
      <4>1. k.items[i].dispatches = {} BY <3>1, <3>2 DEF Historic
      <4>2. QED BY <3>2, <4>1 DEF Revised, Absent, Own
    <3>3. CASE p[i].executor # "none" /\ Started(k.items[i])
      BY <2>1, <3>3 DEF Revised, Carried, LedgerOK
    <3>4. CASE p[i].executor # "none" /\ ~Started(k.items[i])
      <4>1. k.items[i].dispatches = {} BY <3>4 DEF Started
      <4>2. QED BY <3>4, <4>1 DEF Revised, Planned
    <3>5. QED BY <3>2, <3>3, <3>4
  <2>3. edited[t] \subseteq Ids BY DEF Typed, TypeOK
  <2>4. LedgerOK(n, edited[t], nudged[t])
    BY <1>5, <2>1, <2>2, <2>3 DEF LedgerOK
  <2>5. BoundInv'
    <3>1. \A i \in Ids : n.items[i].dispatches = k.items[i].dispatches BY <1>5, <2>2
    <3>2. QED BY <1>2, <1>5, <1>10, <3>1, BoundKept DEF Typed, Sound, RestSame
  <2>6. QED BY <2>4, <2>5
<1>11. QED BY <1>2, <1>5, <1>8, <1>9, <1>10, AloneStep

(* A result settles its deliverable, or opens a completed task again. *)
LEMMA ResultStep ==
  ASSUME Typed, NEW t \in Turns, NEW i \in Ids,
         NEW outcome \in {"accepted", "rework"}, Result(t, i, outcome)
  PROVE  Typed' /\ (PromptAlone /\ Sound => Sound')
<1> DEFINE k == task[t]
           y == k.items[i]
           x == [y EXCEPT !.result = outcome, !.stale = FALSE]
           items == [k.items EXCEPT ![i] = x]
           s == IF k.status = "completed" /\ Outstanding(items) THEN "active" ELSE k.status
           w == With(k, i, x)
           n == [w EXCEPT !.status = s]
           e == edited[t] \ {i}
<1>1. k \in Task /\ k.items \in [Ids -> Item] /\ y \in Item
      /\ s \in {"none", "planning", "planned", "active", "completed", "closed"}
  BY Fields DEF Typed, TypeOK
<1>2. /\ Alone /\ Own(y) /\ Only(t, i, x, s) /\ edited' = [edited EXCEPT ![t] = e]
      /\ UNCHANGED <<hook, prompt, nudged, bound>>
  BY DEF Result
<1>3. x \in Item /\ x.result = outcome /\ x.stale = FALSE /\ x.executor = y.executor
      /\ x.row = y.row /\ x.dispatches = y.dispatches /\ x.job = y.job /\ x.final = y.final
  BY <1>1 DEF Item
<1>4. /\ w \in Task /\ w.items[i] = x /\ w.items = items
      /\ \A j \in Ids \ {i} : w.items[j] = k.items[j]
      /\ w.inspected = k.inspected /\ w.events = k.events
  <2>1. w.items = items BY <1>1 DEF With, Task
  <2>2. QED BY <1>1, <1>3, <2>1, WithIs
<1>5. n \in Task /\ n.items = w.items /\ n.status = s /\ n.inspected = k.inspected
      /\ n.events = k.events
  <2>1. w \in Task BY <1>4
  <2>2. s \in {"none", "planning", "planned", "active", "completed", "closed"} BY <1>1
  <2>3. /\ n \in Task /\ n.status = s /\ n.items = w.items
        /\ n.inspected = w.inspected /\ n.events = w.events
    <3> HIDE DEF w, s
    <3>1. QED BY ZenonT(60), <2>1, <2>2, StatusIs
  <2>4. QED BY <1>4, <2>3
<1>6. Step(t, n) BY <1>2, OnlyIs DEF Typed, TypeOK
<1>7. Fits(n)
  <2>1. ASSUME NEW j \in Ids PROVE n.items[j].executor = "worker" <=> n.items[j].row # "none"
    <3>1. k.items[j].executor = "worker" <=> k.items[j].row # "none" BY DEF Typed, TypeOK
    <3>2. CASE j = i
      <4>1. n.items[j] = x BY <1>4, <1>5, <3>2
      <4>2. y.executor = "worker" <=> y.row # "none" BY <3>1, <3>2
      <4> HIDE DEF n, x
      <4>3. QED BY <1>3, <4>1, <4>2
    <3>3. CASE j # i BY <1>4, <1>5, <3>1, <3>3
    <3>4. QED BY <3>2, <3>3
  <2>2. QED BY <2>1 DEF Fits
<1>8. Others /\ Marks(t, e, nudged[t])
  BY <1>2 DEF Others, Marks, Typed, TypeOK
<1>9. ASSUME Sound PROVE LedgerOK(n, e, nudged[t]) /\ BoundInv'
  <2>1. LedgerOK(k, edited[t], nudged[t]) BY <1>9 DEF Sound, LedgerInv
  <2>2. k.status \notin {"none", "closed"}
    BY <1>2, <2>1 DEF LedgerOK, NoItems, Absent, Own
  <2>3. s \notin {"none", "closed"} BY <2>2
  <2>4. \A j \in e : Own(n.items[j]) => n.items[j].stale \/ n.items[j].result = "none"
    <3>1. edited[t] \subseteq Ids BY DEF Typed, TypeOK
    <3>2. QED BY <1>4, <1>5, <2>1, <3>1 DEF LedgerOK
  <2>5. ASSUME s = "completed", NEW j \in Ids
        PROVE  /\ Own(n.items[j]) => Settled(n.items[j])
               /\ n.items[j].executor = "worker" =>
                     Ended(n.items[j]) /\ n.items[j].disposition # "none"
    <3>1. k.status = "completed" /\ ~Outstanding(items) BY Zenon, <2>5
    <3>2. Own(n.items[j]) => Settled(n.items[j])
      BY Zenon, <1>4, <1>5, <3>1 DEF Outstanding
    <3>3. CASE j = i
      BY ZenonT(60), <1>2, <1>3, <1>4, <1>5, <3>2, <3>3 DEF Own
    <3>4. CASE j # i
      BY <1>4, <1>5, <2>1, <3>1, <3>2, <3>4 DEF LedgerOK
    <3>5. QED BY <3>3, <3>4
  <2>6. e # {} => n.events BY <1>5, <2>1 DEF LedgerOK
  <2>7. LedgerOK(n, e, nudged[t])
    BY ZenonT(60), <1>5, <2>1, <2>3, <2>4, <2>5, <2>6 DEF LedgerOK
  <2>8. \A j \in Ids : n.items[j].dispatches = k.items[j].dispatches
    BY ZenonT(60), <1>3, <1>4, <1>5
  <2>9. BoundInv'
    BY <1>2, <1>5, <1>6, <1>9, <2>8, BoundKept DEF Typed, Sound
  <2>10. QED BY <2>7, <2>9
<1>10. QED BY <1>2, <1>5, <1>6, <1>7, <1>8, <1>9, AloneStep

(* A task that is done may be completed. *)
LEMMA DoneStep ==
  ASSUME Typed, NEW t \in Turns, Alone, Done(t),
         task' = [task EXCEPT ![t].status = "completed"],
         UNCHANGED <<prompt, nudged, bound, edited>>, hook' \in [Hooks -> HookState]
  PROVE  Typed' /\ (PromptAlone /\ Sound => Sound')
<1> DEFINE k == task[t]
           n == [k EXCEPT !.status = "completed"]
<1>1. k \in Task BY DEF Typed, TypeOK
<1>2. n \in Task /\ n.items = k.items /\ n.status = "completed"
      /\ n.inspected = k.inspected /\ n.events = k.events
  BY <1>1, StatusIs
<1>3. Step(t, n) BY DEF Step
<1>4. Fits(n) BY <1>2 DEF Fits, Typed, TypeOK
<1>5. Others /\ Marks(t, edited[t], nudged[t])
  BY DEF Others, Marks, Typed, TypeOK
<1>6. ASSUME Sound PROVE LedgerOK(n, edited[t], nudged[t]) /\ BoundInv'
  <2>1. LedgerOK(k, edited[t], nudged[t]) BY <1>6 DEF Sound, LedgerInv
  <2>2. \A i \in Ids :
          /\ Own(k.items[i]) => Settled(k.items[i])
          /\ k.items[i].executor = "worker" =>
                Ended(k.items[i]) /\ k.items[i].disposition # "none"
    BY DEF Done, Outstanding
  <2>3. LedgerOK(n, edited[t], nudged[t])
    BY <1>2, <2>1, <2>2 DEF LedgerOK
  <2>4. BoundInv'
    BY <1>2, <1>3, <1>6, BoundKept DEF Typed, Sound
  <2>5. QED BY <2>3, <2>4
<1>7. QED BY <1>2, <1>3, <1>4, <1>5, <1>6, AloneStep

(* The command that completes a task. *)
LEMMA CompleteStep ==
  ASSUME Typed, NEW t \in Turns, Complete(t)
  PROVE  Typed' /\ (PromptAlone /\ Sound => Sound')
<1>1. /\ Alone /\ Done(t) /\ task' = [task EXCEPT ![t].status = "completed"]
      /\ UNCHANGED <<hook, prompt, nudged, bound, edited>>
  BY DEF Complete
<1>2. hook' \in [Hooks -> HookState] BY <1>1 DEF Typed, TypeOK
<1>3. QED BY <1>1, <1>2, DoneStep

(* Stop completes what is still done. *)
LEMMA StopCompletesStep ==
  ASSUME Typed, NEW h \in Hooks, StopCompletes(h)
  PROVE  Typed' /\ (PromptAlone /\ Sound => Sound')
<1> DEFINE t == hook[h].on
<1>1. hook[h] \in HookState /\ hook[h].at = "complete" BY DEF StopCompletes, Typed, TypeOK
<1>2. t \in Turns /\ hook[h].left \subseteq Turns BY <1>1, HookIs
<1>3. StopNext(hook[h].left) \in HookState /\ Idle \in HookState BY <1>2, NextIs
<1>4. CASE StillDone(t)
  <2>1. /\ Alone /\ Done(t) /\ task' = [task EXCEPT ![t].status = "completed"]
        /\ Becomes(h, StopNext(hook[h].left)) /\ UNCHANGED <<prompt, nudged, bound, edited>>
    BY <1>4 DEF StopCompletes, StillDone
  <2>2. QED BY <1>2, <1>3, <2>1, BecomesIs, DoneStep
<1>5. CASE ~StillDone(t)
  <2>1. Becomes(h, Idle) /\ UNCHANGED <<task, prompt, nudged, bound, edited>>
    BY <1>5 DEF StopCompletes
  <2>2. QED BY <1>3, <2>1, HookOnly
<1>6. QED BY <1>4, <1>5

(* Stop closes a task in which nothing happened. *)
LEMMA StopClosesStep ==
  ASSUME Typed, NEW h \in Hooks, StopCloses(h)
  PROVE  Typed' /\ (PromptAlone /\ Sound => Sound')
<1>1. hook[h] \in HookState /\ hook[h].at = "stop" BY DEF StopCloses, Typed, TypeOK
<1>2. hook[h].left \subseteq Turns BY <1>1, HookIs
<1>3. PICK t \in Newest(hook[h].left) :
        IF Untouched(t)
        THEN /\ task' = [task EXCEPT ![t].status = "closed"]
             /\ Becomes(h, StopNext(hook[h].left \ {t}))
        ELSE /\ Becomes(h, [at |-> "judge", on |-> t, left |-> hook[h].left \ {t}])
             /\ UNCHANGED task
  BY DEF StopCloses
<1>4. t \in Turns /\ hook[h].left \ {t} \in SUBSET Turns BY <1>2 DEF Newest
<1>5. Alone /\ UNCHANGED <<prompt, nudged, bound, edited>> BY DEF StopCloses
<1> DEFINE k == task[t]
           n == [k EXCEPT !.status = "closed"]
<1>6. CASE Untouched(t)
  <2>1. k \in Task BY <1>4 DEF Typed, TypeOK
  <2>2. n \in Task /\ n.items = k.items /\ n.status = "closed"
        /\ n.inspected = k.inspected /\ n.events = k.events
    BY <2>1, StatusIs
  <2>3. Step(t, n) BY <1>3, <1>6 DEF Step
  <2>4. Fits(n) BY <1>4, <2>2 DEF Fits, Typed, TypeOK
  <2>5. hook' \in [Hooks -> HookState] BY <1>3, <1>4, <1>6, NextIs, BecomesIs
  <2>6. Others /\ Marks(t, edited[t], nudged[t])
    BY <1>4, <1>5, <2>5 DEF Others, Marks, Typed, TypeOK
  <2>7. ASSUME Sound PROVE LedgerOK(n, edited[t], nudged[t]) /\ BoundInv'
    <3>1. LedgerOK(k, edited[t], nudged[t]) BY <1>4, <2>7 DEF Sound, LedgerInv
    <3>2. k.items = NoItems /\ k.inspected = {} /\ ~k.events BY <1>6 DEF Untouched
    <3>3. nudged[t] = {} /\ edited[t] = {} BY <3>1, <3>2 DEF LedgerOK
    <3>4. LedgerOK(n, edited[t], nudged[t]) BY <2>2, <3>1, <3>2, <3>3 DEF LedgerOK
    <3>5. BoundInv'
      BY <1>4, <1>5, <2>2, <2>3, <2>7, BoundKept DEF Typed, Sound
    <3>6. QED BY <3>4, <3>5
  <2>8. QED BY <1>4, <1>5, <2>2, <2>3, <2>4, <2>6, <2>7, AloneStep
<1>7. CASE ~Untouched(t)
  <2>1. [at |-> "judge", on |-> t, left |-> hook[h].left \ {t}] \in HookState
    BY <1>4 DEF HookState
  <2>2. QED BY <1>3, <1>5, <1>7, <2>1, HookOnly
<1>8. QED BY <1>6, <1>7

(* One inspection is let through. *)
LEMMA InspectStep ==
  ASSUME Typed, NEW h \in Hooks, Inspect(h)
  PROVE  Typed' /\ (PromptAlone /\ Sound => Sound')
<1> DEFINE t == hook[h].on
           u == hook[h].tool
           k == task[t]
           n == [k EXCEPT !.inspected = k.inspected \cup {u}]
           m == nudged[t] \cup {u}
           free == k.status = "planning" /\ (u \in k.inspected \/ FirstInspection(t))
<1>1. hook[h] \in HookState /\ hook[h].at = "inspect" BY DEF Inspect, Typed, TypeOK
<1>2. t \in Turns /\ u \in Tools BY <1>1, HookIs
<1>3. Alone /\ Becomes(h, Idle) /\ UNCHANGED <<prompt, bound, edited>> BY DEF Inspect
<1>4. CASE free
  <2>1. /\ task' = [task EXCEPT ![t].inspected = @ \cup {u}]
        /\ nudged' = [nudged EXCEPT ![t] = @ \cup {u}]
    BY <1>4 DEF Inspect
  <2>2. k \in Task BY <1>2 DEF Typed, TypeOK
  <2>3. n \in Task /\ n.items = k.items /\ n.status = k.status
        /\ n.inspected = k.inspected \cup {u} /\ n.events = k.events
    BY <1>2, <2>2 DEF Task
  <2>4. Step(t, n) BY <2>1 DEF Step
  <2>5. Fits(n) BY <1>2, <2>3 DEF Fits, Typed, TypeOK
  <2>6. hook' \in [Hooks -> HookState] BY <1>3, NextIs, BecomesIs
  <2>7. Marks(t, edited[t], m)
    BY <1>3, <2>1 DEF Marks, Typed, TypeOK
  <2>8. Others
    BY <1>2, <1>3, <2>1, <2>6 DEF Others, Typed, TypeOK
  <2>9. ASSUME Sound PROVE LedgerOK(n, edited[t], m) /\ BoundInv'
    <3>1. LedgerOK(k, edited[t], nudged[t]) BY Zenon, <1>2, <2>9 DEF Sound, LedgerInv
    <3>2. \A v, w \in n.inspected : v = w
      BY Zenon, <1>4, <2>3, <3>1 DEF LedgerOK, FirstInspection
    <3>3. m \subseteq n.inspected BY <2>3, <3>1 DEF LedgerOK
    <3>4. n.status = "planning" BY Zenon, <1>4, <2>3
    <3>5. LedgerOK(n, edited[t], m) BY ZenonT(60), <2>3, <3>1, <3>2, <3>3, <3>4 DEF LedgerOK
    <3>6. BoundInv'
      BY <1>2, <1>3, <2>3, <2>4, <2>9, BoundKept DEF Typed, Sound
    <3>7. QED BY <3>5, <3>6
  <2>10. QED BY <1>2, <1>3, <2>3, <2>4, <2>5, <2>7, <2>8, <2>9, AloneStep
<1>5. CASE ~free
  <2>1. UNCHANGED <<task, nudged>> BY <1>5 DEF Inspect
  <2>2. QED BY <1>3, <2>1, NextIs, HookOnly
<1>6. QED BY <1>4, <1>5

(* A dispatch is authorized for the one deliverable its call is bound to. *)
LEMMA DispatchStep ==
  ASSUME Typed, NEW h \in Hooks, Dispatch(h)
  PROVE  Typed' /\ (PromptAlone /\ Sound => Sound')
<1> DEFINE t == hook[h].on
           i == hook[h].item
           u == hook[h].tool
           k == task[t]
           y == k.items[i]
<1>1. hook[h] \in HookState /\ hook[h].at = "dispatch" BY Zenon DEF Dispatch, Typed, TypeOK
<1>2. t \in Turns /\ u \in Tools /\ i \in Ids BY Zenon, <1>1, HookIs
<1>3. Alone /\ Becomes(h, Idle) /\ UNCHANGED <<prompt, nudged, edited>> BY Zenon DEF Dispatch
<1>4. k \in Task /\ k.items \in [Ids -> Item] /\ y \in Item
  BY <1>2, Fields DEF Typed, TypeOK
<1>5. CASE ~MayDispatch(t, i, u)
  <2>1. UNCHANGED <<task, bound>> BY <1>5 DEF Dispatch
  <2>2. QED BY <1>3, <2>1, NextIs, HookOnly
<1>6. CASE MayDispatch(t, i, u)
  <2>1. /\ bound' = bound \cup {<<u, t, i>>}
        /\ task' = IF u \notin y.dispatches
                   THEN [task EXCEPT ![t].items[i].dispatches = @ \cup {u},
                                     ![t].events = TRUE, ![t].status = "active"]
                   ELSE task
    BY Zenon, <1>6 DEF Dispatch
  <2>2. /\ y.executor = "native-agent" /\ ~Settled(y)
        /\ \A s \in Turns, j \in Ids : u \in task[s].items[j].dispatches => s = t /\ j = i
    BY <1>6 DEF MayDispatch
  <2>3. hook' \in [Hooks -> HookState] BY <1>3, NextIs, BecomesIs
  <2>4. Others
    <3>1. <<u, t, i>> \in Tools \X Turns \X Ids BY <1>2
    <3>2. bound' \subseteq Tools \X Turns \X Ids
      BY Zenon, <2>1, <3>1 DEF Typed, TypeOK
    <3>3. QED BY <1>3, <2>3, <3>2 DEF Others, Typed, TypeOK
  <2>5. ASSUME BoundInv,
               \A s \in Turns, j \in Ids :
                  task'[s].items[j].dispatches =
                    task[s].items[j].dispatches \cup IF s = t /\ j = i THEN {u} ELSE {}
        PROVE  BoundInv'
    <3>1. \A c \in bound : c[1] = u => c = <<u, t, i>>
      <4>1. SUFFICES ASSUME NEW c \in bound, c[1] = u PROVE c = <<u, t, i>>
        OBVIOUS
      <4>2. PICK s \in Turns, j \in Ids : c = <<u, s, j>>
        BY <4>1 DEF Typed, TypeOK
      <4>3. u \in task[s].items[j].dispatches BY <1>2, <2>5, <4>1, <4>2 DEF BoundInv
      <4>4. QED BY <2>2, <4>2, <4>3
    <3>2. \A b, c \in bound' : b[1] = c[1] => b = c
      <4>1. SUFFICES ASSUME NEW b \in bound', NEW c \in bound', b[1] = c[1] PROVE b = c
        OBVIOUS
      <4>2. CASE b[1] = u
        <5>1. \A d \in bound' : d[1] = u => d = <<u, t, i>> BY Zenon, <2>1, <3>1
        <5>2. QED BY <4>1, <4>2, <5>1
      <4>3. CASE b[1] # u
        <5>1. b # <<u, t, i>> /\ c # <<u, t, i>> BY <4>1, <4>3
        <5>2. b \in bound /\ c \in bound BY Zenon, <2>1, <5>1
        <5>3. QED BY <2>5, <4>1, <5>2 DEF BoundInv, BoundOnce
      <4>4. QED BY <4>2, <4>3
    <3>3. ASSUME NEW v \in Tools, NEW s \in Turns, NEW j \in Ids
          PROVE  <<v, s, j>> \in bound' <=> v \in task'[s].items[j].dispatches
      <4>1. <<v, s, j>> \in bound <=> v \in task[s].items[j].dispatches
        BY <2>5 DEF BoundInv
      <4>2. <<v, s, j>> = <<u, t, i>> <=> v = u /\ s = t /\ j = i BY Zenon
      <4>3. <<v, s, j>> \in bound' <=> <<v, s, j>> \in bound \/ (v = u /\ s = t /\ j = i)
        BY Zenon, <2>1, <4>2
      <4>4. task'[s].items[j].dispatches =
              task[s].items[j].dispatches \cup IF s = t /\ j = i THEN {u} ELSE {}
        BY <2>5
      <4>5. QED
        <5> HIDE DEF t, u, i
        <5>1. QED BY <4>1, <4>3, <4>4
    <3>4. QED BY <3>2, <3>3 DEF BoundInv, BoundOnce
  <2>6. CASE u \in y.dispatches
    <3>1. task' = task BY <2>1, <2>6
    <3>2. Typed' BY <2>4, <3>1, SameTyped DEF Typed
    <3>3. ASSUME PromptAlone, Sound PROVE Sound'
      <4>1. LedgerInv'
        BY <1>3, <3>1, <3>3 DEF Sound, LedgerInv, LedgerOK, Own, Settled, Ended
      <4>2. BoundInv' BY <2>5, <2>6, <3>1, <3>3 DEF Sound
      <4>3. QED BY <1>3, <3>3, <4>1, <4>2, AloneMeans DEF Sound
    <3>4. QED BY Zenon, <3>2, <3>3
  <2>7. CASE u \notin y.dispatches
    <3> DEFINE x == [y EXCEPT !.dispatches = y.dispatches \cup {u}]
               n == [k EXCEPT !.items = [k.items EXCEPT ![i] = x],
                              !.events = TRUE, !.status = "active"]
    <3>1. x \in Item /\ x.dispatches = y.dispatches \cup {u} /\ x.executor = y.executor
          /\ x.row = y.row /\ x.result = y.result /\ x.stale = y.stale
      BY Zenon, <1>2, <1>4 DEF Item
    <3>2. [k.items EXCEPT ![i] = x] \in [Ids -> Item] BY Zenon, <1>4, <3>1
    <3>3. n \in Task /\ n.items = [k.items EXCEPT ![i] = x] /\ n.status = "active"
          /\ n.inspected = k.inspected /\ n.events
      BY Zenon, <1>4, <3>2 DEF Task
    <3>4. n.items[i] = x /\ \A j \in Ids \ {i} : n.items[j] = k.items[j]
      BY ZenonT(60), Zenon, <1>2, <1>4, <3>3
    <3>5. Step(t, n)
      BY Zenon, <2>1, <2>7 DEF Step
    <3> HIDE DEF n, x
    <3>6. Fits(n)
      <4>1. ASSUME NEW j \in Ids PROVE n.items[j].executor = "worker" <=> n.items[j].row # "none"
        <5>1. k.items[j].executor = "worker" <=> k.items[j].row # "none"
          BY Zenon, <1>2 DEF Typed, TypeOK
        <5>2. CASE j = i BY Zenon, <3>1, <3>4, <5>1, <5>2
        <5>3. CASE j # i BY <3>4, <5>1, <5>3
        <5>4. QED BY <5>2, <5>3
      <4>2. QED BY <4>1 DEF Fits
    <3>7. Marks(t, edited[t], nudged[t])
      BY <1>3 DEF Marks, Typed, TypeOK
    <3>8. ASSUME Sound PROVE LedgerOK(n, edited[t], nudged[t]) /\ BoundInv'
      <4>1. LedgerOK(k, edited[t], nudged[t]) BY <1>2, <3>8 DEF Sound, LedgerInv
      <4>2. k.status \notin {"none", "closed"}
        <5>1. k.items[i] # Absent BY <2>2 DEF Absent
        <5>2. k.items # NoItems BY <1>2, <5>1 DEF NoItems
        <5>3. QED BY <4>1, <5>2 DEF LedgerOK
      <4>3. edited[t] = {} \/ n.events BY <3>3
      <4>4. \A j \in edited[t] : Own(n.items[j]) => n.items[j].stale \/ n.items[j].result = "none"
        <5>1. edited[t] \subseteq Ids BY <1>2 DEF Typed, TypeOK
        <5>2. SUFFICES ASSUME NEW j \in edited[t], Own(n.items[j])
                       PROVE  n.items[j].stale \/ n.items[j].result = "none"
          BY Zenon
        <5>3. Own(k.items[j]) => k.items[j].stale \/ k.items[j].result = "none"
          BY Zenon, <4>1 DEF LedgerOK
        <5>4. n.items[j].executor = k.items[j].executor /\ n.items[j].stale = k.items[j].stale
              /\ n.items[j].result = k.items[j].result
            BY Zenon, <3>1, <3>4, <5>1
        <5>5. QED BY <5>2, <5>3, <5>4 DEF Own
      <4>5. LedgerOK(n, edited[t], nudged[t])
        BY Zenon, <3>3, <4>1, <4>3, <4>4 DEF LedgerOK
      <4>6. task'[t] = n /\ \A s \in Turns \ {t} : task'[s] = task[s]
        BY <1>2, <3>3, <3>5, StepIs DEF Typed, TypeOK
      <4>7. ASSUME NEW s \in Turns, NEW j \in Ids
            PROVE  task'[s].items[j].dispatches =
                    task[s].items[j].dispatches \cup IF s = t /\ j = i THEN {u} ELSE {}
        <5>1. CASE s = t /\ j = i BY Zenon, <3>1, <3>4, <4>6, <5>1
        <5>2. CASE s = t /\ j # i BY <3>4, <4>6, <5>2
        <5>3. CASE s # t BY <4>6, <5>3
        <5>4. QED BY Zenon, <5>1, <5>2, <5>3
      <4>8. BoundInv' BY <2>5, <3>8, <4>7 DEF Sound
      <4>9. QED BY <4>5, <4>8
    <3>9. QED BY Zenon, <1>2, <1>3, <2>4, <3>3, <3>5, <3>6, <3>7, <3>8, AloneStep
  <2>8. QED BY Zenon, <2>6, <2>7
<1>7. QED BY <1>5, <1>6

(* An approved edit makes the results it touches stale. *)
LEMMA RecordStep ==
  ASSUME Typed, NEW h \in Hooks, Record(h)
  PROVE  Typed' /\ (PromptAlone /\ Sound => Sound')
<1>1. hook[h] \in HookState /\ hook[h].at = "record" BY Zenon DEF Record, Typed, TypeOK
<1>2. hook[h].left \subseteq Turns BY <1>1, HookIs
<1> DEFINE Hit(s) == {i \in Ids : Own(task[s].items[i])
                                  /\ Touches(hook[h].path, task[s].items[i])}
<1>3. PICK t \in Newest(hook[h].left) :
        /\ task' = [task EXCEPT
              ![t].items = [i \in Ids |-> Invalidated(task[t].items[i], i \in Hit(t))],
              ![t].events = TRUE,
              ![t].status = IF @ = "completed" THEN "active" ELSE @]
        /\ edited' = [edited EXCEPT ![t] = @ \cup Hit(t)]
        /\ Becomes(h, IF hook[h].left \ {t} = {} THEN Idle
                      ELSE [hook[h] EXCEPT !.left = hook[h].left \ {t}])
  BY Zenon DEF Record
<1>4. Alone /\ UNCHANGED <<prompt, nudged, bound>> BY Zenon DEF Record
<1>5. t \in Turns /\ hook[h].left \ {t} \in SUBSET Turns BY <1>2 DEF Newest
<1> DEFINE k == task[t]
           hit == Hit(t)
           f == [i \in Ids |-> Invalidated(k.items[i], i \in hit)]
           s == IF k.status = "completed" THEN "active" ELSE k.status
           n == [k EXCEPT !.items = f, !.events = TRUE, !.status = s]
           e == edited[t] \cup hit
<1>6. k \in Task /\ k.items \in [Ids -> Item]
      /\ s \in {"none", "planning", "planned", "active", "completed", "closed"}
  BY <1>5, Fields DEF Typed, TypeOK
<1>7. ASSUME NEW i \in Ids
      PROVE  /\ f[i] \in Item /\ f[i].stale = (k.items[i].stale \/ i \in hit)
             /\ f[i].executor = k.items[i].executor /\ f[i].row = k.items[i].row
             /\ f[i].result = k.items[i].result /\ f[i].dispatches = k.items[i].dispatches
  <2>1. k.items[i] \in Item BY <1>6
  <2>2. (k.items[i].stale \/ i \in hit) \in BOOLEAN BY <2>1, Fields
  <2>3. f[i] = [k.items[i] EXCEPT !.stale = (k.items[i].stale \/ i \in hit)]
    BY DEF Invalidated
  <2> HIDE DEF hit
  <2>4. QED BY <2>1, <2>2, <2>3 DEF Item
<1>8. f \in [Ids -> Item] BY <1>7
<1>9. n \in Task /\ n.items = f /\ n.status = s /\ n.inspected = k.inspected /\ n.events
  <2> HIDE DEF f, s
  <2>1. QED BY <1>6, <1>8 DEF Task
<1>10. Step(t, n) BY Zenon, <1>3, <1>5 DEF Step
<1>16. ASSUME NEW i \in Ids
       PROVE  /\ n.items[i].stale = (k.items[i].stale \/ i \in hit)
              /\ n.items[i].executor = k.items[i].executor /\ n.items[i].row = k.items[i].row
              /\ n.items[i].result = k.items[i].result
              /\ n.items[i].dispatches = k.items[i].dispatches
  <2> HIDE DEF n, f, k, hit
  <2>1. QED BY <1>7, <1>9
<1>11. Fits(n)
  <2>1. \A i \in Ids : n.items[i].executor = k.items[i].executor /\ n.items[i].row = k.items[i].row
    BY Zenon, <1>16
  <2>2. QED BY SMTT(60), <1>5, <2>1 DEF Fits, Typed, TypeOK
<1>12. hook' \in [Hooks -> HookState]
  BY Zenon, <1>1, <1>3, <1>5, HookIs, NextIs, BecomesIs
<1>13. Others /\ Marks(t, e, nudged[t])
  <2>1. e \subseteq Ids BY Zenon, <1>5 DEF Typed, TypeOK
  <2>2. edited' = [edited EXCEPT ![t] = e] BY Zenon, <1>3
  <2>3. QED BY <1>4, <1>5, <1>12, <2>1, <2>2 DEF Others, Marks, Typed, TypeOK
<1>14. ASSUME Sound PROVE LedgerOK(n, e, nudged[t]) /\ BoundInv'
  <2>1. LedgerOK(k, edited[t], nudged[t]) BY <1>5, <1>14 DEF Sound, LedgerInv
  <2>2. s # "completed" OBVIOUS
  <2>3. \A i \in e : Own(n.items[i]) => n.items[i].stale \/ n.items[i].result = "none"
    <3>1. edited[t] \subseteq Ids /\ hit \subseteq Ids BY Zenon, Zenon, <1>5 DEF Typed, TypeOK
    <3>2. SUFFICES ASSUME NEW i \in e, Own(n.items[i])
                   PROVE  n.items[i].stale \/ n.items[i].result = "none"
      OBVIOUS
    <3>3. CASE i \in hit
      <4>1. n.items[i].stale = (k.items[i].stale \/ i \in hit) BY Zenon, <1>16, <3>1, <3>3
      <4>2. QED BY Zenon, <3>3, <4>1
    <3>4. CASE i \in edited[t]
      <4>1. Own(k.items[i])
        <5>1. n.items[i].executor = k.items[i].executor BY Zenon, <1>16, <3>1, <3>4
        <5>2. QED BY <3>2, <5>1 DEF Own
      <4>2. k.items[i].stale \/ k.items[i].result = "none" BY <2>1, <3>4, <4>1 DEF LedgerOK
      <4>3. n.items[i].result = k.items[i].result
            /\ n.items[i].stale = (k.items[i].stale \/ i \in hit)
        BY Zenon, <1>16, <3>1, <3>4
      <4>4. QED BY Zenon, <4>2, <4>3
    <3>5. QED BY <3>3, <3>4
  <2>4. ASSUME s \in {"none", "closed"}
        PROVE  n.items = NoItems /\ nudged[t] = {} /\ e = {}
    <3>1. k.items = NoItems /\ nudged[t] = {} /\ edited[t] = {}
      BY <2>1, <2>4 DEF LedgerOK
    <3>2. \A i \in Ids : k.items[i] = Absent BY <3>1 DEF NoItems
    <3>3. hit = {} BY <3>2 DEF Own, Absent
    <3>4. \A i \in Ids : f[i] = Absent
      <4>1. [Absent EXCEPT !.stale = FALSE] = Absent
        <5>1. Absent.stale = FALSE BY DEF Absent
        <5>2. \A x \in Item : x.stale = FALSE => [x EXCEPT !.stale = FALSE] = x BY DEF Item
        <5>3. QED BY <5>1, <5>2, NewIs
      <4>2. ASSUME NEW i \in Ids PROVE f[i] = Absent
        <5>1. f[i] = [k.items[i] EXCEPT !.stale = (k.items[i].stale \/ i \in hit)]
          BY DEF Invalidated
        <5>2. k.items[i].stale = FALSE BY <3>2 DEF Absent
        <5>3. (k.items[i].stale \/ i \in hit) = FALSE
          <6>1. ~(i \in hit) BY <3>3
          <6> HIDE DEF hit, k
          <6>2. QED BY <5>2, <6>1
        <5> HIDE DEF hit, k, f
        <5>4. QED BY <3>2, <4>1, <5>1, <5>3
      <4>3. QED BY <4>2
    <3>5. f = NoItems BY Zenon, <3>4 DEF NoItems
    <3>6. QED BY <1>9, <3>1, <3>3, <3>5
  <2>5. LedgerOK(n, e, nudged[t])
    <3> HIDE DEF n, e, s
    <3>1. QED BY <1>9, <2>1, <2>2, <2>3, <2>4 DEF LedgerOK
  <2>6. \A i \in Ids : n.items[i].dispatches = k.items[i].dispatches BY Zenon, <1>16
  <2>7. BoundInv'
    BY <1>4, <1>5, <1>9, <1>10, <1>14, <2>6, BoundKept DEF Typed, Sound
  <2>8. QED BY <2>5, <2>7
<1>15. QED BY Zenon, <1>4, <1>5, <1>9, <1>10, <1>11, <1>13, <1>14, AloneStep

(* The steps in which a hook reads and decides. *)
LEMMA ReadStep ==
  ASSUME Typed, NEW h \in Hooks,
         \/ \E u \in Tools : BeginInspect(h, u) \/ \E i \in Ids : BeginDispatch(h, i, u)
         \/ \E path \in Edits : BeginEdit(h, path)
         \/ Validate(h) \/ Scan(h) \/ BeginStop(h) \/ StopJudges(h)
  PROVE  Typed' /\ (Sound => Sound')
<1>1. UNCHANGED <<task, prompt, nudged, bound, edited>>
  BY DEF BeginInspect, BeginDispatch, BeginEdit, Validate, Scan, BeginStop, StopJudges
<1>2. hook[h] \in HookState BY DEF Typed, TypeOK
<1>3. \E next \in HookState : Becomes(h, next)
  <2>1. CASE \E u \in Tools : BeginInspect(h, u)
    <3>1. PICK u \in Tools, t \in Current : Becomes(h, [at |-> "inspect", on |-> t, tool |-> u])
      BY <2>1 DEF BeginInspect
    <3>2. [at |-> "inspect", on |-> t, tool |-> u] \in HookState
      BY CurrentIs DEF HookState
    <3>3. QED BY <3>1, <3>2
  <2>2. CASE \E u \in Tools, i \in Ids : BeginDispatch(h, i, u)
    <3>1. PICK u \in Tools, i \in Ids, t \in Current :
            Becomes(h, [at |-> "dispatch", on |-> t, item |-> i, tool |-> u])
      BY <2>2 DEF BeginDispatch
    <3>2. [at |-> "dispatch", on |-> t, item |-> i, tool |-> u] \in HookState
      BY CurrentIs DEF HookState
    <3>3. QED BY <3>1, <3>2
  <2>3. CASE \E path \in Edits : BeginEdit(h, path)
    <3>1. PICK path \in Edits, t \in Current :
            Becomes(h, [at |-> "validate", on |-> t, path |-> path])
      BY <2>3 DEF BeginEdit
    <3>2. [at |-> "validate", on |-> t, path |-> path] \in HookState
      BY CurrentIs DEF HookState
    <3>3. QED BY <3>1, <3>2
  <2>4. CASE Validate(h)
    BY <1>2, <2>4, HookIs, NextIs DEF Validate
  <2>5. CASE Scan(h)
    <3>1. \E next \in {Idle} \cup [at : {"record"}, path : {hook[h].path}, left : SUBSET Turns] :
            Becomes(h, next)
      <4>1. hook[h].on \in Turns BY <1>2, <2>5, HookIs DEF Scan
      <4>2. (IF Unfinished = {} THEN {hook[h].on} ELSE Unfinished) \subseteq Turns
        BY <4>1 DEF Unfinished
      <4> DEFINE scope == IF Unfinished = {} THEN {hook[h].on} ELSE Unfinished
                 left == {s \in scope : s = hook[h].on \/
                            \E i \in Ids : Touches(hook[h].path, task[s].items[i])}
      <4>3. left \subseteq Turns BY <4>2
      <4>4. Becomes(h, Idle) \/ Becomes(h, [at |-> "record", path |-> hook[h].path, left |-> left])
        BY <2>5 DEF Scan
      <4> HIDE DEF left
      <4>5. QED BY <4>3, <4>4
    <3>2. hook[h].path \in Edits BY <1>2, <2>5, HookIs DEF Scan
    <3>3. QED BY <3>1, <3>2 DEF HookState
  <2>6. CASE BeginStop(h)
    <3>1. Becomes(h, [at |-> "stop", left |-> Unfinished]) BY <2>6 DEF BeginStop
    <3>2. [at |-> "stop", left |-> Unfinished] \in HookState BY DEF HookState, Unfinished
    <3>3. QED BY <3>1, <3>2
  <2>7. CASE StopJudges(h)
    <3>1. hook[h].at = "judge" BY <2>7 DEF StopJudges
    <3>2. hook[h].left \in SUBSET Turns BY <1>2, <3>1, HookIs
    <3>3. QED BY <1>2, <2>7, <3>1, <3>2, HookIs, NextIs DEF StopJudges
  <2>8. QED BY <2>1, <2>2, <2>3, <2>4, <2>5, <2>6, <2>7
<1>4. QED BY <1>1, <1>3, HookOnly

(* A prompt reads, opens its task and writes what it got. *)
LEMMA PromptStep ==
  ASSUME Typed, Prompt
  PROVE  Typed' /\ (PromptAlone /\ Sound => Sound')
<1>1. ASSUME NEW t \in Turns, PromptReads(t)
      PROVE  Typed' /\ (Sound => Sound')
  <2>1. /\ prompt' = [at |-> "open", turn |-> t]
        /\ UNCHANGED <<task, hook, nudged, bound, edited>>
    BY <1>1 DEF PromptReads
  <2>2. prompt' \in PromptState BY <2>1 DEF PromptState
  <2>3. Typed'
    BY <2>1, <2>2 DEF Typed, TypeOK, FoundFits
  <2>4. ASSUME Sound PROVE Sound'
    BY <2>1, <2>4 DEF Sound, LedgerInv, WriteInv, BoundInv, BoundOnce, LedgerOK,
                      Own, Settled, Ended
  <2>5. QED BY <2>3, <2>4
<1>2. ASSUME PromptOpens
      PROVE  Typed' /\ (Sound => Sound')
  <2> DEFINE t == prompt.turn
             found == IF Exists(t) THEN task[t] ELSE Opened
  <2>1. t \in Turns BY <1>2 DEF PromptOpens, Typed, TypeOK, PromptState, Idle
  <2>2. /\ task' = [task EXCEPT ![t] = found]
        /\ prompt' = [at |-> "write", turn |-> t, found |-> found]
        /\ UNCHANGED <<hook, nudged, bound, edited>>
    BY <1>2 DEF PromptOpens
  <2>3. found \in Task /\ Fits(found) /\ found.status # "none"
    <3>1. CASE Exists(t) BY <2>1, <3>1 DEF Exists, Typed, TypeOK, Fits
    <3>2. CASE ~Exists(t) BY <3>2, NewIs
    <3>3. QED BY <3>1, <3>2
  <2>4. Step(t, found) BY <2>2 DEF Step
  <2>5. task' \in [Turns -> Task] /\ task'[t] = found
        /\ \A s \in Turns \ {t} : task'[s] = task[s]
    BY <2>1, <2>3, <2>4, StepIs DEF Typed, TypeOK
  <2>6. prompt' \in PromptState
    <3> HIDE DEF t, found
    <3>1. QED BY <2>1, <2>2, <2>3 DEF PromptState
  <2>7. \A s \in Turns : Fits(task'[s])
    BY <2>3, <2>5 DEF Typed, TypeOK, Fits
  <2>8. Typed'
    <3>1. TypeOK' BY <2>2, <2>5, <2>6, <2>7 DEF Typed, TypeOK, Fits
    <3>2. prompt'.found = found BY <2>2
    <3>3. FoundFits' BY <2>3, <3>2 DEF FoundFits, Fits
    <3>4. QED BY <3>1, <3>3 DEF Typed
  <2>9. ASSUME Sound PROVE Sound'
    <3>1. LedgerOK(task[t], edited[t], nudged[t]) BY <2>1, <2>9 DEF Sound, LedgerInv
    <3>2. LedgerOK(found, edited[t], nudged[t])
      <4>1. CASE Exists(t) BY <3>1, <4>1
      <4>2. CASE ~Exists(t)
        <5>1. nudged[t] = {} /\ edited[t] = {} BY <3>1, <4>2 DEF Exists, LedgerOK
        <5>2. QED BY <4>2, <5>1, NewIs DEF LedgerOK
      <4>3. QED BY <4>1, <4>2
    <3>3. \A i \in Ids : found.items[i].dispatches = task[t].items[i].dispatches
      <4>1. CASE Exists(t) BY <4>1
      <4>2. CASE ~Exists(t)
        <5>1. task[t].items = NoItems BY <3>1, <4>2 DEF Exists, LedgerOK
        <5>2. QED BY <4>2, <5>1, NewIs
      <4>3. QED BY <4>1, <4>2
    <3>4. Marks(t, edited[t], nudged[t]) BY <2>2 DEF Marks, Typed, TypeOK
    <3>5. LedgerInv' BY <2>1, <2>3, <2>4, <2>9, <3>2, <3>4, StepSound DEF Typed, Sound
    <3>6. BoundInv' BY <2>1, <2>2, <2>3, <2>4, <2>9, <3>3, BoundKept DEF Typed, Sound
    <3>7. WriteInv'
      <4>1. prompt'.turn = t /\ prompt'.found = found BY <2>2
      <4>2. edited' = edited /\ nudged' = nudged BY <2>2
      <4>3. /\ found.status # "none"
            /\ LedgerOK(found, edited'[t], nudged'[t])
            /\ \A i \in Ids : found.items[i].dispatches = task'[t].items[i].dispatches
        <5> HIDE DEF t, found
        <5>1. QED BY <2>3, <2>5, <3>2, <4>2
      <4> HIDE DEF t, found
      <4>4. QED BY <4>1, <4>3 DEF WriteInv, LedgerOK, Own, Settled, Ended
    <3>8. QED BY <3>5, <3>6, <3>7 DEF Sound
  <2>10. QED BY <2>8, <2>9
<1>3. ASSUME PromptWrites
      PROVE  Typed' /\ (Sound => Sound')
  <2> DEFINE t == prompt.turn
             found == prompt.found
  <2>1. t \in Turns /\ found \in Task
    BY <1>3 DEF PromptWrites, Typed, TypeOK, PromptState, Idle
  <2>2. /\ prompt.at = "write" /\ Step(t, found) /\ prompt' = Idle
        /\ UNCHANGED <<hook, nudged, bound, edited>>
    BY <1>3 DEF PromptWrites, Step
  <2>3. Fits(found) BY <2>2 DEF Typed, FoundFits
  <2>4. task' \in [Turns -> Task] /\ task'[t] = found
        /\ \A s \in Turns \ {t} : task'[s] = task[s]
    BY <2>1, <2>2, StepIs DEF Typed, TypeOK
  <2>5. \A s \in Turns : Fits(task'[s])
    BY <2>3, <2>4 DEF Typed, TypeOK, Fits
  <2>6. Typed'
    BY <2>2, <2>4, <2>5 DEF Typed, TypeOK, Fits, FoundFits, PromptState, Idle
  <2>7. ASSUME Sound PROVE Sound'
    <3>1. /\ LedgerOK(found, edited[t], nudged[t])
          /\ \A i \in Ids : found.items[i].dispatches = task[t].items[i].dispatches
      BY <2>2, <2>7 DEF Sound, WriteInv
    <3>2. Marks(t, edited[t], nudged[t]) BY <2>2 DEF Marks, Typed, TypeOK
    <3>3. LedgerInv' BY <2>1, <2>2, <2>7, <3>1, <3>2, StepSound DEF Typed, Sound
    <3>4. BoundInv' BY <2>1, <2>2, <2>7, <3>1, BoundKept DEF Typed, Sound
    <3>5. WriteInv' BY <2>2 DEF WriteInv, Idle
    <3>6. QED BY <3>3, <3>4, <3>5 DEF Sound
  <2>8. QED BY <2>6, <2>7
<1>4. QED BY <1>1, <1>2, <1>3 DEF Prompt

-----------------------------------------------------------------------------
(* Every behaviour. *)

(* No task, no hook, no prompt. *)
LEMMA InitHolds ==
  ASSUME Init
  PROVE  Typed /\ Sound
<1>1. Typed
  BY NewIs DEF Init, Typed, TypeOK, FoundFits, Fits, HookState, PromptState, Idle
<1>2. Sound
  BY DEF Init, Sound, LedgerInv, LedgerOK, WriteInv, BoundInv, BoundOnce, NoTask, NoItems,
         Absent, Idle
<1>3. QED BY <1>1, <1>2

(* Every step. *)
LEMMA NextHolds ==
  ASSUME Typed, [Next]_vars
  PROVE  Typed' /\ (PromptAlone /\ Sound => Sound')
<1>1. CASE UNCHANGED vars
  BY <1>1 DEF vars, Typed, TypeOK, FoundFits, Fits, Sound, LedgerInv, WriteInv, BoundInv,
              BoundOnce, LedgerOK, Own, Settled, Ended
<1>2. CASE Prompt BY <1>2, PromptStep
<1>3. CASE Command
  BY <1>3, PlanStep, CompleteStep, ResultStep, UseStep, FinalizeStep DEF Command
<1>4. CASE Work
  BY <1>4, PrepareStep, PreparationFailsStep, StartStep, FinishStep DEF Work
<1>5. ASSUME NEW h \in Hooks, Hook(h)
      PROVE  Typed' /\ (PromptAlone /\ Sound => Sound')
  BY <1>5, ReadStep, InspectStep, DispatchStep, RecordStep, StopClosesStep,
     StopCompletesStep DEF Hook
<1>6. QED BY <1>1, <1>2, <1>3, <1>4, <1>5 DEF Next

(* Ledgers and processes hold what the code can put there. *)
THEOREM TypeCorrect == Spec => []TypeOK
<1>1. Init => Typed BY InitHolds
<1>2. Typed /\ [Next]_vars => Typed' BY NextHolds
<1>3. Typed => TypeOK BY DEF Typed
<1>4. QED BY <1>1, <1>2, <1>3, PTL DEF Spec

(* The inductive invariant, if nothing of the session runs beside a prompt. *)
THEOREM LedgersSound ==
  ASSUME PromptAlone
  PROVE  Spec => [](Typed /\ Sound)
<1>1. Init => Typed /\ Sound BY InitHolds
<1>2. Typed /\ Sound /\ [Next]_vars => (Typed /\ Sound)' BY NextHolds
<1>3. QED BY <1>1, <1>2, PTL DEF Spec

(* A completed task rests on results newer than every edit, and reviewed rows. *)
THEOREM CompletedCurrent ==
  ASSUME PromptAlone
  PROVE  Spec => []CompletedIsCurrent
<1>1. ASSUME Typed, Sound PROVE CompletedIsCurrent
  <2>1. SUFFICES ASSUME NEW t \in Turns, task[t].status = "completed", NEW i \in Ids
                 PROVE  LET x == task[t].items[i]
                        IN  /\ Own(x) => x.result = "accepted" /\ i \notin edited[t]
                            /\ x.executor = "worker" => Ended(x) /\ x.disposition # "none"
    BY DEF CompletedIsCurrent
  <2>2. LedgerOK(task[t], edited[t], nudged[t]) BY <1>1 DEF Sound, LedgerInv
  <2>3. QED BY <2>1, <2>2 DEF LedgerOK, Settled
<1>2. QED BY <1>1, LedgersSound, PTL

(* Stop closes untouched drafts only. *)
THEOREM ClosedIsUntouched ==
  ASSUME PromptAlone
  PROVE  Spec => []ClosedUntouched
<1>1. Sound => ClosedUntouched BY DEF Sound, LedgerInv, LedgerOK, ClosedUntouched
<1>2. QED BY <1>1, LedgersSound, PTL

(* One read of the sources is let through before the plan. *)
THEOREM InspectedOnce ==
  ASSUME PromptAlone
  PROVE  Spec => []OneFreeInspection
<1>1. Sound => OneFreeInspection BY DEF Sound, LedgerInv, LedgerOK, OneFreeInspection
<1>2. QED BY <1>1, LedgersSound, PTL

(* One deliverable for each native tool call. *)
THEOREM DispatchedOnce ==
  ASSUME PromptAlone
  PROVE  Spec => []BoundOnce
<1>1. Sound => BoundOnce BY DEF Sound, BoundInv
<1>2. QED BY <1>1, LedgersSound, PTL
=============================================================================
