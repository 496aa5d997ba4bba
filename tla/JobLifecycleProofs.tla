------------------------- MODULE JobLifecycleProofs -------------------------
EXTENDS JobLifecycle, TLAPS

(* Who is inside holds owner.lock: no two processes are. *)
Holding == Operating \cup {"reviewing", "reworking", "attested", "captured", "described",
                           "closed", "sweeping", "removing"}
Owned == \A p \in Procs : pc[p] \in Holding => owner = p

(* What a start relies on from its reservation to its row.                    *)
Reserved ==
    \A p \in Procs : pc[p] = "reserved" => pending /\ request = "none" /\ verdict = "none"

(* The record says how the execution ended before anybody else is told.        *)
Executed ==
    \A p \in Procs :
        /\ pc[p] \in {"saved", "patched", "concluded"} /\ plan[p].kind # "prepare" =>
              status \in Ended
        /\ pc[p] = "concluded" => plan[p].kind # "prepare"

(* A reviewer who reopens the job still may; only an attempt that ended has a  *)
(* disposition, and an intent is about one that allows it.                     *)
Reviewed ==
    /\ \A p \in Procs : pc[p] = "reviewing" /\ plan[p].seen = "needs-rework" => phase \notin Final
    /\ \A p \in Procs : pc[p] \in {"reviewing", "abandoning", "abandoned", "recorded"} =>
          plan[p].seen # "none"
    /\ rowStatus \notin Ended => disposition = "none"
    /\ request = "finalized" => disposition = "incorporated"
    /\ request # "none" => disposition # "none"
    /\ \A p \in Procs : pc[p] = "submitted" =>
          /\ plan[p].kind = "accept"
          /\ plan[p].seen # "none"
          /\ ~plan[p].cancel => plan[p].seen = "incorporated"

(* How far a finalization has come, for the process that is carrying it out.   *)
Captured == patch = IF whole THEN "all" ELSE "rest"
Progress ==
    \A p \in Procs :
        /\ pc[p] \in {"captured", "described", "closed"} => place = "work" /\ Captured
        /\ pc[p] \in {"described", "closed"} => manifest = patch
        /\ pc[p] \in {"captured", "described"} => cleanup # "cleaned"
        /\ pc[p] \in {"closed", "sweeping", "removing"} => cleanup = "pending"
        /\ pc[p] = "sweeping" => place # "work"
        /\ pc[p] = "removing" => place = "quarantine"

(* The collector's work is on a job nobody waits for. *)
Waits == (rowStatus \in Ended /\ disposition = "needs-rework") \/ (pending /\ rowStatus = "running")
Collecting ==
    /\ \A p \in Procs : pc[p] \in {"attested", "captured", "described"} /\ plan[p].kind = "collect"
                            => verdict # "none" \/ ~Waits
    /\ reason = "orphan" => phase \in Final
    /\ cleanup # "none" => phase \in Final

IInv ==
    /\ TypeOK /\ Owned /\ LeaseFollowsOperation /\ Reserved /\ Executed /\ Reviewed
    /\ Progress /\ Collecting
    /\ ResultBeforeRemoval /\ KeptForRetry /\ DecisionsAgree /\ AttemptKnown

-----------------------------------------------------------------------------
(* Lemmas. *)

USE DEF acting, locks, lease, row, tree, result, Goto, Forget, Leave, Free, Unowned, Unlocked

(* What a process is about to do is a plan. *)
LEMMA NoPlanTyped == NoPlan \in Plans /\ NoPlan.kind = "none"
BY DEF NoPlan, Plan, Plans, Kinds, Dispositions

LEMMA PlanTyped ==
  ASSUME NEW kind \in Kinds, NEW cancel \in BOOLEAN, NEW seen \in Dispositions
  PROVE  /\ Plan(kind, cancel, seen) \in Plans
         /\ Plan(kind, cancel, seen).kind = kind
         /\ Plan(kind, cancel, seen).cancel = cancel
         /\ Plan(kind, cancel, seen).seen = seen
BY DEF Plan, Plans

(* The end of an attempt loses no attempt. *)
LEMMA FinishLeaseCounts ==
  ASSUME attempts \in Nat, pending \in BOOLEAN, FinishLease
  PROVE  attempts' \in Nat /\ pending' \in BOOLEAN /\ Known' = Known
<1>1. attempts' = Known /\ pending' = FALSE BY DEF FinishLease
<1>2. Known \in Nat BY DEF Known
<1>3. Known' = attempts' BY <1>1, <1>2 DEF Known
<1> QED BY <1>1, <1>2, <1>3

(* Every step of a process keeps every part of the invariant. *)
LEMMA StartInv == ASSUME NEW p \in Procs, IInv, Start(p) PROVE IInv'
<1>1. TypeOK'
  <2>1. pc' \in [Procs -> Steps]
    BY DEF IInv, TypeOK, Start, Steps, Plans, Phases, Known, Statuses, Ended,
       Dispositions, Final, Captures, Ready, Lock, Kinds, Fresh, Renewed
  <2>2. plan' \in [Procs -> Plans]
    BY NoPlanTyped, PlanTyped DEF IInv, TypeOK, Owned, Start, Steps, Plans, Phases,
       Known, Statuses, Ended, Dispositions, Final, Captures, Holding, Ready, Lock,
       Plan, Kinds, Fresh, Operating, Renewed
  <2>3. /\ attempts' \in Nat /\ pending' \in BOOLEAN /\ Known' <= MaxAttempts
         /\ attempt' \in Nat /\ attempt' <= MaxAttempts
    BY MaxAttemptsAssumption DEF IInv, TypeOK, Start, Steps, Plans, Phases, Known,
       Statuses, Ended, Dispositions, Final, Captures, Ready, Lock, Kinds, Fresh,
       Renewed
  <2> QED
    BY BossAssumption, <2>1, <2>2, <2>3 DEF IInv, TypeOK, Executed, Start, Steps,
       Plans, Phases, Known, Statuses, Ended, Dispositions, Final, Captures, Ready,
       Lock, Plan, Kinds, Fresh, Renewed
<1>2. Owned'
  BY BossAssumption DEF IInv, Owned, TypeOK, Start, Holding, Steps, Plans, Phases,
     Known, Statuses, Ended, Dispositions, Final, Captures, Ready, Lock, Operating,
     Kinds, Fresh, Renewed
<1>3. LeaseFollowsOperation'
  <2>1. owner = None /\ phase \notin Final /\ place = "work" /\ whole
    BY DEF IInv, TypeOK, ResultBeforeRemoval, Start, Lock
  <2>2. owner' = p /\ holder' = Boss[p] /\ UNCHANGED <<phase, place, whole>>
    BY DEF Start, Lock, Renewed
  <2>3. \A q \in Procs \ {p} : pc'[q] \notin Operating
    BY <2>1, BossAssumption DEF IInv, TypeOK, LeaseFollowsOperation, Start
  <2> QED BY <2>1, <2>2, <2>3 DEF LeaseFollowsOperation
<1>4. Reserved'
  BY DEF IInv, Reserved, Start, Ready, Lock, Final, Fresh, Renewed
<1>5. Executed'
  BY BossAssumption DEF IInv, Executed, Owned, TypeOK, Start, Ended, Holding, Steps,
     Plans, Phases, Known, Statuses, Dispositions, Final, Captures, Ready, Lock,
     Operating, Kinds, Fresh, Renewed
<1>6. Reviewed'
  BY BossAssumption DEF IInv, Reviewed, Owned, Reserved, LeaseFollowsOperation,
     TypeOK, Start, Final, Ended, Holding, Operating, Steps, Plans, Phases, Known,
     Statuses, Dispositions, Captures, Ready, Lock, Plan, Kinds, Fresh, Renewed
<1>7. Progress'
  BY DEF IInv, Progress, Start, Captured, Ready, Lock, Final, Fresh, Renewed
<1>8. Collecting'
  BY BossAssumption DEF IInv, Collecting, Owned, LeaseFollowsOperation, Reviewed,
     TypeOK, Start, Waits, Final, Holding, Operating, Ended, Steps, Plans, Phases,
     Known, Statuses, Dispositions, Captures, Ready, Lock, Plan, Kinds, Fresh,
     Renewed
<1>9. ResultBeforeRemoval'
  BY DEF IInv, ResultBeforeRemoval, Start, Final, Ready, Lock, Fresh, Renewed
<1>10. KeptForRetry'
  BY DEF IInv, KeptForRetry, Start, Ended, Ready, Lock, Final, Fresh, Renewed
<1>11. DecisionsAgree'
  BY DEF IInv, DecisionsAgree, Start, Ready, Lock, Final, Fresh, Renewed
<1>12. AttemptKnown'
  BY DEF IInv, AttemptKnown, Start, Known, Ready, Lock, Final, Fresh, Renewed
<1> QED BY <1>1, <1>2, <1>3, <1>4, <1>5, <1>6, <1>7, <1>8, <1>9, <1>10, <1>11, <1>12 DEF IInv

LEMMA PrepareInv == ASSUME NEW p \in Procs, IInv, Prepare(p) PROVE IInv'
<1>1. TypeOK'
  <2>1. pc' \in [Procs -> Steps]
    BY DEF IInv, TypeOK, Prepare, Steps, Plans, Phases, Known, Statuses, Ended,
       Dispositions, Final, Captures, Ready, Lock, Kinds, Fresh, Renewed
  <2>2. plan' \in [Procs -> Plans]
    BY NoPlanTyped, PlanTyped DEF IInv, TypeOK, Owned, Prepare, Steps, Plans,
       Phases, Known, Statuses, Ended, Dispositions, Final, Captures, Holding,
       Ready, Lock, Plan, Kinds, Fresh, Operating, Renewed
  <2>3. /\ attempts' \in Nat /\ pending' \in BOOLEAN /\ Known' <= MaxAttempts
         /\ attempt' \in Nat /\ attempt' <= MaxAttempts
    BY MaxAttemptsAssumption DEF IInv, TypeOK, Prepare, Steps, Plans, Phases, Known,
       Statuses, Ended, Dispositions, Final, Captures, Ready, Lock, Kinds, Fresh,
       Renewed
  <2> QED
    BY BossAssumption, <2>1, <2>2, <2>3 DEF IInv, TypeOK, Executed, Prepare, Steps,
       Plans, Phases, Known, Statuses, Ended, Dispositions, Final, Captures, Ready,
       Lock, Plan, Kinds, Fresh, Renewed
<1>2. Owned'
  BY BossAssumption DEF IInv, Owned, TypeOK, Prepare, Holding, Steps, Plans, Phases,
     Known, Statuses, Ended, Dispositions, Final, Captures, Ready, Lock, Operating,
     Kinds, Fresh, Renewed
<1>3. LeaseFollowsOperation'
  <2>1. owner = None /\ phase \notin Final /\ place = "work" /\ whole
    BY DEF IInv, TypeOK, ResultBeforeRemoval, Prepare, Lock
  <2>2. owner' = p /\ holder' = Boss[p] /\ UNCHANGED <<phase, place, whole>>
    BY DEF Prepare, Lock, Renewed
  <2>3. \A q \in Procs \ {p} : pc'[q] \notin Operating
    BY <2>1, BossAssumption DEF IInv, TypeOK, LeaseFollowsOperation, Prepare
  <2> QED BY <2>1, <2>2, <2>3 DEF LeaseFollowsOperation
<1>4. Reserved'
  BY DEF IInv, Reserved, Prepare, Ready, Lock, Final, Fresh, Renewed
<1>5. Executed'
  BY BossAssumption DEF IInv, Executed, Owned, TypeOK, Prepare, Ended, Holding,
     Steps, Plans, Phases, Known, Statuses, Dispositions, Final, Captures, Ready,
     Lock, Operating, Kinds, Fresh, Renewed
<1>6. Reviewed'
  BY ZenonT(60), BossAssumption DEF IInv, Reviewed, Owned, TypeOK, Prepare, Final, Ended,
     Holding, Steps, Plans, Phases, Known, Statuses, Dispositions, Captures, Ready,
     Lock, Operating, Kinds, Fresh, Renewed
<1>7. Progress'
  BY DEF IInv, Progress, Prepare, Captured, Ready, Lock, Final, Fresh, Renewed
<1>8. Collecting'
  BY BossAssumption DEF IInv, Collecting, Owned, LeaseFollowsOperation, Reviewed,
     TypeOK, Prepare, Waits, Final, Holding, Operating, Ended, Steps, Plans, Phases,
     Known, Statuses, Dispositions, Captures, Ready, Lock, Plan, Kinds, Fresh,
     Renewed
<1>9. ResultBeforeRemoval'
  BY DEF IInv, ResultBeforeRemoval, Prepare, Final, Ready, Lock, Fresh, Renewed
<1>10. KeptForRetry'
  BY DEF IInv, KeptForRetry, Prepare, Ended, Ready, Lock, Final, Fresh, Renewed
<1>11. DecisionsAgree'
  BY DEF IInv, DecisionsAgree, Prepare, Ready, Lock, Final, Fresh, Renewed
<1>12. AttemptKnown'
  BY DEF IInv, AttemptKnown, Prepare, Known, Ready, Lock, Final, Fresh, Renewed
<1> QED BY <1>1, <1>2, <1>3, <1>4, <1>5, <1>6, <1>7, <1>8, <1>9, <1>10, <1>11, <1>12 DEF IInv

LEMMA PreparationFailsInv == ASSUME NEW p \in Procs, IInv, PreparationFails(p) PROVE IInv'
<1>1. TypeOK'
  <2>1. pc' \in [Procs -> Steps]
    BY DEF IInv, TypeOK, PreparationFails, Steps, Plans, Phases, Known, Statuses,
       Ended, Dispositions, Final, Captures, Fresh, Report, Kinds
  <2>2. plan' \in [Procs -> Plans]
    BY NoPlanTyped, PlanTyped DEF IInv, TypeOK, PreparationFails, Steps, Plans,
       Phases, Known, Statuses, Ended, Dispositions, Final, Captures, Fresh, Report,
       Kinds
  <2>3. /\ attempts' \in Nat /\ pending' \in BOOLEAN /\ Known' <= MaxAttempts
         /\ attempt' \in Nat /\ attempt' <= MaxAttempts
    BY MaxAttemptsAssumption DEF IInv, TypeOK, PreparationFails, Steps, Plans,
       Phases, Known, Statuses, Ended, Dispositions, Final, Captures, Fresh, Report,
       Kinds
  <2> QED
    BY <2>1, <2>2, <2>3 DEF IInv, TypeOK, PreparationFails, Steps, Plans, Phases,
       Known, Statuses, Ended, Dispositions, Final, Captures, Fresh, Report, Kinds
<1>2. Owned'
  BY BossAssumption DEF IInv, Owned, TypeOK, PreparationFails, Holding, Steps,
     Plans, Phases, Known, Statuses, Ended, Dispositions, Final, Captures, Fresh,
     Report, Operating, Kinds
<1>3. LeaseFollowsOperation'
  BY BossAssumption DEF IInv, LeaseFollowsOperation, Owned, TypeOK,
     PreparationFails, Operating, Final, Holding, Steps, Plans, Phases, Known,
     Statuses, Ended, Dispositions, Captures, Fresh, Report, Kinds
<1>4. Reserved'
  BY BossAssumption DEF IInv, Reserved, Owned, TypeOK, PreparationFails, Holding,
     Steps, Plans, Phases, Known, Statuses, Ended, Dispositions, Final, Captures,
     Fresh, Report, Operating, Kinds
<1>5. Executed'
  BY BossAssumption DEF IInv, Executed, Owned, TypeOK, PreparationFails, Ended,
     Holding, Steps, Plans, Phases, Known, Statuses, Dispositions, Final, Captures,
     Fresh, Report, Operating, Kinds
<1>6. Reviewed'
  BY BossAssumption DEF IInv, Reviewed, Owned, TypeOK, PreparationFails, Final,
     Ended, Holding, Steps, Plans, Phases, Known, Statuses, Dispositions, Captures,
     Fresh, Report, Operating, Kinds
<1>7. Progress'
  BY BossAssumption DEF IInv, Progress, Owned, TypeOK, PreparationFails, Captured,
     Holding, Steps, Plans, Phases, Known, Statuses, Ended, Dispositions, Final,
     Captures, Fresh, Report, Operating, Kinds
<1>8. Collecting'
  BY BossAssumption DEF IInv, Collecting, Owned, TypeOK, PreparationFails, Waits,
     Final, Holding, Steps, Plans, Phases, Known, Statuses, Ended, Dispositions,
     Captures, Fresh, Report, Operating, Kinds
<1>9. ResultBeforeRemoval'
  BY DEF IInv, ResultBeforeRemoval, PreparationFails, Final, Fresh, Report
<1>10. KeptForRetry'
  BY DEF IInv, KeptForRetry, PreparationFails, Ended, Fresh, Report
<1>11. DecisionsAgree'
  BY DEF IInv, DecisionsAgree, PreparationFails, Fresh, Report
<1>12. AttemptKnown'
  BY DEF IInv, AttemptKnown, PreparationFails, Known, Fresh, Report
<1> QED BY <1>1, <1>2, <1>3, <1>4, <1>5, <1>6, <1>7, <1>8, <1>9, <1>10, <1>11, <1>12 DEF IInv

LEMMA FailLeaseInv == ASSUME NEW p \in Procs, IInv, FailLease(p) PROVE IInv'
<1>1. TypeOK'
  <2>1. pc' \in [Procs -> Steps]
    BY DEF IInv, TypeOK, FailLease, Steps, Plans, Phases, Known, Statuses, Ended,
       Dispositions, Final, Captures, FinishLease, Report, Kinds, Fresh
  <2>2. plan' \in [Procs -> Plans]
    BY NoPlanTyped, PlanTyped DEF IInv, TypeOK, FailLease, Steps, Plans, Phases,
       Known, Statuses, Ended, Dispositions, Final, Captures, FinishLease, Report,
       Kinds, Fresh
  <2>3. /\ attempts' \in Nat /\ pending' \in BOOLEAN /\ Known' <= MaxAttempts
         /\ attempt' \in Nat /\ attempt' <= MaxAttempts
    <3>1. CASE FinishLease BY <3>1, FinishLeaseCounts DEF IInv, TypeOK, FailLease
    <3>2. CASE UNCHANGED lease BY <3>2 DEF IInv, TypeOK, Known, FailLease
    <3> QED BY <3>1, <3>2 DEF FailLease
  <2> QED
    BY <2>1, <2>2, <2>3 DEF IInv, TypeOK, FailLease, Steps, Plans, Phases, Known,
       Statuses, Ended, Dispositions, Final, Captures, FinishLease, Report, Kinds,
       Fresh
<1>2. Owned'
  BY BossAssumption DEF IInv, Owned, TypeOK, FailLease, Holding, Steps, Plans,
     Phases, Known, Statuses, Ended, Dispositions, Final, Captures, FinishLease,
     Report, Operating, Kinds, Fresh
<1>3. LeaseFollowsOperation'
  BY BossAssumption DEF IInv, LeaseFollowsOperation, Owned, TypeOK, FailLease,
     Operating, Final, Holding, Steps, Plans, Phases, Known, Statuses, Ended,
     Dispositions, Captures, FinishLease, Report, Kinds, Fresh
<1>4. Reserved'
  BY BossAssumption DEF IInv, Reserved, Owned, TypeOK, FailLease, Holding, Steps,
     Plans, Phases, Known, Statuses, Ended, Dispositions, Final, Captures,
     FinishLease, Report, Operating, Kinds, Fresh
<1>5. Executed'
  BY DEF IInv, Executed, FailLease, Ended, FinishLease, Report, Final, Known
<1>6. Reviewed'
  BY DEF IInv, Reviewed, FailLease, Final, Ended, FinishLease, Report, Known
<1>7. Progress'
  BY DEF IInv, Progress, FailLease, Captured, FinishLease, Report, Final, Known
<1>8. Collecting'
  BY DEF IInv, Collecting, FailLease, Waits, Final, FinishLease, Report, Ended,
     Known
<1>9. ResultBeforeRemoval'
  BY DEF IInv, ResultBeforeRemoval, FailLease, Final, FinishLease, Report, Known
<1>10. KeptForRetry'
  BY DEF IInv, KeptForRetry, FailLease, Ended, FinishLease, Report, Final, Known
<1>11. DecisionsAgree'
  BY BossAssumption DEF IInv, DecisionsAgree, Owned, TypeOK, FailLease, Holding,
     Steps, Plans, Phases, Known, Statuses, Ended, Dispositions, Final, Captures,
     FinishLease, Report, Operating, Kinds, Fresh
<1>12. AttemptKnown'
  BY BossAssumption DEF IInv, AttemptKnown, Owned, TypeOK, FailLease, Known,
     Holding, Steps, Plans, Phases, Statuses, Ended, Dispositions, Final, Captures,
     FinishLease, Report, Operating, Kinds, Fresh
<1> QED BY <1>1, <1>2, <1>3, <1>4, <1>5, <1>6, <1>7, <1>8, <1>9, <1>10, <1>11, <1>12 DEF IInv

LEMMA RecordUnpreparedInv == ASSUME NEW p \in Procs, IInv, RecordUnprepared(p) PROVE IInv'
<1>1. TypeOK'
  <2>1. pc' \in [Procs -> Steps]
    BY DEF IInv, TypeOK, RecordUnprepared, Steps, Plans, Phases, Known, Statuses,
       Ended, Dispositions, Final, Captures, Kinds, Fresh
  <2>2. plan' \in [Procs -> Plans]
    BY NoPlanTyped, PlanTyped DEF IInv, TypeOK, RecordUnprepared, Steps, Plans,
       Phases, Known, Statuses, Ended, Dispositions, Final, Captures, Kinds, Fresh
  <2>3. /\ attempts' \in Nat /\ pending' \in BOOLEAN /\ Known' <= MaxAttempts
         /\ attempt' \in Nat /\ attempt' <= MaxAttempts
    BY MaxAttemptsAssumption DEF IInv, TypeOK, RecordUnprepared, Steps, Plans,
       Phases, Known, Statuses, Ended, Dispositions, Final, Captures, Kinds, Fresh
  <2> QED
    BY <2>1, <2>2, <2>3 DEF IInv, TypeOK, RecordUnprepared, Steps, Plans, Phases,
       Known, Statuses, Ended, Dispositions, Final, Captures, Kinds, Fresh
<1>2. Owned'
  BY DEF IInv, Owned, RecordUnprepared, Holding, Operating
<1>3. LeaseFollowsOperation'
  BY DEF IInv, LeaseFollowsOperation, RecordUnprepared, Operating, Final
<1>4. Reserved'
  BY DEF IInv, Reserved, RecordUnprepared
<1>5. Executed'
  BY DEF IInv, Executed, RecordUnprepared, Ended
<1>6. Reviewed'
  BY DEF IInv, Reviewed, RecordUnprepared, Final, Ended
<1>7. Progress'
  BY DEF IInv, Progress, RecordUnprepared, Captured
<1>8. Collecting'
  BY BossAssumption DEF IInv, Collecting, Owned, LeaseFollowsOperation, Reviewed,
     TypeOK, RecordUnprepared, Waits, Final, Holding, Operating, Ended, Steps,
     Plans, Phases, Known, Statuses, Dispositions, Captures, Kinds, Fresh, NoPlan,
     Plan
<1>9. ResultBeforeRemoval'
  BY DEF IInv, ResultBeforeRemoval, RecordUnprepared, Final
<1>10. KeptForRetry'
  BY BossAssumption DEF IInv, KeptForRetry, Collecting, Reviewed, Owned,
     LeaseFollowsOperation, DecisionsAgree, TypeOK, RecordUnprepared, Ended, Waits,
     Final, Holding, Operating, Steps, Plans, Phases, Known, Statuses, Dispositions,
     Captures, Kinds, Fresh, NoPlan, Plan
<1>11. DecisionsAgree'
  BY DEF IInv, DecisionsAgree, RecordUnprepared
<1>12. AttemptKnown'
  BY DEF IInv, AttemptKnown, RecordUnprepared, Known
<1> QED BY <1>1, <1>2, <1>3, <1>4, <1>5, <1>6, <1>7, <1>8, <1>9, <1>10, <1>11, <1>12 DEF IInv

LEMMA ReserveInv == ASSUME NEW p \in Procs, IInv, Reserve(p) PROVE IInv'
<1>1. TypeOK'
  <2>1. pc' \in [Procs -> Steps]
    BY DEF IInv, TypeOK, Reserve, Steps, Plans, Phases, Known, Statuses, Ended,
       Dispositions, Final, Captures, Startable, Kinds, Fresh
  <2>2. plan' \in [Procs -> Plans]
    BY NoPlanTyped, PlanTyped DEF IInv, TypeOK, Reserve, Steps, Plans, Phases,
       Known, Statuses, Ended, Dispositions, Final, Captures, Startable, Kinds,
       Fresh
  <2>3. /\ attempts' \in Nat /\ pending' \in BOOLEAN /\ Known' <= MaxAttempts
         /\ attempt' \in Nat /\ attempt' <= MaxAttempts
    BY MaxAttemptsAssumption DEF IInv, TypeOK, Reserve, Steps, Plans, Phases, Known,
       Statuses, Ended, Dispositions, Final, Captures, Startable, Kinds, Fresh
  <2> QED
    BY <2>1, <2>2, <2>3 DEF IInv, TypeOK, Reserve, Steps, Plans, Phases, Known,
       Statuses, Ended, Dispositions, Final, Captures, Startable, Kinds, Fresh
<1>2. Owned'
  BY DEF IInv, Owned, Reserve, Holding, Startable, Known, Operating, Final
<1>3. LeaseFollowsOperation'
  BY DEF IInv, LeaseFollowsOperation, Reserve, Operating, Final, Startable, Known
<1>4. Reserved'
  BY DEF IInv, Reserved, Reserve, Startable, Known, Final
<1>5. Executed'
  BY DEF IInv, Executed, Reserve, Ended, Startable, Known, Final
<1>6. Reviewed'
  BY DEF IInv, Reviewed, Reserve, Final, Ended, Startable, Known
<1>7. Progress'
  BY DEF IInv, Progress, Reserve, Captured, Startable, Known, Final
<1>8. Collecting'
  BY BossAssumption DEF IInv, Collecting, Owned, TypeOK, Reserve, Waits, Final,
     Holding, Steps, Plans, Phases, Known, Statuses, Ended, Dispositions, Captures,
     Startable, Operating, Kinds, Fresh
<1>9. ResultBeforeRemoval'
  BY DEF IInv, ResultBeforeRemoval, Reserve, Final, Startable, Known
<1>10. KeptForRetry'
  BY BossAssumption DEF IInv, KeptForRetry, Collecting, Reviewed, Owned,
     LeaseFollowsOperation, DecisionsAgree, TypeOK, Reserve, Ended, Waits, Final,
     Holding, Operating, Steps, Plans, Phases, Known, Statuses, Dispositions,
     Captures, Startable, Kinds, Fresh
<1>11. DecisionsAgree'
  BY DEF IInv, DecisionsAgree, Reserve, Startable, Known, Final
<1>12. AttemptKnown'
  BY BossAssumption DEF IInv, AttemptKnown, Owned, TypeOK, Reserve, Known, Holding,
     Steps, Plans, Phases, Statuses, Ended, Dispositions, Final, Captures,
     Startable, Operating, Kinds, Fresh
<1> QED BY <1>1, <1>2, <1>3, <1>4, <1>5, <1>6, <1>7, <1>8, <1>9, <1>10, <1>11, <1>12 DEF IInv

LEMMA ReplayInv == ASSUME NEW p \in Procs, IInv, Replay(p) PROVE IInv'
<1>1. TypeOK'
  <2>1. pc' \in [Procs -> Steps]
    BY DEF IInv, TypeOK, Replay, Steps, Plans, Phases, Known, Statuses, Ended,
       Dispositions, Final, Captures, Startable, Kinds, Fresh
  <2>2. plan' \in [Procs -> Plans]
    BY NoPlanTyped, PlanTyped DEF IInv, TypeOK, Replay, Steps, Plans, Phases, Known,
       Statuses, Ended, Dispositions, Final, Captures, Startable, Kinds, Fresh
  <2>3. /\ attempts' \in Nat /\ pending' \in BOOLEAN /\ Known' <= MaxAttempts
         /\ attempt' \in Nat /\ attempt' <= MaxAttempts
    BY MaxAttemptsAssumption DEF IInv, TypeOK, Replay, Steps, Plans, Phases, Known,
       Statuses, Ended, Dispositions, Final, Captures, Startable, Kinds, Fresh
  <2> QED
    BY <2>1, <2>2, <2>3 DEF IInv, TypeOK, Replay, Steps, Plans, Phases, Known,
       Statuses, Ended, Dispositions, Final, Captures, Startable, Kinds, Fresh
<1>2. Owned'
  BY DEF IInv, Owned, Replay, Holding, Startable, Operating, Final
<1>3. LeaseFollowsOperation'
  BY DEF IInv, LeaseFollowsOperation, Replay, Operating, Final, Startable
<1>4. Reserved'
  BY DEF IInv, Reserved, Replay, Startable, Final
<1>5. Executed'
  BY DEF IInv, Executed, Replay, Ended, Startable, Final
<1>6. Reviewed'
  BY DEF IInv, Reviewed, Replay, Final, Ended, Startable
<1>7. Progress'
  BY DEF IInv, Progress, Replay, Captured, Startable, Final
<1>8. Collecting'
  BY DEF IInv, Collecting, Replay, Waits, Final, Startable, Ended
<1>9. ResultBeforeRemoval'
  BY DEF IInv, ResultBeforeRemoval, Replay, Final, Startable
<1>10. KeptForRetry'
  BY DEF IInv, KeptForRetry, Replay, Ended, Startable, Final
<1>11. DecisionsAgree'
  BY DEF IInv, DecisionsAgree, Replay, Startable, Final
<1>12. AttemptKnown'
  BY DEF IInv, AttemptKnown, Replay, Known, Startable, Final
<1> QED BY <1>1, <1>2, <1>3, <1>4, <1>5, <1>6, <1>7, <1>8, <1>9, <1>10, <1>11, <1>12 DEF IInv

LEMMA RecordStartInv == ASSUME NEW p \in Procs, IInv, RecordStart(p) PROVE IInv'
<1>1. TypeOK'
  <2>1. pc' \in [Procs -> Steps]
    BY DEF IInv, TypeOK, RecordStart, Steps, Plans, Phases, Known, Statuses, Ended,
       Dispositions, Final, Captures, Kinds, Fresh
  <2>2. plan' \in [Procs -> Plans]
    BY NoPlanTyped, PlanTyped DEF IInv, TypeOK, Owned, RecordStart, Steps, Plans,
       Phases, Known, Statuses, Ended, Dispositions, Final, Captures, Holding, Plan,
       Kinds, Fresh, Operating
  <2>3. /\ attempts' \in Nat /\ pending' \in BOOLEAN /\ Known' <= MaxAttempts
         /\ attempt' \in Nat /\ attempt' <= MaxAttempts
    <3>1. pending /\ Known = attempts + 1
      BY DEF IInv, TypeOK, Reserved, Known, RecordStart
    <3>2. attempt' = attempts + 1 /\ UNCHANGED <<attempts, pending, Known>>
      BY DEF RecordStart, Known
    <3> QED BY <3>1, <3>2 DEF IInv, TypeOK
  <2> QED
    BY BossAssumption, <2>1, <2>2, <2>3 DEF IInv, TypeOK, Executed, RecordStart,
       Steps, Plans, Phases, Known, Statuses, Ended, Dispositions, Final, Captures,
       Plan, Kinds, Fresh
<1>2. Owned'
  BY DEF IInv, Owned, RecordStart, Holding, Operating
<1>3. LeaseFollowsOperation'
  BY DEF IInv, LeaseFollowsOperation, RecordStart, Operating, Final
<1>4. Reserved'
  BY DEF IInv, Reserved, RecordStart
<1>5. Executed'
  BY BossAssumption DEF IInv, Executed, Owned, TypeOK, RecordStart, Ended, Holding,
     Steps, Plans, Phases, Known, Statuses, Dispositions, Final, Captures,
     Operating, Kinds, Fresh
<1>6. Reviewed'
  BY BossAssumption DEF IInv, Reviewed, Owned, Reserved, LeaseFollowsOperation,
     TypeOK, RecordStart, Final, Ended, Holding, Operating, Steps, Plans, Phases,
     Known, Statuses, Dispositions, Captures, Plan, Kinds, Fresh
<1>7. Progress'
  BY DEF IInv, Progress, RecordStart, Captured
<1>8. Collecting'
  BY BossAssumption DEF IInv, Collecting, Owned, TypeOK, RecordStart, Waits, Final,
     Holding, Steps, Plans, Phases, Known, Statuses, Ended, Dispositions, Captures,
     Operating, Kinds, Fresh
<1>9. ResultBeforeRemoval'
  BY DEF IInv, ResultBeforeRemoval, RecordStart, Final
<1>10. KeptForRetry'
  BY BossAssumption DEF IInv, KeptForRetry, Collecting, Reviewed, Owned,
     LeaseFollowsOperation, DecisionsAgree, TypeOK, RecordStart, Ended, Waits,
     Final, Holding, Operating, Steps, Plans, Phases, Known, Statuses, Dispositions,
     Captures, Plan, Kinds, Fresh
<1>11. DecisionsAgree'
  BY BossAssumption DEF IInv, DecisionsAgree, Reviewed, Reserved, Progress, Owned,
     LeaseFollowsOperation, ResultBeforeRemoval, Collecting, TypeOK, RecordStart,
     Final, Ended, Captured, Holding, Operating, Waits, Steps, Plans, Phases, Known,
     Statuses, Dispositions, Captures, Plan, Kinds, Fresh
<1>12. AttemptKnown'
  BY BossAssumption DEF IInv, AttemptKnown, Reserved, TypeOK, RecordStart, Known,
     Steps, Plans, Phases, Statuses, Ended, Dispositions, Final, Captures, Plan,
     Kinds, Fresh
<1> QED BY <1>1, <1>2, <1>3, <1>4, <1>5, <1>6, <1>7, <1>8, <1>9, <1>10, <1>11, <1>12 DEF IInv

LEMMA BeginAttemptInv == ASSUME NEW p \in Procs, IInv, BeginAttempt(p) PROVE IInv'
<1>1. TypeOK'
  <2>1. pc' \in [Procs -> Steps]
    BY DEF IInv, TypeOK, BeginAttempt, Steps, Plans, Phases, Known, Statuses, Ended,
       Dispositions, Final, Captures, Kinds, Fresh
  <2>2. plan' \in [Procs -> Plans]
    BY NoPlanTyped, PlanTyped DEF IInv, TypeOK, BeginAttempt, Steps, Plans, Phases,
       Known, Statuses, Ended, Dispositions, Final, Captures, Kinds, Fresh
  <2>3. /\ attempts' \in Nat /\ pending' \in BOOLEAN /\ Known' <= MaxAttempts
         /\ attempt' \in Nat /\ attempt' <= MaxAttempts
    <3>1. attempts' = attempts + 1 /\ ~pending' /\ attempts < MaxAttempts
      BY DEF BeginAttempt
    <3>2. attempts' \in Nat /\ Known' = attempts' /\ attempts' <= MaxAttempts
      BY <3>1, MaxAttemptsAssumption DEF IInv, TypeOK, Known
    <3> QED BY <3>1, <3>2 DEF IInv, TypeOK, BeginAttempt
  <2> QED
    BY <2>1, <2>2, <2>3 DEF IInv, TypeOK, BeginAttempt, Steps, Plans, Phases, Known,
       Statuses, Ended, Dispositions, Final, Captures, Kinds, Fresh
<1>2. Owned'
  BY DEF IInv, Owned, BeginAttempt, Holding, Final, Operating
<1>3. LeaseFollowsOperation'
  BY DEF IInv, LeaseFollowsOperation, BeginAttempt, Operating, Final
<1>4. Reserved'
  BY BossAssumption DEF IInv, Reserved, Owned, TypeOK, BeginAttempt, Holding, Steps,
     Plans, Phases, Known, Statuses, Ended, Dispositions, Final, Captures,
     Operating, Kinds, Fresh
<1>5. Executed'
  BY DEF IInv, Executed, BeginAttempt, Ended, Final
<1>6. Reviewed'
  BY DEF IInv, Reviewed, BeginAttempt, Final, Ended
<1>7. Progress'
  BY DEF IInv, Progress, BeginAttempt, Captured, Final
<1>8. Collecting'
  BY DEF IInv, Collecting, BeginAttempt, Waits, Final, Ended
<1>9. ResultBeforeRemoval'
  BY DEF IInv, ResultBeforeRemoval, BeginAttempt, Final
<1>10. KeptForRetry'
  BY DEF IInv, KeptForRetry, BeginAttempt, Ended, Final
<1>11. DecisionsAgree'
  BY BossAssumption DEF IInv, DecisionsAgree, Owned, TypeOK, BeginAttempt, Holding,
     Steps, Plans, Phases, Known, Statuses, Ended, Dispositions, Final, Captures,
     Operating, Kinds, Fresh
<1>12. AttemptKnown'
  BY BossAssumption DEF IInv, AttemptKnown, Owned, TypeOK, BeginAttempt, Known,
     Holding, Steps, Plans, Phases, Statuses, Ended, Dispositions, Final, Captures,
     Operating, Kinds, Fresh
<1> QED BY <1>1, <1>2, <1>3, <1>4, <1>5, <1>6, <1>7, <1>8, <1>9, <1>10, <1>11, <1>12 DEF IInv

LEMMA RecordRunningInv == ASSUME NEW p \in Procs, IInv, RecordRunning(p) PROVE IInv'
<1>1. TypeOK'
  <2>1. pc' \in [Procs -> Steps]
    BY DEF IInv, TypeOK, RecordRunning, Steps, Plans, Phases, Known, Statuses,
       Ended, Dispositions, Final, Captures, Kinds, Fresh
  <2>2. plan' \in [Procs -> Plans]
    BY NoPlanTyped, PlanTyped DEF IInv, TypeOK, RecordRunning, Steps, Plans, Phases,
       Known, Statuses, Ended, Dispositions, Final, Captures, Kinds, Fresh
  <2>3. /\ attempts' \in Nat /\ pending' \in BOOLEAN /\ Known' <= MaxAttempts
         /\ attempt' \in Nat /\ attempt' <= MaxAttempts
    BY MaxAttemptsAssumption DEF IInv, TypeOK, RecordRunning, Steps, Plans, Phases,
       Known, Statuses, Ended, Dispositions, Final, Captures, Kinds, Fresh
  <2> QED
    BY <2>1, <2>2, <2>3 DEF IInv, TypeOK, RecordRunning, Steps, Plans, Phases,
       Known, Statuses, Ended, Dispositions, Final, Captures, Kinds, Fresh
<1>2. Owned'
  BY DEF IInv, Owned, RecordRunning, Holding, Operating
<1>3. LeaseFollowsOperation'
  BY DEF IInv, LeaseFollowsOperation, RecordRunning, Operating, Final
<1>4. Reserved'
  BY DEF IInv, Reserved, RecordRunning
<1>5. Executed'
  BY BossAssumption DEF IInv, Executed, Owned, TypeOK, RecordRunning, Ended,
     Holding, Steps, Plans, Phases, Known, Statuses, Dispositions, Final, Captures,
     Operating, Kinds, Fresh
<1>6. Reviewed'
  BY DEF IInv, Reviewed, RecordRunning, Final, Ended
<1>7. Progress'
  BY DEF IInv, Progress, RecordRunning, Captured
<1>8. Collecting'
  BY DEF IInv, Collecting, RecordRunning, Waits, Final, Ended
<1>9. ResultBeforeRemoval'
  BY DEF IInv, ResultBeforeRemoval, RecordRunning, Final
<1>10. KeptForRetry'
  BY DEF IInv, KeptForRetry, RecordRunning, Ended
<1>11. DecisionsAgree'
  BY DEF IInv, DecisionsAgree, RecordRunning
<1>12. AttemptKnown'
  BY DEF IInv, AttemptKnown, RecordRunning, Known
<1> QED BY <1>1, <1>2, <1>3, <1>4, <1>5, <1>6, <1>7, <1>8, <1>9, <1>10, <1>11, <1>12 DEF IInv

LEMMA WorkInv == ASSUME NEW p \in Procs, IInv, Work(p) PROVE IInv'
<1>1. TypeOK'
  <2>1. pc' \in [Procs -> Steps]
    BY DEF IInv, TypeOK, Work, Steps, Plans, Phases, Known, Statuses, Ended,
       Dispositions, Final, Captures, Kinds, Fresh
  <2>2. plan' \in [Procs -> Plans]
    BY NoPlanTyped, PlanTyped DEF IInv, TypeOK, Work, Steps, Plans, Phases, Known,
       Statuses, Ended, Dispositions, Final, Captures, Kinds, Fresh
  <2>3. /\ attempts' \in Nat /\ pending' \in BOOLEAN /\ Known' <= MaxAttempts
         /\ attempt' \in Nat /\ attempt' <= MaxAttempts
    BY MaxAttemptsAssumption DEF IInv, TypeOK, Work, Steps, Plans, Phases, Known,
       Statuses, Ended, Dispositions, Final, Captures, Kinds, Fresh
  <2> QED
    BY <2>1, <2>2, <2>3 DEF IInv, TypeOK, Work, Steps, Plans, Phases, Known,
       Statuses, Ended, Dispositions, Final, Captures, Kinds, Fresh
<1>2. Owned'
  BY DEF IInv, Owned, Work, Holding, Operating
<1>3. LeaseFollowsOperation'
  BY DEF IInv, LeaseFollowsOperation, Work, Operating, Final
<1>4. Reserved'
  BY DEF IInv, Reserved, Work
<1>5. Executed'
  BY DEF IInv, Executed, Work, Ended
<1>6. Reviewed'
  BY DEF IInv, Reviewed, Work, Final, Ended
<1>7. Progress'
  BY BossAssumption DEF IInv, Progress, Owned, TypeOK, Work, Captured, Holding,
     Steps, Plans, Phases, Known, Statuses, Ended, Dispositions, Final, Captures,
     Operating, Kinds, Fresh
<1>8. Collecting'
  BY DEF IInv, Collecting, Work, Waits, Final, Ended
<1>9. ResultBeforeRemoval'
  BY BossAssumption DEF IInv, ResultBeforeRemoval, Progress, Owned,
     LeaseFollowsOperation, Collecting, TypeOK, Work, Final, Captured, Holding,
     Operating, Waits, Steps, Plans, Phases, Known, Statuses, Ended, Dispositions,
     Captures, Kinds, Fresh
<1>10. KeptForRetry'
  BY DEF IInv, KeptForRetry, Work, Ended
<1>11. DecisionsAgree'
  BY DEF IInv, DecisionsAgree, Work
<1>12. AttemptKnown'
  BY DEF IInv, AttemptKnown, Work, Known
<1> QED BY <1>1, <1>2, <1>3, <1>4, <1>5, <1>6, <1>7, <1>8, <1>9, <1>10, <1>11, <1>12 DEF IInv

LEMMA ConcludeInv == ASSUME NEW p \in Procs, IInv, Conclude(p) PROVE IInv'
<1>1. TypeOK'
  <2>1. pc' \in [Procs -> Steps]
    BY DEF IInv, TypeOK, Conclude, Steps, Plans, Phases, Known, Statuses, Ended,
       Dispositions, Final, Captures, Success, Kinds, Fresh
  <2>2. plan' \in [Procs -> Plans]
    BY NoPlanTyped, PlanTyped DEF IInv, TypeOK, Conclude, Steps, Plans, Phases,
       Known, Statuses, Ended, Dispositions, Final, Captures, Success, Kinds, Fresh
  <2>3. /\ attempts' \in Nat /\ pending' \in BOOLEAN /\ Known' <= MaxAttempts
         /\ attempt' \in Nat /\ attempt' <= MaxAttempts
    BY MaxAttemptsAssumption DEF IInv, TypeOK, Conclude, Steps, Plans, Phases,
       Known, Statuses, Ended, Dispositions, Final, Captures, Success, Kinds, Fresh
  <2> QED
    BY <2>1, <2>2, <2>3 DEF IInv, TypeOK, Conclude, Steps, Plans, Phases, Known,
       Statuses, Ended, Dispositions, Final, Captures, Success, Kinds, Fresh
<1>2. Owned'
  BY DEF IInv, Owned, Conclude, Holding, Success, Operating
<1>3. LeaseFollowsOperation'
  BY DEF IInv, LeaseFollowsOperation, Conclude, Operating, Final, Success
<1>4. Reserved'
  BY DEF IInv, Reserved, Conclude, Success
<1>5. Executed'
  BY BossAssumption DEF IInv, Executed, Owned, TypeOK, Conclude, Ended, Holding,
     Steps, Plans, Phases, Known, Statuses, Dispositions, Final, Captures, Success,
     Operating, Kinds, Fresh
<1>6. Reviewed'
  BY DEF IInv, Reviewed, Conclude, Final, Ended, Success
<1>7. Progress'
  BY DEF IInv, Progress, Conclude, Captured, Success
<1>8. Collecting'
  BY DEF IInv, Collecting, Conclude, Waits, Final, Success, Ended
<1>9. ResultBeforeRemoval'
  BY DEF IInv, ResultBeforeRemoval, Conclude, Final, Success
<1>10. KeptForRetry'
  BY DEF IInv, KeptForRetry, Conclude, Ended, Success
<1>11. DecisionsAgree'
  BY DEF IInv, DecisionsAgree, Conclude, Success
<1>12. AttemptKnown'
  BY DEF IInv, AttemptKnown, Conclude, Known, Success
<1> QED BY <1>1, <1>2, <1>3, <1>4, <1>5, <1>6, <1>7, <1>8, <1>9, <1>10, <1>11, <1>12 DEF IInv

LEMMA WritePatchInv == ASSUME NEW p \in Procs, IInv, WritePatch(p) PROVE IInv'
<1>1. TypeOK'
  <2>1. pc' \in [Procs -> Steps]
    BY DEF IInv, TypeOK, WritePatch, Steps, Plans, Phases, Known, Statuses, Ended,
       Dispositions, Final, Captures, Kinds, Fresh
  <2>2. plan' \in [Procs -> Plans]
    BY NoPlanTyped, PlanTyped DEF IInv, TypeOK, WritePatch, Steps, Plans, Phases,
       Known, Statuses, Ended, Dispositions, Final, Captures, Kinds, Fresh
  <2>3. /\ attempts' \in Nat /\ pending' \in BOOLEAN /\ Known' <= MaxAttempts
         /\ attempt' \in Nat /\ attempt' <= MaxAttempts
    BY MaxAttemptsAssumption DEF IInv, TypeOK, WritePatch, Steps, Plans, Phases,
       Known, Statuses, Ended, Dispositions, Final, Captures, Kinds, Fresh
  <2> QED
    BY <2>1, <2>2, <2>3 DEF IInv, TypeOK, WritePatch, Steps, Plans, Phases, Known,
       Statuses, Ended, Dispositions, Final, Captures, Kinds, Fresh
<1>2. Owned'
  BY DEF IInv, Owned, WritePatch, Holding, Operating
<1>3. LeaseFollowsOperation'
  BY DEF IInv, LeaseFollowsOperation, WritePatch, Operating, Final
<1>4. Reserved'
  BY DEF IInv, Reserved, WritePatch
<1>5. Executed'
  BY DEF IInv, Executed, WritePatch, Ended
<1>6. Reviewed'
  BY DEF IInv, Reviewed, WritePatch, Final, Ended
<1>7. Progress'
  BY BossAssumption DEF IInv, Progress, Owned, TypeOK, WritePatch, Captured,
     Holding, Steps, Plans, Phases, Known, Statuses, Ended, Dispositions, Final,
     Captures, Operating, Kinds, Fresh
<1>8. Collecting'
  BY DEF IInv, Collecting, WritePatch, Waits, Final, Ended
<1>9. ResultBeforeRemoval'
  BY DEF IInv, ResultBeforeRemoval, WritePatch, Final
<1>10. KeptForRetry'
  BY DEF IInv, KeptForRetry, WritePatch, Ended
<1>11. DecisionsAgree'
  BY DEF IInv, DecisionsAgree, WritePatch
<1>12. AttemptKnown'
  BY DEF IInv, AttemptKnown, WritePatch, Known
<1> QED BY <1>1, <1>2, <1>3, <1>4, <1>5, <1>6, <1>7, <1>8, <1>9, <1>10, <1>11, <1>12 DEF IInv

LEMMA EndAttemptInv == ASSUME NEW p \in Procs, IInv, EndAttempt(p) PROVE IInv'
<1>1. TypeOK'
  <2>1. pc' \in [Procs -> Steps]
    BY DEF IInv, TypeOK, EndAttempt, Steps, Plans, Phases, Known, Statuses, Ended,
       Dispositions, Final, Captures, FinishLease, Kinds, Fresh
  <2>2. plan' \in [Procs -> Plans]
    BY NoPlanTyped, PlanTyped DEF IInv, TypeOK, EndAttempt, Steps, Plans, Phases,
       Known, Statuses, Ended, Dispositions, Final, Captures, FinishLease, Kinds,
       Fresh
  <2>3. /\ attempts' \in Nat /\ pending' \in BOOLEAN /\ Known' <= MaxAttempts
         /\ attempt' \in Nat /\ attempt' <= MaxAttempts
    BY FinishLeaseCounts DEF IInv, TypeOK, EndAttempt
  <2> QED
    BY <2>1, <2>2, <2>3 DEF IInv, TypeOK, EndAttempt, Steps, Plans, Phases, Known,
       Statuses, Ended, Dispositions, Final, Captures, FinishLease, Kinds, Fresh
<1>2. Owned'
  BY BossAssumption DEF IInv, Owned, TypeOK, EndAttempt, Holding, Steps, Plans,
     Phases, Known, Statuses, Ended, Dispositions, Final, Captures, FinishLease,
     Operating, Kinds, Fresh
<1>3. LeaseFollowsOperation'
  BY BossAssumption DEF IInv, LeaseFollowsOperation, Owned, TypeOK, EndAttempt,
     Operating, Final, Holding, Steps, Plans, Phases, Known, Statuses, Ended,
     Dispositions, Captures, FinishLease, Kinds, Fresh
<1>4. Reserved'
  BY BossAssumption DEF IInv, Reserved, Owned, TypeOK, EndAttempt, Holding, Steps,
     Plans, Phases, Known, Statuses, Ended, Dispositions, Final, Captures,
     FinishLease, Operating, Kinds, Fresh
<1>5. Executed'
  BY BossAssumption DEF IInv, Executed, Owned, TypeOK, EndAttempt, Ended, Holding,
     Steps, Plans, Phases, Known, Statuses, Dispositions, Final, Captures,
     FinishLease, Operating, Kinds, Fresh
<1>6. Reviewed'
  BY BossAssumption DEF IInv, Reviewed, Owned, TypeOK, EndAttempt, Final, Ended,
     Holding, Steps, Plans, Phases, Known, Statuses, Dispositions, Captures,
     FinishLease, Operating, Kinds, Fresh
<1>7. Progress'
  BY BossAssumption DEF IInv, Progress, Owned, TypeOK, EndAttempt, Captured,
     Holding, Steps, Plans, Phases, Known, Statuses, Ended, Dispositions, Final,
     Captures, FinishLease, Operating, Kinds, Fresh
<1>8. Collecting'
  BY BossAssumption DEF IInv, Collecting, Owned, TypeOK, EndAttempt, Waits, Final,
     Holding, Steps, Plans, Phases, Known, Statuses, Ended, Dispositions, Captures,
     FinishLease, Operating, Kinds, Fresh
<1>9. ResultBeforeRemoval'
  BY DEF IInv, ResultBeforeRemoval, EndAttempt, Final, FinishLease, Known
<1>10. KeptForRetry'
  BY DEF IInv, KeptForRetry, EndAttempt, Ended, FinishLease, Final, Known
<1>11. DecisionsAgree'
  BY BossAssumption DEF IInv, DecisionsAgree, Owned, TypeOK, EndAttempt, Holding,
     Steps, Plans, Phases, Known, Statuses, Ended, Dispositions, Final, Captures,
     FinishLease, Operating, Kinds, Fresh
<1>12. AttemptKnown'
  BY DEF IInv, AttemptKnown, EndAttempt, Known, FinishLease, Final
<1> QED BY <1>1, <1>2, <1>3, <1>4, <1>5, <1>6, <1>7, <1>8, <1>9, <1>10, <1>11, <1>12 DEF IInv

LEMMA LoseTrackInv == ASSUME NEW p \in Procs, IInv, LoseTrack(p) PROVE IInv'
<1>1. TypeOK'
  <2>1. pc' \in [Procs -> Steps]
    BY DEF IInv, TypeOK, LoseTrack, Steps, Plans, Phases, Known, Statuses, Ended,
       Dispositions, Final, Captures, Kinds, Fresh
  <2>2. plan' \in [Procs -> Plans]
    BY NoPlanTyped, PlanTyped DEF IInv, TypeOK, LoseTrack, Steps, Plans, Phases,
       Known, Statuses, Ended, Dispositions, Final, Captures, Kinds, Fresh
  <2>3. /\ attempts' \in Nat /\ pending' \in BOOLEAN /\ Known' <= MaxAttempts
         /\ attempt' \in Nat /\ attempt' <= MaxAttempts
    BY MaxAttemptsAssumption DEF IInv, TypeOK, LoseTrack, Steps, Plans, Phases,
       Known, Statuses, Ended, Dispositions, Final, Captures, Kinds, Fresh
  <2> QED
    BY <2>1, <2>2, <2>3 DEF IInv, TypeOK, LoseTrack, Steps, Plans, Phases, Known,
       Statuses, Ended, Dispositions, Final, Captures, Kinds, Fresh
<1>2. Owned'
  BY DEF IInv, Owned, LoseTrack, Holding, Operating
<1>3. LeaseFollowsOperation'
  BY DEF IInv, LeaseFollowsOperation, LoseTrack, Operating, Final
<1>4. Reserved'
  BY DEF IInv, Reserved, LoseTrack
<1>5. Executed'
  BY DEF IInv, Executed, LoseTrack, Ended
<1>6. Reviewed'
  BY DEF IInv, Reviewed, LoseTrack, Final, Ended
<1>7. Progress'
  BY DEF IInv, Progress, LoseTrack, Captured
<1>8. Collecting'
  BY DEF IInv, Collecting, LoseTrack, Waits, Final, Ended
<1>9. ResultBeforeRemoval'
  BY DEF IInv, ResultBeforeRemoval, LoseTrack, Final
<1>10. KeptForRetry'
  BY DEF IInv, KeptForRetry, LoseTrack, Ended
<1>11. DecisionsAgree'
  BY DEF IInv, DecisionsAgree, LoseTrack
<1>12. AttemptKnown'
  BY DEF IInv, AttemptKnown, LoseTrack, Known
<1> QED BY <1>1, <1>2, <1>3, <1>4, <1>5, <1>6, <1>7, <1>8, <1>9, <1>10, <1>11, <1>12 DEF IInv

LEMMA RecordEndInv == ASSUME NEW p \in Procs, IInv, RecordEnd(p) PROVE IInv'
<1>1. TypeOK'
  <2>1. pc' \in [Procs -> Steps] /\ plan' \in [Procs -> Plans]
    BY NoPlanTyped DEF IInv, TypeOK, RecordEnd, Steps
  <2>2. rowStatus' \in Ended \cup {"planned", "running"}
    BY DEF IInv, TypeOK, Executed, RecordEnd, Ended
  <2>3. owner' \in Procs \cup {None} /\ Known' = Known
    BY DEF IInv, TypeOK, RecordEnd, Known
  <2> QED BY <2>1, <2>2, <2>3 DEF IInv, TypeOK, RecordEnd
<1>2. Owned'
  BY BossAssumption DEF IInv, Owned, TypeOK, RecordEnd, Holding, Steps, Plans,
     Phases, Known, Statuses, Ended, Dispositions, Final, Captures, Operating,
     Kinds, Fresh
<1>3. LeaseFollowsOperation'
  BY BossAssumption DEF IInv, LeaseFollowsOperation, Owned, TypeOK, RecordEnd,
     Operating, Final, Holding, Steps, Plans, Phases, Known, Statuses, Ended,
     Dispositions, Captures, Kinds, Fresh
<1>4. Reserved'
  BY DEF IInv, Reserved, RecordEnd
<1>5. Executed'
  BY BossAssumption DEF IInv, Executed, Owned, TypeOK, RecordEnd, Ended, Holding,
     Steps, Plans, Phases, Known, Statuses, Dispositions, Final, Captures,
     Operating, Kinds, Fresh
<1>6. Reviewed'
  BY DEF IInv, Reviewed, RecordEnd, Final, Ended
<1>7. Progress'
  BY DEF IInv, Progress, RecordEnd, Captured
<1>8. Collecting'
  BY BossAssumption DEF IInv, Collecting, Owned, TypeOK, RecordEnd, Waits, Final,
     Holding, Steps, Plans, Phases, Known, Statuses, Ended, Dispositions, Captures,
     Operating, Kinds, Fresh
<1>9. ResultBeforeRemoval'
  BY DEF IInv, ResultBeforeRemoval, RecordEnd, Final
<1>10. KeptForRetry'
  BY BossAssumption DEF IInv, KeptForRetry, Collecting, Reviewed, Owned,
     LeaseFollowsOperation, DecisionsAgree, TypeOK, RecordEnd, Ended, Waits, Final,
     Holding, Operating, Steps, Plans, Phases, Known, Statuses, Dispositions,
     Captures, Kinds, Fresh, NoPlan, Plan
<1>11. DecisionsAgree'
  BY DEF IInv, DecisionsAgree, RecordEnd
<1>12. AttemptKnown'
  BY DEF IInv, AttemptKnown, RecordEnd, Known
<1> QED BY <1>1, <1>2, <1>3, <1>4, <1>5, <1>6, <1>7, <1>8, <1>9, <1>10, <1>11, <1>12 DEF IInv

LEMMA ReviewInv == ASSUME NEW p \in Procs, IInv, Review(p) PROVE IInv'
<1>1. TypeOK'
  <2>1. pc' \in [Procs -> Steps]
    BY DEF IInv, TypeOK, Review, Steps, Plans, Phases, Known, Statuses, Ended,
       Dispositions, Final, Captures, Ready, Kinds, Fresh
  <2>2. plan' \in [Procs -> Plans]
    BY NoPlanTyped, PlanTyped DEF IInv, TypeOK, Owned, Review, Steps, Plans, Phases,
       Known, Statuses, Ended, Dispositions, Final, Captures, Holding, Ready, Plan,
       Kinds, Fresh, Operating
  <2>3. /\ attempts' \in Nat /\ pending' \in BOOLEAN /\ Known' <= MaxAttempts
         /\ attempt' \in Nat /\ attempt' <= MaxAttempts
    BY MaxAttemptsAssumption DEF IInv, TypeOK, Review, Steps, Plans, Phases, Known,
       Statuses, Ended, Dispositions, Final, Captures, Ready, Kinds, Fresh
  <2> QED
    BY BossAssumption, <2>1, <2>2, <2>3 DEF IInv, TypeOK, Executed, Review, Steps,
       Plans, Phases, Known, Statuses, Ended, Dispositions, Final, Captures, Ready,
       Plan, Kinds, Fresh
<1>2. Owned'
  BY BossAssumption DEF IInv, Owned, TypeOK, Review, Holding, Steps, Plans, Phases,
     Known, Statuses, Ended, Dispositions, Final, Captures, Ready, Operating, Kinds,
     Fresh
<1>3. LeaseFollowsOperation'
  BY BossAssumption DEF IInv, LeaseFollowsOperation, Owned, TypeOK, Review,
     Operating, Final, Holding, Steps, Plans, Phases, Known, Statuses, Ended,
     Dispositions, Captures, Ready, Kinds, Fresh
<1>4. Reserved'
  BY DEF IInv, Reserved, Review, Ready, Dispositions, Final
<1>5. Executed'
  BY BossAssumption DEF IInv, Executed, Owned, TypeOK, Review, Ended, Holding,
     Steps, Plans, Phases, Known, Statuses, Dispositions, Final, Captures, Ready,
     Operating, Kinds, Fresh
<1>6. Reviewed'
  BY BossAssumption DEF IInv, Reviewed, Owned, Reserved, LeaseFollowsOperation,
     TypeOK, Review, Final, Ended, Holding, Operating, Steps, Plans, Phases, Known,
     Statuses, Dispositions, Captures, Ready, Plan, Kinds, Fresh
<1>7. Progress'
  BY DEF IInv, Progress, Review, Captured, Ready, Dispositions, Final
<1>8. Collecting'
  BY ZenonT(60), BossAssumption DEF IInv, Collecting, Owned, TypeOK, Review, Waits, Final,
     Holding, Steps, Plans, Phases, Known, Statuses, Ended, Dispositions, Captures,
     Ready, Operating, Kinds, Fresh
<1>9. ResultBeforeRemoval'
  BY DEF IInv, ResultBeforeRemoval, Review, Final, Ready, Dispositions
<1>10. KeptForRetry'
  BY DEF IInv, KeptForRetry, Review, Ended, Ready, Dispositions, Final
<1>11. DecisionsAgree'
  BY DEF IInv, DecisionsAgree, Review, Ready, Dispositions, Final
<1>12. AttemptKnown'
  BY DEF IInv, AttemptKnown, Review, Known, Ready, Dispositions, Final
<1> QED BY <1>1, <1>2, <1>3, <1>4, <1>5, <1>6, <1>7, <1>8, <1>9, <1>10, <1>11, <1>12 DEF IInv

LEMMA DecideInv == ASSUME NEW p \in Procs, IInv, Decide(p) PROVE IInv'
<1>1. TypeOK'
  <2>1. pc' \in [Procs -> Steps]
    BY DEF IInv, TypeOK, Decide, Steps, Plans, Phases, Known, Statuses, Ended,
       Dispositions, Final, Captures, Acceptable, Kinds, Fresh, Frozen
  <2>2. plan' \in [Procs -> Plans]
    BY NoPlanTyped, PlanTyped DEF IInv, TypeOK, Decide, Steps, Plans, Phases, Known,
       Statuses, Ended, Dispositions, Final, Captures, Acceptable, Kinds, Fresh,
       Frozen
  <2>3. /\ attempts' \in Nat /\ pending' \in BOOLEAN /\ Known' <= MaxAttempts
         /\ attempt' \in Nat /\ attempt' <= MaxAttempts
    BY MaxAttemptsAssumption DEF IInv, TypeOK, Decide, Steps, Plans, Phases, Known,
       Statuses, Ended, Dispositions, Final, Captures, Acceptable, Kinds, Fresh,
       Frozen
  <2> QED
    BY <2>1, <2>2, <2>3 DEF IInv, TypeOK, Decide, Steps, Plans, Phases, Known,
       Statuses, Ended, Dispositions, Final, Captures, Acceptable, Kinds, Fresh,
       Frozen
<1>2. Owned'
  BY BossAssumption DEF IInv, Owned, TypeOK, Decide, Holding, Steps, Plans, Phases,
     Known, Statuses, Ended, Dispositions, Final, Captures, Acceptable, Operating,
     Kinds, Fresh, Frozen
<1>3. LeaseFollowsOperation'
  BY BossAssumption DEF IInv, LeaseFollowsOperation, Owned, TypeOK, Decide,
     Operating, Final, Holding, Steps, Plans, Phases, Known, Statuses, Ended,
     Dispositions, Captures, Acceptable, Kinds, Fresh, Frozen
<1>4. Reserved'
  BY BossAssumption DEF IInv, Reserved, Owned, TypeOK, Decide, Holding, Steps,
     Plans, Phases, Known, Statuses, Ended, Dispositions, Final, Captures,
     Acceptable, Operating, Kinds, Fresh, Frozen
<1>5. Executed'
  BY BossAssumption DEF IInv, Executed, Owned, TypeOK, Decide, Ended, Holding,
     Steps, Plans, Phases, Known, Statuses, Dispositions, Final, Captures,
     Acceptable, Operating, Kinds, Fresh, Frozen
<1>6. Reviewed'
  BY BossAssumption DEF IInv, Reviewed, Owned, TypeOK, Decide, Final, Ended,
     Holding, Steps, Plans, Phases, Known, Statuses, Dispositions, Captures,
     Acceptable, Operating, Kinds, Fresh, Frozen
<1>7. Progress'
  BY BossAssumption DEF IInv, Progress, Owned, TypeOK, Decide, Captured, Holding,
     Steps, Plans, Phases, Known, Statuses, Ended, Dispositions, Final, Captures,
     Acceptable, Operating, Kinds, Fresh, Frozen
<1>8. Collecting'
  BY BossAssumption DEF IInv, Collecting, Owned, TypeOK, Decide, Waits, Final,
     Holding, Steps, Plans, Phases, Known, Statuses, Ended, Dispositions, Captures,
     Acceptable, Operating, Kinds, Fresh, Frozen
<1>9. ResultBeforeRemoval'
  BY DEF IInv, ResultBeforeRemoval, Decide, Final, Acceptable, Ended, Frozen
<1>10. KeptForRetry'
  BY BossAssumption DEF IInv, KeptForRetry, Collecting, Reviewed, Owned,
     LeaseFollowsOperation, DecisionsAgree, TypeOK, Decide, Ended, Waits, Final,
     Holding, Operating, Steps, Plans, Phases, Known, Statuses, Dispositions,
     Captures, Acceptable, Kinds, Fresh, Frozen, NoPlan, Plan
<1>11. DecisionsAgree'
  BY DEF IInv, DecisionsAgree, Decide, Acceptable, Ended, Frozen
<1>12. AttemptKnown'
  BY DEF IInv, AttemptKnown, Decide, Known, Acceptable, Ended, Frozen
<1> QED BY <1>1, <1>2, <1>3, <1>4, <1>5, <1>6, <1>7, <1>8, <1>9, <1>10, <1>11, <1>12 DEF IInv

LEMMA ReworkInv == ASSUME NEW p \in Procs, IInv, Rework(p) PROVE IInv'
<1>1. TypeOK'
  <2>1. pc' \in [Procs -> Steps]
    BY DEF IInv, TypeOK, Rework, Steps, Plans, Phases, Known, Statuses, Ended,
       Dispositions, Final, Captures, Kinds, Fresh
  <2>2. plan' \in [Procs -> Plans]
    BY NoPlanTyped, PlanTyped DEF IInv, TypeOK, Rework, Steps, Plans, Phases, Known,
       Statuses, Ended, Dispositions, Final, Captures, Kinds, Fresh
  <2>3. /\ attempts' \in Nat /\ pending' \in BOOLEAN /\ Known' <= MaxAttempts
         /\ attempt' \in Nat /\ attempt' <= MaxAttempts
    BY MaxAttemptsAssumption DEF IInv, TypeOK, Rework, Steps, Plans, Phases, Known,
       Statuses, Ended, Dispositions, Final, Captures, Kinds, Fresh
  <2> QED
    BY <2>1, <2>2, <2>3 DEF IInv, TypeOK, Rework, Steps, Plans, Phases, Known,
       Statuses, Ended, Dispositions, Final, Captures, Kinds, Fresh
<1>2. Owned'
  BY BossAssumption DEF IInv, Owned, TypeOK, Rework, Holding, Steps, Plans, Phases,
     Known, Statuses, Ended, Dispositions, Final, Captures, Operating, Kinds, Fresh
<1>3. LeaseFollowsOperation'
  BY DEF IInv, LeaseFollowsOperation, Rework, Operating, Final
<1>4. Reserved'
  BY DEF IInv, Reserved, Rework, Final
<1>5. Executed'
  BY DEF IInv, Executed, Rework, Ended, Final
<1>6. Reviewed'
  BY DEF IInv, Reviewed, Rework, Final, Ended
<1>7. Progress'
  BY DEF IInv, Progress, Rework, Captured, Final
<1>8. Collecting'
  BY DEF IInv, Collecting, Rework, Waits, Final, Ended
<1>9. ResultBeforeRemoval'
  BY DEF IInv, ResultBeforeRemoval, Rework, Final
<1>10. KeptForRetry'
  BY DEF IInv, KeptForRetry, Rework, Ended, Final
<1>11. DecisionsAgree'
  BY BossAssumption DEF IInv, DecisionsAgree, Owned, TypeOK, Rework, Holding, Steps,
     Plans, Phases, Known, Statuses, Ended, Dispositions, Final, Captures,
     Operating, Kinds, Fresh
<1>12. AttemptKnown'
  BY DEF IInv, AttemptKnown, Rework, Known, Final
<1> QED BY <1>1, <1>2, <1>3, <1>4, <1>5, <1>6, <1>7, <1>8, <1>9, <1>10, <1>11, <1>12 DEF IInv

LEMMA AbandonInv == ASSUME NEW p \in Procs, IInv, Abandon(p) PROVE IInv'
<1>1. TypeOK'
  <2>1. pc' \in [Procs -> Steps]
    BY DEF IInv, TypeOK, Abandon, Steps, Plans, Phases, Known, Statuses, Ended,
       Dispositions, Final, Captures, Ready, Lock, Kinds, Fresh, Renewed
  <2>2. plan' \in [Procs -> Plans]
    BY NoPlanTyped, PlanTyped DEF IInv, TypeOK, Owned, Abandon, Steps, Plans,
       Phases, Known, Statuses, Ended, Dispositions, Final, Captures, Holding,
       Ready, Lock, Plan, Kinds, Fresh, Operating, Renewed
  <2>3. /\ attempts' \in Nat /\ pending' \in BOOLEAN /\ Known' <= MaxAttempts
         /\ attempt' \in Nat /\ attempt' <= MaxAttempts
    BY MaxAttemptsAssumption DEF IInv, TypeOK, Abandon, Steps, Plans, Phases, Known,
       Statuses, Ended, Dispositions, Final, Captures, Ready, Lock, Kinds, Fresh,
       Renewed
  <2> QED
    BY BossAssumption, <2>1, <2>2, <2>3 DEF IInv, TypeOK, Executed, Abandon, Steps,
       Plans, Phases, Known, Statuses, Ended, Dispositions, Final, Captures, Ready,
       Lock, Plan, Kinds, Fresh, Renewed
<1>2. Owned'
  BY BossAssumption DEF IInv, Owned, TypeOK, Abandon, Holding, Steps, Plans, Phases,
     Known, Statuses, Ended, Dispositions, Final, Captures, Ready, Lock, Operating,
     Kinds, Fresh, Renewed
<1>3. LeaseFollowsOperation'
  <2>1. owner = None /\ phase \notin Final /\ place = "work" /\ whole
    BY DEF IInv, TypeOK, ResultBeforeRemoval, Abandon, Lock
  <2>2. owner' = p /\ holder' = Boss[p] /\ UNCHANGED <<phase, place, whole>>
    BY DEF Abandon, Lock, Renewed
  <2>3. \A q \in Procs \ {p} : pc'[q] \notin Operating
    BY <2>1, BossAssumption DEF IInv, TypeOK, LeaseFollowsOperation, Abandon
  <2> QED BY <2>1, <2>2, <2>3 DEF LeaseFollowsOperation
<1>4. Reserved'
  BY DEF IInv, Reserved, Abandon, Ready, Lock, Final, Fresh, Renewed
<1>5. Executed'
  BY BossAssumption DEF IInv, Executed, Owned, TypeOK, Abandon, Ended, Holding,
     Steps, Plans, Phases, Known, Statuses, Dispositions, Final, Captures, Ready,
     Lock, Operating, Kinds, Fresh, Renewed
<1>6. Reviewed'
  BY BossAssumption DEF IInv, Reviewed, Owned, Reserved, LeaseFollowsOperation,
     TypeOK, Abandon, Final, Ended, Holding, Operating, Steps, Plans, Phases, Known,
     Statuses, Dispositions, Captures, Ready, Lock, Plan, Kinds, Fresh, Renewed
<1>7. Progress'
  BY DEF IInv, Progress, Abandon, Captured, Ready, Lock, Final, Fresh, Renewed
<1>8. Collecting'
  BY ZenonT(60), BossAssumption DEF IInv, Collecting, Owned, TypeOK, Abandon, Waits, Final,
     Holding, Steps, Plans, Phases, Known, Statuses, Ended, Dispositions, Captures,
     Ready, Lock, Operating, Kinds, Fresh, Renewed
<1>9. ResultBeforeRemoval'
  BY DEF IInv, ResultBeforeRemoval, Abandon, Final, Ready, Lock, Fresh, Renewed
<1>10. KeptForRetry'
  BY DEF IInv, KeptForRetry, Abandon, Ended, Ready, Lock, Final, Fresh, Renewed
<1>11. DecisionsAgree'
  BY DEF IInv, DecisionsAgree, Abandon, Ready, Lock, Final, Fresh, Renewed
<1>12. AttemptKnown'
  BY DEF IInv, AttemptKnown, Abandon, Known, Ready, Lock, Final, Fresh, Renewed
<1> QED BY <1>1, <1>2, <1>3, <1>4, <1>5, <1>6, <1>7, <1>8, <1>9, <1>10, <1>11, <1>12 DEF IInv

LEMMA AbandonRowInv == ASSUME NEW p \in Procs, IInv, AbandonRow(p) PROVE IInv'
<1>1. TypeOK'
  <2>1. pc' \in [Procs -> Steps]
    BY DEF IInv, TypeOK, AbandonRow, Steps, Plans, Phases, Known, Statuses, Ended,
       Dispositions, Final, Captures, Kinds, Fresh
  <2>2. plan' \in [Procs -> Plans]
    BY NoPlanTyped, PlanTyped DEF IInv, TypeOK, AbandonRow, Steps, Plans, Phases,
       Known, Statuses, Ended, Dispositions, Final, Captures, Kinds, Fresh
  <2>3. /\ attempts' \in Nat /\ pending' \in BOOLEAN /\ Known' <= MaxAttempts
         /\ attempt' \in Nat /\ attempt' <= MaxAttempts
    BY MaxAttemptsAssumption DEF IInv, TypeOK, AbandonRow, Steps, Plans, Phases,
       Known, Statuses, Ended, Dispositions, Final, Captures, Kinds, Fresh
  <2> QED
    BY <2>1, <2>2, <2>3 DEF IInv, TypeOK, AbandonRow, Steps, Plans, Phases, Known,
       Statuses, Ended, Dispositions, Final, Captures, Kinds, Fresh
<1>2. Owned'
  BY DEF IInv, Owned, AbandonRow, Holding, Operating
<1>3. LeaseFollowsOperation'
  BY DEF IInv, LeaseFollowsOperation, AbandonRow, Operating, Final
<1>4. Reserved'
  BY DEF IInv, Reserved, AbandonRow
<1>5. Executed'
  BY DEF IInv, Executed, AbandonRow, Ended
<1>6. Reviewed'
  BY DEF IInv, Reviewed, AbandonRow, Final, Ended
<1>7. Progress'
  BY DEF IInv, Progress, AbandonRow, Captured
<1>8. Collecting'
  BY BossAssumption DEF IInv, Collecting, Owned, TypeOK, AbandonRow, Waits, Final,
     Holding, Steps, Plans, Phases, Known, Statuses, Ended, Dispositions, Captures,
     Operating, Kinds, Fresh
<1>9. ResultBeforeRemoval'
  BY DEF IInv, ResultBeforeRemoval, AbandonRow, Final
<1>10. KeptForRetry'
  BY BossAssumption DEF IInv, KeptForRetry, Collecting, Reviewed, Owned,
     LeaseFollowsOperation, DecisionsAgree, TypeOK, AbandonRow, Ended, Waits, Final,
     Holding, Operating, Steps, Plans, Phases, Known, Statuses, Dispositions,
     Captures, Kinds, Fresh
<1>11. DecisionsAgree'
  BY DEF IInv, DecisionsAgree, AbandonRow
<1>12. AttemptKnown'
  BY DEF IInv, AttemptKnown, AbandonRow, Known
<1> QED BY <1>1, <1>2, <1>3, <1>4, <1>5, <1>6, <1>7, <1>8, <1>9, <1>10, <1>11, <1>12 DEF IInv

LEMMA AbandonRecordInv == ASSUME NEW p \in Procs, IInv, AbandonRecord(p) PROVE IInv'
<1>1. TypeOK'
  <2>1. pc' \in [Procs -> Steps]
    BY DEF IInv, TypeOK, AbandonRecord, Steps, Plans, Phases, Known, Statuses,
       Ended, Dispositions, Final, Captures, Kinds, Fresh
  <2>2. plan' \in [Procs -> Plans]
    BY NoPlanTyped, PlanTyped DEF IInv, TypeOK, AbandonRecord, Steps, Plans, Phases,
       Known, Statuses, Ended, Dispositions, Final, Captures, Kinds, Fresh
  <2>3. /\ attempts' \in Nat /\ pending' \in BOOLEAN /\ Known' <= MaxAttempts
         /\ attempt' \in Nat /\ attempt' <= MaxAttempts
    BY MaxAttemptsAssumption DEF IInv, TypeOK, AbandonRecord, Steps, Plans, Phases,
       Known, Statuses, Ended, Dispositions, Final, Captures, Kinds, Fresh
  <2> QED
    BY <2>1, <2>2, <2>3 DEF IInv, TypeOK, AbandonRecord, Steps, Plans, Phases,
       Known, Statuses, Ended, Dispositions, Final, Captures, Kinds, Fresh
<1>2. Owned'
  BY DEF IInv, Owned, AbandonRecord, Holding, Operating
<1>3. LeaseFollowsOperation'
  BY DEF IInv, LeaseFollowsOperation, AbandonRecord, Operating, Final
<1>4. Reserved'
  BY DEF IInv, Reserved, AbandonRecord
<1>5. Executed'
  BY DEF IInv, Executed, AbandonRecord, Ended
<1>6. Reviewed'
  BY DEF IInv, Reviewed, AbandonRecord, Final, Ended
<1>7. Progress'
  BY DEF IInv, Progress, AbandonRecord, Captured
<1>8. Collecting'
  BY DEF IInv, Collecting, AbandonRecord, Waits, Final, Ended
<1>9. ResultBeforeRemoval'
  BY DEF IInv, ResultBeforeRemoval, AbandonRecord, Final
<1>10. KeptForRetry'
  BY DEF IInv, KeptForRetry, AbandonRecord, Ended
<1>11. DecisionsAgree'
  BY DEF IInv, DecisionsAgree, AbandonRecord
<1>12. AttemptKnown'
  BY DEF IInv, AttemptKnown, AbandonRecord, Known
<1> QED BY <1>1, <1>2, <1>3, <1>4, <1>5, <1>6, <1>7, <1>8, <1>9, <1>10, <1>11, <1>12 DEF IInv

LEMMA AbandonLeaseInv == ASSUME NEW p \in Procs, IInv, AbandonLease(p) PROVE IInv'
<1>1. TypeOK'
  <2>1. pc' \in [Procs -> Steps]
    BY DEF IInv, TypeOK, AbandonLease, Steps, Plans, Phases, Known, Statuses, Ended,
       Dispositions, Final, Captures, FinishLease, Kinds, Fresh
  <2>2. plan' \in [Procs -> Plans]
    BY NoPlanTyped, PlanTyped DEF IInv, TypeOK, AbandonLease, Steps, Plans, Phases,
       Known, Statuses, Ended, Dispositions, Final, Captures, FinishLease, Kinds,
       Fresh
  <2>3. /\ attempts' \in Nat /\ pending' \in BOOLEAN /\ Known' <= MaxAttempts
         /\ attempt' \in Nat /\ attempt' <= MaxAttempts
    BY FinishLeaseCounts DEF IInv, TypeOK, AbandonLease
  <2> QED
    BY <2>1, <2>2, <2>3 DEF IInv, TypeOK, AbandonLease, Steps, Plans, Phases, Known,
       Statuses, Ended, Dispositions, Final, Captures, FinishLease, Kinds, Fresh
<1>2. Owned'
  BY DEF IInv, Owned, AbandonLease, Holding, FinishLease, Operating, Final, Known
<1>3. LeaseFollowsOperation'
  BY DEF IInv, LeaseFollowsOperation, AbandonLease, Operating, Final, FinishLease,
     Known
<1>4. Reserved'
  BY BossAssumption DEF IInv, Reserved, Owned, TypeOK, AbandonLease, Holding, Steps,
     Plans, Phases, Known, Statuses, Ended, Dispositions, Final, Captures,
     FinishLease, Operating, Kinds, Fresh
<1>5. Executed'
  BY DEF IInv, Executed, AbandonLease, Ended, FinishLease, Final, Known
<1>6. Reviewed'
  BY BossAssumption DEF IInv, Reviewed, Owned, Reserved, LeaseFollowsOperation,
     TypeOK, AbandonLease, Final, Ended, Holding, Operating, Steps, Plans, Phases,
     Known, Statuses, Dispositions, Captures, FinishLease, Kinds, Fresh
<1>7. Progress'
  BY DEF IInv, Progress, AbandonLease, Captured, FinishLease, Final, Known
<1>8. Collecting'
  BY DEF IInv, Collecting, AbandonLease, Waits, Final, FinishLease, Ended, Known
<1>9. ResultBeforeRemoval'
  BY DEF IInv, ResultBeforeRemoval, AbandonLease, Final, FinishLease, Known
<1>10. KeptForRetry'
  BY DEF IInv, KeptForRetry, AbandonLease, Ended, FinishLease, Final, Known
<1>11. DecisionsAgree'
  BY BossAssumption DEF IInv, DecisionsAgree, Owned, TypeOK, AbandonLease, Holding,
     Steps, Plans, Phases, Known, Statuses, Ended, Dispositions, Final, Captures,
     FinishLease, Operating, Kinds, Fresh
<1>12. AttemptKnown'
  BY DEF IInv, AttemptKnown, AbandonLease, Known, FinishLease, Final
<1> QED BY <1>1, <1>2, <1>3, <1>4, <1>5, <1>6, <1>7, <1>8, <1>9, <1>10, <1>11, <1>12 DEF IInv

LEMMA FinalizeRequestInv == ASSUME NEW p \in Procs, IInv, FinalizeRequest(p) PROVE IInv'
<1>1. TypeOK'
  <2>1. pc' \in [Procs -> Steps]
    BY DEF IInv, TypeOK, FinalizeRequest, Steps, Plans, Phases, Known, Statuses,
       Ended, Dispositions, Final, Captures, Ready, Kinds, Fresh
  <2>2. plan' \in [Procs -> Plans]
    BY NoPlanTyped, PlanTyped DEF IInv, TypeOK, Owned, FinalizeRequest, Steps,
       Plans, Phases, Known, Statuses, Ended, Dispositions, Final, Captures,
       Holding, Ready, Plan, Kinds, Fresh, Operating
  <2>3. /\ attempts' \in Nat /\ pending' \in BOOLEAN /\ Known' <= MaxAttempts
         /\ attempt' \in Nat /\ attempt' <= MaxAttempts
    BY MaxAttemptsAssumption DEF IInv, TypeOK, FinalizeRequest, Steps, Plans,
       Phases, Known, Statuses, Ended, Dispositions, Final, Captures, Ready, Kinds,
       Fresh
  <2> QED
    BY <2>1, <2>2, <2>3 DEF IInv, TypeOK, FinalizeRequest, Steps, Plans, Phases,
       Known, Statuses, Ended, Dispositions, Final, Captures, Ready, Kinds, Fresh
<1>2. Owned'
  BY DEF IInv, Owned, FinalizeRequest, Holding, Ready, Ended, Operating
<1>3. LeaseFollowsOperation'
  BY DEF IInv, LeaseFollowsOperation, FinalizeRequest, Operating, Final, Ready,
     Ended
<1>4. Reserved'
  BY DEF IInv, Reserved, FinalizeRequest, Ready, Ended
<1>5. Executed'
  BY DEF IInv, Executed, FinalizeRequest, Ended, Ready
<1>6. Reviewed'
  <2>1. PICK cancelled \in BOOLEAN :
          /\ cancelled \/ disposition # "needs-rework"
          /\ plan' = [plan EXCEPT ![p] =
                Plan("accept", cancelled \/ disposition = "rejected", disposition)]
    BY DEF FinalizeRequest
  <2>2. /\ pc' = [pc EXCEPT ![p] = "submitted"] /\ disposition \in Dispositions \ {"none"}
        /\ UNCHANGED <<lease, row>>
    BY DEF IInv, TypeOK, FinalizeRequest
  <2>3. /\ plan'[p].kind = "accept" /\ plan'[p].seen # "none"
        /\ ~plan'[p].cancel => plan'[p].seen = "incorporated"
    BY <2>1, <2>2 DEF IInv, TypeOK, Plan, Dispositions
  <2>4. \A q \in Procs \ {p} : pc'[q] = pc[q] /\ plan'[q] = plan[q]
    BY <2>1, <2>2 DEF IInv, TypeOK
  <2>5. pc'[p] = "submitted"
    BY <2>2 DEF IInv, TypeOK
  <2> QED BY <2>2, <2>3, <2>4, <2>5 DEF IInv, Reviewed
<1>7. Progress'
  BY DEF IInv, Progress, FinalizeRequest, Captured, Ready, Ended
<1>8. Collecting'
  BY DEF IInv, Collecting, FinalizeRequest, Waits, Final, Ready, Ended
<1>9. ResultBeforeRemoval'
  BY DEF IInv, ResultBeforeRemoval, FinalizeRequest, Final, Ready, Ended
<1>10. KeptForRetry'
  BY DEF IInv, KeptForRetry, FinalizeRequest, Ended, Ready
<1>11. DecisionsAgree'
  BY DEF IInv, DecisionsAgree, FinalizeRequest, Ready, Ended
<1>12. AttemptKnown'
  BY DEF IInv, AttemptKnown, FinalizeRequest, Known, Ready, Ended
<1> QED BY <1>1, <1>2, <1>3, <1>4, <1>5, <1>6, <1>7, <1>8, <1>9, <1>10, <1>11, <1>12 DEF IInv

LEMMA DiscardInv == ASSUME NEW p \in Procs, IInv, Discard(p) PROVE IInv'
<1>1. TypeOK'
  <2>1. pc' \in [Procs -> Steps]
    BY DEF IInv, TypeOK, Discard, Steps, Plans, Phases, Known, Statuses, Ended,
       Dispositions, Final, Captures, Ready, TakeLocks, Kinds, Fresh
  <2>2. plan' \in [Procs -> Plans]
    BY NoPlanTyped, PlanTyped DEF IInv, TypeOK, Discard, Steps, Plans, Phases,
       Known, Statuses, Ended, Dispositions, Final, Captures, Ready, TakeLocks,
       Kinds, Fresh
  <2>3. /\ attempts' \in Nat /\ pending' \in BOOLEAN /\ Known' <= MaxAttempts
         /\ attempt' \in Nat /\ attempt' <= MaxAttempts
    BY MaxAttemptsAssumption DEF IInv, TypeOK, Discard, Steps, Plans, Phases, Known,
       Statuses, Ended, Dispositions, Final, Captures, Ready, TakeLocks, Kinds,
       Fresh
  <2> QED
    BY <2>1, <2>2, <2>3 DEF IInv, TypeOK, Discard, Steps, Plans, Phases, Known,
       Statuses, Ended, Dispositions, Final, Captures, Ready, TakeLocks, Kinds,
       Fresh
<1>2. Owned'
  BY BossAssumption DEF IInv, Owned, TypeOK, Discard, Holding, Steps, Plans, Phases,
     Known, Statuses, Ended, Dispositions, Final, Captures, Ready, TakeLocks,
     Operating, Kinds, Fresh
<1>3. LeaseFollowsOperation'
  BY BossAssumption DEF IInv, LeaseFollowsOperation, Owned, TypeOK, Discard,
     Operating, Final, Holding, Steps, Plans, Phases, Known, Statuses, Ended,
     Dispositions, Captures, Ready, TakeLocks, Kinds, Fresh
<1>4. Reserved'
  BY DEF IInv, Reserved, Discard, Ready, TakeLocks
<1>5. Executed'
  BY DEF IInv, Executed, Discard, Ended, Ready, TakeLocks
<1>6. Reviewed'
  BY DEF IInv, Reviewed, Discard, Final, Ended, Ready, TakeLocks
<1>7. Progress'
  BY DEF IInv, Progress, Discard, Captured, Ready, TakeLocks
<1>8. Collecting'
  BY BossAssumption DEF IInv, Collecting, Owned, LeaseFollowsOperation, Reviewed,
     TypeOK, Discard, Waits, Final, Holding, Operating, Ended, Steps, Plans, Phases,
     Known, Statuses, Dispositions, Captures, Ready, TakeLocks, Plan, Kinds, Fresh
<1>9. ResultBeforeRemoval'
  BY DEF IInv, ResultBeforeRemoval, Discard, Final, Ready, TakeLocks
<1>10. KeptForRetry'
  BY DEF IInv, KeptForRetry, Discard, Ended, Ready, TakeLocks
<1>11. DecisionsAgree'
  BY DEF IInv, DecisionsAgree, Discard, Ready, TakeLocks
<1>12. AttemptKnown'
  BY DEF IInv, AttemptKnown, Discard, Known, Ready, TakeLocks
<1> QED BY <1>1, <1>2, <1>3, <1>4, <1>5, <1>6, <1>7, <1>8, <1>9, <1>10, <1>11, <1>12 DEF IInv

LEMMA CollectInv == ASSUME NEW p \in Procs, IInv, Collect(p) PROVE IInv'
<1>1. TypeOK'
  <2>1. pc' \in [Procs -> Steps]
    BY DEF IInv, TypeOK, Collect, Steps, Plans, Phases, Known, Statuses, Ended,
       Dispositions, Final, Captures, Ready, Collectable, TakeLocks, Kinds, Fresh,
       PendingAssignment, AwaitsReview
  <2>2. plan' \in [Procs -> Plans]
    BY NoPlanTyped, PlanTyped DEF IInv, TypeOK, Owned, Collect, Steps, Plans,
       Phases, Known, Statuses, Ended, Dispositions, Final, Captures, Holding,
       Ready, Collectable, TakeLocks, Plan, Kinds, Fresh, Operating,
       PendingAssignment, AwaitsReview
  <2>3. /\ attempts' \in Nat /\ pending' \in BOOLEAN /\ Known' <= MaxAttempts
         /\ attempt' \in Nat /\ attempt' <= MaxAttempts
    BY MaxAttemptsAssumption DEF IInv, TypeOK, Collect, Steps, Plans, Phases, Known,
       Statuses, Ended, Dispositions, Final, Captures, Ready, Collectable,
       TakeLocks, Kinds, Fresh, PendingAssignment, AwaitsReview
  <2> QED
    BY BossAssumption, <2>1, <2>2, <2>3 DEF IInv, TypeOK, Executed, Collect, Steps,
       Plans, Phases, Known, Statuses, Ended, Dispositions, Final, Captures, Ready,
       Collectable, TakeLocks, Plan, Kinds, Fresh, PendingAssignment, AwaitsReview
<1>2. Owned'
  BY BossAssumption DEF IInv, Owned, TypeOK, Collect, Holding, Steps, Plans, Phases,
     Known, Statuses, Ended, Dispositions, Final, Captures, Ready, Collectable,
     TakeLocks, Operating, Kinds, Fresh, PendingAssignment, AwaitsReview
<1>3. LeaseFollowsOperation'
  BY BossAssumption DEF IInv, LeaseFollowsOperation, Owned, TypeOK, Collect,
     Operating, Final, Holding, Steps, Plans, Phases, Known, Statuses, Ended,
     Dispositions, Captures, Ready, Collectable, TakeLocks, Kinds, Fresh,
     PendingAssignment, AwaitsReview
<1>4. Reserved'
  BY DEF IInv, Reserved, Collect, Ready, Collectable, TakeLocks, Final,
     PendingAssignment, AwaitsReview, Ended
<1>5. Executed'
  BY BossAssumption DEF IInv, Executed, Owned, TypeOK, Collect, Ended, Holding,
     Steps, Plans, Phases, Known, Statuses, Dispositions, Final, Captures, Ready,
     Collectable, TakeLocks, Operating, Kinds, Fresh, PendingAssignment,
     AwaitsReview
<1>6. Reviewed'
  BY ZenonT(60), BossAssumption DEF IInv, Reviewed, Owned, TypeOK, Collect, Final, Ended,
     Holding, Steps, Plans, Phases, Known, Statuses, Dispositions, Captures, Ready,
     Collectable, TakeLocks, Operating, Kinds, Fresh, PendingAssignment,
     AwaitsReview
<1>7. Progress'
  BY DEF IInv, Progress, Collect, Captured, Ready, Collectable, TakeLocks, Final,
     PendingAssignment, AwaitsReview, Ended
<1>8. Collecting'
  BY DEF IInv, Collecting, Collect, Waits, Final, Ready, Collectable, TakeLocks,
     Ended, PendingAssignment, AwaitsReview
<1>9. ResultBeforeRemoval'
  BY DEF IInv, ResultBeforeRemoval, Collect, Final, Ready, Collectable, TakeLocks,
     PendingAssignment, AwaitsReview, Ended
<1>10. KeptForRetry'
  BY DEF IInv, KeptForRetry, Collect, Ended, Ready, Collectable, TakeLocks, Final,
     PendingAssignment, AwaitsReview
<1>11. DecisionsAgree'
  BY DEF IInv, DecisionsAgree, Collect, Ready, Collectable, TakeLocks, Final,
     PendingAssignment, AwaitsReview, Ended
<1>12. AttemptKnown'
  BY DEF IInv, AttemptKnown, Collect, Known, Ready, Collectable, TakeLocks, Final,
     PendingAssignment, AwaitsReview, Ended
<1> QED BY <1>1, <1>2, <1>3, <1>4, <1>5, <1>6, <1>7, <1>8, <1>9, <1>10, <1>11, <1>12 DEF IInv

LEMMA AttestInv == ASSUME NEW p \in Procs, IInv, Attest(p) PROVE IInv'
<1>1. TypeOK'
  <2>1. pc' \in [Procs -> Steps]
    BY DEF IInv, TypeOK, Attest, Steps, Plans, Phases, Known, Statuses, Ended,
       Dispositions, Final, Captures, TakeLocks, Agrees, Kinds, Fresh, Ending
  <2>2. plan' \in [Procs -> Plans]
    BY NoPlanTyped, PlanTyped DEF IInv, TypeOK, Attest, Steps, Plans, Phases, Known,
       Statuses, Ended, Dispositions, Final, Captures, TakeLocks, Agrees, Kinds,
       Fresh, Ending
  <2>3. /\ attempts' \in Nat /\ pending' \in BOOLEAN /\ Known' <= MaxAttempts
         /\ attempt' \in Nat /\ attempt' <= MaxAttempts
    BY MaxAttemptsAssumption DEF IInv, TypeOK, Attest, Steps, Plans, Phases, Known,
       Statuses, Ended, Dispositions, Final, Captures, TakeLocks, Agrees, Kinds,
       Fresh, Ending
  <2> QED
    BY <2>1, <2>2, <2>3 DEF IInv, TypeOK, Attest, Steps, Plans, Phases, Known,
       Statuses, Ended, Dispositions, Final, Captures, TakeLocks, Agrees, Kinds,
       Fresh, Ending
<1>2. Owned'
  BY BossAssumption DEF IInv, Owned, TypeOK, Attest, Holding, Steps, Plans, Phases,
     Known, Statuses, Ended, Dispositions, Final, Captures, TakeLocks, Agrees,
     Operating, Kinds, Fresh, Ending
<1>3. LeaseFollowsOperation'
  BY BossAssumption DEF IInv, LeaseFollowsOperation, Owned, TypeOK, Attest,
     Operating, Final, Holding, Steps, Plans, Phases, Known, Statuses, Ended,
     Dispositions, Captures, TakeLocks, Agrees, Kinds, Fresh, Ending
<1>4. Reserved'
  BY BossAssumption DEF IInv, Reserved, Owned, TypeOK, Attest, Holding, Steps,
     Plans, Phases, Known, Statuses, Ended, Dispositions, Final, Captures,
     TakeLocks, Agrees, Operating, Kinds, Fresh, Ending
<1>5. Executed'
  BY DEF IInv, Executed, Attest, Ended, TakeLocks, Final, Agrees, Known, Ending
<1>6. Reviewed'
  BY BossAssumption DEF IInv, Reviewed, Owned, TypeOK, Attest, Final, Ended,
     Holding, Steps, Plans, Phases, Known, Statuses, Dispositions, Captures,
     TakeLocks, Agrees, Operating, Kinds, Fresh, Ending
<1>7. Progress'
  BY DEF IInv, Progress, Attest, Captured, TakeLocks, Ended, Final, Agrees, Known,
     Ending
<1>8. Collecting'
  BY BossAssumption DEF IInv, Collecting, Owned, LeaseFollowsOperation, Reviewed,
     TypeOK, Attest, Waits, Final, Holding, Operating, Ended, Steps, Plans, Phases,
     Known, Statuses, Dispositions, Captures, TakeLocks, Agrees, Kinds, Fresh,
     Ending
<1>9. ResultBeforeRemoval'
  BY DEF IInv, ResultBeforeRemoval, Attest, Final, TakeLocks, Ended, Agrees, Known,
     Ending
<1>10. KeptForRetry'
  BY DEF IInv, KeptForRetry, Attest, Ended, TakeLocks, Final, Agrees, Known, Ending
<1>11. DecisionsAgree'
  BY DEF IInv, DecisionsAgree, Attest, TakeLocks, Ended, Final, Agrees, Known,
     Ending
<1>12. AttemptKnown'
  BY DEF IInv, AttemptKnown, Attest, Known, TakeLocks, Ended, Final, Agrees, Ending
<1> QED BY <1>1, <1>2, <1>3, <1>4, <1>5, <1>6, <1>7, <1>8, <1>9, <1>10, <1>11, <1>12 DEF IInv

LEMMA AlreadyCleanedInv == ASSUME NEW p \in Procs, IInv, AlreadyCleaned(p) PROVE IInv'
<1>1. TypeOK'
  <2>1. pc' \in [Procs -> Steps]
    BY DEF IInv, TypeOK, AlreadyCleaned, Steps, Plans, Phases, Known, Statuses,
       Ended, Dispositions, Final, Captures, Proceed, Kinds, Fresh
  <2>2. plan' \in [Procs -> Plans]
    BY NoPlanTyped, PlanTyped DEF IInv, TypeOK, AlreadyCleaned, Steps, Plans,
       Phases, Known, Statuses, Ended, Dispositions, Final, Captures, Proceed,
       Kinds, Fresh
  <2>3. /\ attempts' \in Nat /\ pending' \in BOOLEAN /\ Known' <= MaxAttempts
         /\ attempt' \in Nat /\ attempt' <= MaxAttempts
    BY MaxAttemptsAssumption DEF IInv, TypeOK, AlreadyCleaned, Steps, Plans, Phases,
       Known, Statuses, Ended, Dispositions, Final, Captures, Proceed, Kinds, Fresh
  <2> QED
    BY <2>1, <2>2, <2>3 DEF IInv, TypeOK, AlreadyCleaned, Steps, Plans, Phases,
       Known, Statuses, Ended, Dispositions, Final, Captures, Proceed, Kinds, Fresh
<1>2. Owned'
  BY BossAssumption DEF IInv, Owned, TypeOK, AlreadyCleaned, Holding, Steps, Plans,
     Phases, Known, Statuses, Ended, Dispositions, Final, Captures, Proceed,
     Operating, Kinds, Fresh
<1>3. LeaseFollowsOperation'
  BY BossAssumption DEF IInv, LeaseFollowsOperation, Owned, TypeOK, AlreadyCleaned,
     Operating, Final, Holding, Steps, Plans, Phases, Known, Statuses, Ended,
     Dispositions, Captures, Proceed, Kinds, Fresh
<1>4. Reserved'
  BY BossAssumption DEF IInv, Reserved, Owned, TypeOK, AlreadyCleaned, Holding,
     Steps, Plans, Phases, Known, Statuses, Ended, Dispositions, Final, Captures,
     Proceed, Operating, Kinds, Fresh
<1>5. Executed'
  BY BossAssumption DEF IInv, Executed, Owned, TypeOK, AlreadyCleaned, Ended,
     Holding, Steps, Plans, Phases, Known, Statuses, Dispositions, Final, Captures,
     Proceed, Operating, Kinds, Fresh
<1>6. Reviewed'
  BY SMTT(60), BossAssumption DEF IInv, Reviewed, Owned, TypeOK, AlreadyCleaned, Final, Ended,
     Holding, Steps, Plans, Phases, Known, Statuses, Dispositions, Captures,
     Proceed, Operating, Kinds, Fresh
<1>7. Progress'
  BY BossAssumption DEF IInv, Progress, Owned, TypeOK, AlreadyCleaned, Captured,
     Holding, Steps, Plans, Phases, Known, Statuses, Ended, Dispositions, Final,
     Captures, Proceed, Operating, Kinds, Fresh
<1>8. Collecting'
  BY BossAssumption DEF IInv, Collecting, Owned, TypeOK, AlreadyCleaned, Waits,
     Final, Holding, Steps, Plans, Phases, Known, Statuses, Ended, Dispositions,
     Captures, Proceed, Operating, Kinds, Fresh
<1>9. ResultBeforeRemoval'
  BY DEF IInv, ResultBeforeRemoval, AlreadyCleaned, Final, Proceed
<1>10. KeptForRetry'
  BY DEF IInv, KeptForRetry, AlreadyCleaned, Ended, Proceed
<1>11. DecisionsAgree'
  BY DEF IInv, DecisionsAgree, AlreadyCleaned, Proceed
<1>12. AttemptKnown'
  BY DEF IInv, AttemptKnown, AlreadyCleaned, Known, Proceed
<1> QED BY <1>1, <1>2, <1>3, <1>4, <1>5, <1>6, <1>7, <1>8, <1>9, <1>10, <1>11, <1>12 DEF IInv

LEMMA CaptureInv == ASSUME NEW p \in Procs, IInv, Capture(p) PROVE IInv'
<1>1. TypeOK'
  <2>1. pc' \in [Procs -> Steps]
    BY DEF IInv, TypeOK, Capture, Steps, Plans, Phases, Known, Statuses, Ended,
       Dispositions, Final, Captures, Kinds, Fresh
  <2>2. plan' \in [Procs -> Plans]
    BY NoPlanTyped, PlanTyped DEF IInv, TypeOK, Capture, Steps, Plans, Phases,
       Known, Statuses, Ended, Dispositions, Final, Captures, Kinds, Fresh
  <2>3. /\ attempts' \in Nat /\ pending' \in BOOLEAN /\ Known' <= MaxAttempts
         /\ attempt' \in Nat /\ attempt' <= MaxAttempts
    BY MaxAttemptsAssumption DEF IInv, TypeOK, Capture, Steps, Plans, Phases, Known,
       Statuses, Ended, Dispositions, Final, Captures, Kinds, Fresh
  <2> QED
    BY <2>1, <2>2, <2>3 DEF IInv, TypeOK, Capture, Steps, Plans, Phases, Known,
       Statuses, Ended, Dispositions, Final, Captures, Kinds, Fresh
<1>2. Owned'
  BY DEF IInv, Owned, Capture, Holding, Operating
<1>3. LeaseFollowsOperation'
  BY DEF IInv, LeaseFollowsOperation, Capture, Operating, Final
<1>4. Reserved'
  BY DEF IInv, Reserved, Capture
<1>5. Executed'
  BY DEF IInv, Executed, Capture, Ended
<1>6. Reviewed'
  BY DEF IInv, Reviewed, Capture, Final, Ended
<1>7. Progress'
  BY DEF IInv, Progress, Capture, Captured
<1>8. Collecting'
  BY DEF IInv, Collecting, Capture, Waits, Final, Ended
<1>9. ResultBeforeRemoval'
  BY DEF IInv, ResultBeforeRemoval, Capture, Final
<1>10. KeptForRetry'
  BY DEF IInv, KeptForRetry, Capture, Ended
<1>11. DecisionsAgree'
  BY DEF IInv, DecisionsAgree, Capture
<1>12. AttemptKnown'
  BY DEF IInv, AttemptKnown, Capture, Known
<1> QED BY <1>1, <1>2, <1>3, <1>4, <1>5, <1>6, <1>7, <1>8, <1>9, <1>10, <1>11, <1>12 DEF IInv

LEMMA DescribeInv == ASSUME NEW p \in Procs, IInv, Describe(p) PROVE IInv'
<1>1. TypeOK'
  <2>1. pc' \in [Procs -> Steps]
    BY DEF IInv, TypeOK, Describe, Steps, Plans, Phases, Known, Statuses, Ended,
       Dispositions, Final, Captures, Kinds, Fresh
  <2>2. plan' \in [Procs -> Plans]
    BY NoPlanTyped, PlanTyped DEF IInv, TypeOK, Describe, Steps, Plans, Phases,
       Known, Statuses, Ended, Dispositions, Final, Captures, Kinds, Fresh
  <2>3. /\ attempts' \in Nat /\ pending' \in BOOLEAN /\ Known' <= MaxAttempts
         /\ attempt' \in Nat /\ attempt' <= MaxAttempts
    BY MaxAttemptsAssumption DEF IInv, TypeOK, Describe, Steps, Plans, Phases,
       Known, Statuses, Ended, Dispositions, Final, Captures, Kinds, Fresh
  <2> QED
    BY <2>1, <2>2, <2>3 DEF IInv, TypeOK, Describe, Steps, Plans, Phases, Known,
       Statuses, Ended, Dispositions, Final, Captures, Kinds, Fresh
<1>2. Owned'
  BY DEF IInv, Owned, Describe, Holding, Operating
<1>3. LeaseFollowsOperation'
  BY DEF IInv, LeaseFollowsOperation, Describe, Operating, Final
<1>4. Reserved'
  BY DEF IInv, Reserved, Describe
<1>5. Executed'
  BY DEF IInv, Executed, Describe, Ended
<1>6. Reviewed'
  BY DEF IInv, Reviewed, Describe, Final, Ended
<1>7. Progress'
  BY DEF IInv, Progress, Describe, Captured
<1>8. Collecting'
  BY DEF IInv, Collecting, Describe, Waits, Final, Ended
<1>9. ResultBeforeRemoval'
  BY BossAssumption DEF IInv, ResultBeforeRemoval, Progress, Owned,
     LeaseFollowsOperation, Collecting, TypeOK, Describe, Final, Captured, Holding,
     Operating, Waits, Steps, Plans, Phases, Known, Statuses, Ended, Dispositions,
     Captures, Kinds, Fresh
<1>10. KeptForRetry'
  BY DEF IInv, KeptForRetry, Describe, Ended
<1>11. DecisionsAgree'
  BY BossAssumption DEF IInv, DecisionsAgree, Reviewed, Reserved, Progress, Owned,
     LeaseFollowsOperation, ResultBeforeRemoval, Collecting, TypeOK, Describe,
     Final, Ended, Captured, Holding, Operating, Waits, Steps, Plans, Phases, Known,
     Statuses, Dispositions, Captures, Kinds, Fresh
<1>12. AttemptKnown'
  BY DEF IInv, AttemptKnown, Describe, Known
<1> QED BY <1>1, <1>2, <1>3, <1>4, <1>5, <1>6, <1>7, <1>8, <1>9, <1>10, <1>11, <1>12 DEF IInv

LEMMA CloseLeaseInv == ASSUME NEW p \in Procs, IInv, CloseLease(p) PROVE IInv'
<1>1. TypeOK'
  <2>1. pc' \in [Procs -> Steps]
    BY DEF IInv, TypeOK, CloseLease, Steps, Plans, Phases, Known, Statuses, Ended,
       Dispositions, Final, Captures, Ending, Kinds, Fresh
  <2>2. plan' \in [Procs -> Plans]
    BY NoPlanTyped, PlanTyped DEF IInv, TypeOK, CloseLease, Steps, Plans, Phases,
       Known, Statuses, Ended, Dispositions, Final, Captures, Ending, Kinds, Fresh
  <2>3. /\ attempts' \in Nat /\ pending' \in BOOLEAN /\ Known' <= MaxAttempts
         /\ attempt' \in Nat /\ attempt' <= MaxAttempts
    BY MaxAttemptsAssumption DEF IInv, TypeOK, CloseLease, Steps, Plans, Phases,
       Known, Statuses, Ended, Dispositions, Final, Captures, Ending, Kinds, Fresh
  <2> QED
    BY <2>1, <2>2, <2>3 DEF IInv, TypeOK, CloseLease, Steps, Plans, Phases, Known,
       Statuses, Ended, Dispositions, Final, Captures, Ending, Kinds, Fresh
<1>2. Owned'
  BY DEF IInv, Owned, CloseLease, Holding, Final, Ending, Operating
<1>3. LeaseFollowsOperation'
  BY BossAssumption DEF IInv, LeaseFollowsOperation, Owned, TypeOK, CloseLease,
     Operating, Final, Holding, Steps, Plans, Phases, Known, Statuses, Ended,
     Dispositions, Captures, Ending, Kinds, Fresh
<1>4. Reserved'
  BY DEF IInv, Reserved, CloseLease, Final, Ending
<1>5. Executed'
  BY DEF IInv, Executed, CloseLease, Ended, Final, Ending
<1>6. Reviewed'
  BY BossAssumption DEF IInv, Reviewed, Owned, TypeOK, CloseLease, Final, Ended,
     Holding, Steps, Plans, Phases, Known, Statuses, Dispositions, Captures, Ending,
     Operating, Kinds, Fresh
<1>7. Progress'
  BY DEF IInv, Progress, CloseLease, Captured, Final, Ending
<1>8. Collecting'
  BY DEF IInv, Collecting, CloseLease, Waits, Final, Ending, Ended
<1>9. ResultBeforeRemoval'
  BY BossAssumption DEF IInv, ResultBeforeRemoval, Progress, Owned,
     LeaseFollowsOperation, Collecting, TypeOK, CloseLease, Final, Captured,
     Holding, Operating, Waits, Steps, Plans, Phases, Known, Statuses, Ended,
     Dispositions, Captures, Ending, Kinds, Fresh
<1>10. KeptForRetry'
  BY BossAssumption DEF IInv, KeptForRetry, Collecting, Reviewed, Owned,
     LeaseFollowsOperation, DecisionsAgree, TypeOK, CloseLease, Ended, Waits, Final,
     Holding, Operating, Steps, Plans, Phases, Known, Statuses, Dispositions,
     Captures, Ending, Kinds, Fresh
<1>11. DecisionsAgree'
  BY BossAssumption DEF IInv, DecisionsAgree, Reviewed, Reserved, Progress, Owned,
     LeaseFollowsOperation, ResultBeforeRemoval, Collecting, TypeOK, CloseLease,
     Final, Ended, Captured, Holding, Operating, Waits, Steps, Plans, Phases, Known,
     Statuses, Dispositions, Captures, Ending, Kinds, Fresh
<1>12. AttemptKnown'
  BY DEF IInv, AttemptKnown, CloseLease, Known, Final, Ending
<1> QED BY <1>1, <1>2, <1>3, <1>4, <1>5, <1>6, <1>7, <1>8, <1>9, <1>10, <1>11, <1>12 DEF IInv

LEMMA QuarantineInv == ASSUME NEW p \in Procs, IInv, Quarantine(p) PROVE IInv'
<1>1. TypeOK'
  <2>1. pc' \in [Procs -> Steps]
    BY DEF IInv, TypeOK, Quarantine, Steps, Plans, Phases, Known, Statuses, Ended,
       Dispositions, Final, Captures, Kinds, Fresh
  <2>2. plan' \in [Procs -> Plans]
    BY NoPlanTyped, PlanTyped DEF IInv, TypeOK, Quarantine, Steps, Plans, Phases,
       Known, Statuses, Ended, Dispositions, Final, Captures, Kinds, Fresh
  <2>3. /\ attempts' \in Nat /\ pending' \in BOOLEAN /\ Known' <= MaxAttempts
         /\ attempt' \in Nat /\ attempt' <= MaxAttempts
    BY MaxAttemptsAssumption DEF IInv, TypeOK, Quarantine, Steps, Plans, Phases,
       Known, Statuses, Ended, Dispositions, Final, Captures, Kinds, Fresh
  <2> QED
    BY <2>1, <2>2, <2>3 DEF IInv, TypeOK, Quarantine, Steps, Plans, Phases, Known,
       Statuses, Ended, Dispositions, Final, Captures, Kinds, Fresh
<1>2. Owned'
  BY DEF IInv, Owned, Quarantine, Holding, Operating
<1>3. LeaseFollowsOperation'
  BY BossAssumption DEF IInv, LeaseFollowsOperation, Owned, TypeOK, Quarantine,
     Operating, Final, Holding, Steps, Plans, Phases, Known, Statuses, Ended,
     Dispositions, Captures, Kinds, Fresh
<1>4. Reserved'
  BY DEF IInv, Reserved, Quarantine
<1>5. Executed'
  BY DEF IInv, Executed, Quarantine, Ended
<1>6. Reviewed'
  BY DEF IInv, Reviewed, Quarantine, Final, Ended
<1>7. Progress'
  BY BossAssumption DEF IInv, Progress, Owned, TypeOK, Quarantine, Captured,
     Holding, Steps, Plans, Phases, Known, Statuses, Ended, Dispositions, Final,
     Captures, Operating, Kinds, Fresh
<1>8. Collecting'
  BY DEF IInv, Collecting, Quarantine, Waits, Final, Ended
<1>9. ResultBeforeRemoval'
  BY BossAssumption DEF IInv, ResultBeforeRemoval, Progress, Owned,
     LeaseFollowsOperation, Collecting, TypeOK, Quarantine, Final, Captured,
     Holding, Operating, Waits, Steps, Plans, Phases, Known, Statuses, Ended,
     Dispositions, Captures, Kinds, Fresh
<1>10. KeptForRetry'
  BY DEF IInv, KeptForRetry, Quarantine, Ended
<1>11. DecisionsAgree'
  BY BossAssumption DEF IInv, DecisionsAgree, Reviewed, Reserved, Progress, Owned,
     LeaseFollowsOperation, ResultBeforeRemoval, Collecting, TypeOK, Quarantine,
     Final, Ended, Captured, Holding, Operating, Waits, Steps, Plans, Phases, Known,
     Statuses, Dispositions, Captures, Kinds, Fresh
<1>12. AttemptKnown'
  BY DEF IInv, AttemptKnown, Quarantine, Known
<1> QED BY <1>1, <1>2, <1>3, <1>4, <1>5, <1>6, <1>7, <1>8, <1>9, <1>10, <1>11, <1>12 DEF IInv

LEMMA ResumeCleanupInv == ASSUME NEW p \in Procs, IInv, ResumeCleanup(p) PROVE IInv'
<1>1. TypeOK'
  <2>1. pc' \in [Procs -> Steps]
    BY DEF IInv, TypeOK, ResumeCleanup, Steps, Plans, Phases, Known, Statuses,
       Ended, Dispositions, Final, Captures, Kinds, Fresh
  <2>2. plan' \in [Procs -> Plans]
    BY NoPlanTyped, PlanTyped DEF IInv, TypeOK, ResumeCleanup, Steps, Plans, Phases,
       Known, Statuses, Ended, Dispositions, Final, Captures, Kinds, Fresh
  <2>3. /\ attempts' \in Nat /\ pending' \in BOOLEAN /\ Known' <= MaxAttempts
         /\ attempt' \in Nat /\ attempt' <= MaxAttempts
    BY MaxAttemptsAssumption DEF IInv, TypeOK, ResumeCleanup, Steps, Plans, Phases,
       Known, Statuses, Ended, Dispositions, Final, Captures, Kinds, Fresh
  <2> QED
    BY <2>1, <2>2, <2>3 DEF IInv, TypeOK, ResumeCleanup, Steps, Plans, Phases,
       Known, Statuses, Ended, Dispositions, Final, Captures, Kinds, Fresh
<1>2. Owned'
  BY DEF IInv, Owned, ResumeCleanup, Holding, Operating
<1>3. LeaseFollowsOperation'
  BY DEF IInv, LeaseFollowsOperation, ResumeCleanup, Operating, Final
<1>4. Reserved'
  BY DEF IInv, Reserved, ResumeCleanup
<1>5. Executed'
  BY DEF IInv, Executed, ResumeCleanup, Ended
<1>6. Reviewed'
  BY DEF IInv, Reviewed, ResumeCleanup, Final, Ended
<1>7. Progress'
  BY DEF IInv, Progress, ResumeCleanup, Captured
<1>8. Collecting'
  BY DEF IInv, Collecting, ResumeCleanup, Waits, Final, Ended
<1>9. ResultBeforeRemoval'
  BY DEF IInv, ResultBeforeRemoval, ResumeCleanup, Final
<1>10. KeptForRetry'
  BY DEF IInv, KeptForRetry, ResumeCleanup, Ended
<1>11. DecisionsAgree'
  BY DEF IInv, DecisionsAgree, ResumeCleanup
<1>12. AttemptKnown'
  BY DEF IInv, AttemptKnown, ResumeCleanup, Known
<1> QED BY <1>1, <1>2, <1>3, <1>4, <1>5, <1>6, <1>7, <1>8, <1>9, <1>10, <1>11, <1>12 DEF IInv

LEMMA RestoreInv == ASSUME NEW p \in Procs, IInv, Restore(p) PROVE IInv'
<1>1. TypeOK'
  <2>1. pc' \in [Procs -> Steps]
    BY DEF IInv, TypeOK, Restore, Steps, Plans, Phases, Known, Statuses, Ended,
       Dispositions, Final, Captures, Kinds, Fresh
  <2>2. plan' \in [Procs -> Plans]
    BY NoPlanTyped, PlanTyped DEF IInv, TypeOK, Restore, Steps, Plans, Phases,
       Known, Statuses, Ended, Dispositions, Final, Captures, Kinds, Fresh
  <2>3. /\ attempts' \in Nat /\ pending' \in BOOLEAN /\ Known' <= MaxAttempts
         /\ attempt' \in Nat /\ attempt' <= MaxAttempts
    BY MaxAttemptsAssumption DEF IInv, TypeOK, Restore, Steps, Plans, Phases, Known,
       Statuses, Ended, Dispositions, Final, Captures, Kinds, Fresh
  <2> QED
    BY <2>1, <2>2, <2>3 DEF IInv, TypeOK, Restore, Steps, Plans, Phases, Known,
       Statuses, Ended, Dispositions, Final, Captures, Kinds, Fresh
<1>2. Owned'
  BY BossAssumption DEF IInv, Owned, TypeOK, Restore, Holding, Steps, Plans, Phases,
     Known, Statuses, Ended, Dispositions, Final, Captures, Operating, Kinds, Fresh
<1>3. LeaseFollowsOperation'
  BY DEF IInv, LeaseFollowsOperation, Restore, Operating, Final
<1>4. Reserved'
  BY DEF IInv, Reserved, Restore
<1>5. Executed'
  BY DEF IInv, Executed, Restore, Ended
<1>6. Reviewed'
  BY DEF IInv, Reviewed, Restore, Final, Ended
<1>7. Progress'
  BY BossAssumption DEF IInv, Progress, Owned, TypeOK, Restore, Captured, Holding,
     Steps, Plans, Phases, Known, Statuses, Ended, Dispositions, Final, Captures,
     Operating, Kinds, Fresh
<1>8. Collecting'
  BY DEF IInv, Collecting, Restore, Waits, Final, Ended
<1>9. ResultBeforeRemoval'
  BY DEF IInv, ResultBeforeRemoval, Restore, Final
<1>10. KeptForRetry'
  BY DEF IInv, KeptForRetry, Restore, Ended
<1>11. DecisionsAgree'
  BY DEF IInv, DecisionsAgree, Restore
<1>12. AttemptKnown'
  BY DEF IInv, AttemptKnown, Restore, Known
<1> QED BY <1>1, <1>2, <1>3, <1>4, <1>5, <1>6, <1>7, <1>8, <1>9, <1>10, <1>11, <1>12 DEF IInv

LEMMA RemoveSomeInv == ASSUME NEW p \in Procs, IInv, RemoveSome(p) PROVE IInv'
<1>1. TypeOK'
  <2>1. pc' \in [Procs -> Steps] /\ UNCHANGED plan
    BY DEF IInv, TypeOK, RemoveSome, Steps
  <2>2. whole' \in BOOLEAN /\ Known' = Known
    BY DEF RemoveSome, Known
  <2> QED BY <2>1, <2>2 DEF IInv, TypeOK, RemoveSome
<1>2. Owned'
  BY DEF IInv, Owned, RemoveSome, Holding, Operating
<1>3. LeaseFollowsOperation'
  BY DEF IInv, LeaseFollowsOperation, RemoveSome, Operating, Final
<1>4. Reserved'
  BY DEF IInv, Reserved, RemoveSome
<1>5. Executed'
  BY DEF IInv, Executed, RemoveSome, Ended
<1>6. Reviewed'
  BY DEF IInv, Reviewed, RemoveSome, Final, Ended
<1>7. Progress'
  BY DEF IInv, Progress, RemoveSome, Captured
<1>8. Collecting'
  BY DEF IInv, Collecting, RemoveSome, Waits, Final, Ended
<1>9. ResultBeforeRemoval'
  BY DEF IInv, ResultBeforeRemoval, RemoveSome, Final
<1>10. KeptForRetry'
  BY DEF IInv, KeptForRetry, RemoveSome, Ended
<1>11. DecisionsAgree'
  BY DEF IInv, DecisionsAgree, RemoveSome
<1>12. AttemptKnown'
  BY DEF IInv, AttemptKnown, RemoveSome, Known
<1> QED BY <1>1, <1>2, <1>3, <1>4, <1>5, <1>6, <1>7, <1>8, <1>9, <1>10, <1>11, <1>12 DEF IInv

LEMMA RemoveRestInv == ASSUME NEW p \in Procs, IInv, RemoveRest(p) PROVE IInv'
<1>1. TypeOK'
  <2>1. pc' \in [Procs -> Steps]
    BY DEF IInv, TypeOK, RemoveRest, Steps, Plans, Phases, Known, Statuses, Ended,
       Dispositions, Final, Captures, Kinds, Fresh
  <2>2. plan' \in [Procs -> Plans]
    BY NoPlanTyped, PlanTyped DEF IInv, TypeOK, RemoveRest, Steps, Plans, Phases,
       Known, Statuses, Ended, Dispositions, Final, Captures, Kinds, Fresh
  <2>3. /\ attempts' \in Nat /\ pending' \in BOOLEAN /\ Known' <= MaxAttempts
         /\ attempt' \in Nat /\ attempt' <= MaxAttempts
    BY MaxAttemptsAssumption DEF IInv, TypeOK, RemoveRest, Steps, Plans, Phases,
       Known, Statuses, Ended, Dispositions, Final, Captures, Kinds, Fresh
  <2> QED
    BY <2>1, <2>2, <2>3 DEF IInv, TypeOK, RemoveRest, Steps, Plans, Phases, Known,
       Statuses, Ended, Dispositions, Final, Captures, Kinds, Fresh
<1>2. Owned'
  BY DEF IInv, Owned, RemoveRest, Holding, Operating
<1>3. LeaseFollowsOperation'
  BY BossAssumption DEF IInv, LeaseFollowsOperation, Owned, TypeOK, RemoveRest,
     Operating, Final, Holding, Steps, Plans, Phases, Known, Statuses, Ended,
     Dispositions, Captures, Kinds, Fresh
<1>4. Reserved'
  BY DEF IInv, Reserved, RemoveRest
<1>5. Executed'
  BY DEF IInv, Executed, RemoveRest, Ended
<1>6. Reviewed'
  BY DEF IInv, Reviewed, RemoveRest, Final, Ended
<1>7. Progress'
  BY BossAssumption DEF IInv, Progress, Owned, TypeOK, RemoveRest, Captured,
     Holding, Steps, Plans, Phases, Known, Statuses, Ended, Dispositions, Final,
     Captures, Operating, Kinds, Fresh
<1>8. Collecting'
  BY DEF IInv, Collecting, RemoveRest, Waits, Final, Ended
<1>9. ResultBeforeRemoval'
  BY BossAssumption DEF IInv, ResultBeforeRemoval, Progress, Owned,
     LeaseFollowsOperation, Collecting, TypeOK, RemoveRest, Final, Captured,
     Holding, Operating, Waits, Steps, Plans, Phases, Known, Statuses, Ended,
     Dispositions, Captures, Kinds, Fresh
<1>10. KeptForRetry'
  BY DEF IInv, KeptForRetry, RemoveRest, Ended
<1>11. DecisionsAgree'
  BY DEF IInv, DecisionsAgree, RemoveRest
<1>12. AttemptKnown'
  BY DEF IInv, AttemptKnown, RemoveRest, Known
<1> QED BY <1>1, <1>2, <1>3, <1>4, <1>5, <1>6, <1>7, <1>8, <1>9, <1>10, <1>11, <1>12 DEF IInv

LEMMA RecordCleanedInv == ASSUME NEW p \in Procs, IInv, RecordCleaned(p) PROVE IInv'
<1>1. TypeOK'
  <2>1. pc' \in [Procs -> Steps]
    BY DEF IInv, TypeOK, RecordCleaned, Steps, Plans, Phases, Known, Statuses,
       Ended, Dispositions, Final, Captures, Proceed, Kinds, Fresh
  <2>2. plan' \in [Procs -> Plans]
    BY NoPlanTyped, PlanTyped DEF IInv, TypeOK, RecordCleaned, Steps, Plans, Phases,
       Known, Statuses, Ended, Dispositions, Final, Captures, Proceed, Kinds, Fresh
  <2>3. /\ attempts' \in Nat /\ pending' \in BOOLEAN /\ Known' <= MaxAttempts
         /\ attempt' \in Nat /\ attempt' <= MaxAttempts
    BY MaxAttemptsAssumption DEF IInv, TypeOK, RecordCleaned, Steps, Plans, Phases,
       Known, Statuses, Ended, Dispositions, Final, Captures, Proceed, Kinds, Fresh
  <2> QED
    BY <2>1, <2>2, <2>3 DEF IInv, TypeOK, RecordCleaned, Steps, Plans, Phases,
       Known, Statuses, Ended, Dispositions, Final, Captures, Proceed, Kinds, Fresh
<1>2. Owned'
  BY BossAssumption DEF IInv, Owned, TypeOK, RecordCleaned, Holding, Steps, Plans,
     Phases, Known, Statuses, Ended, Dispositions, Final, Captures, Proceed,
     Operating, Kinds, Fresh
<1>3. LeaseFollowsOperation'
  BY BossAssumption DEF IInv, LeaseFollowsOperation, Owned, TypeOK, RecordCleaned,
     Operating, Final, Holding, Steps, Plans, Phases, Known, Statuses, Ended,
     Dispositions, Captures, Proceed, Kinds, Fresh
<1>4. Reserved'
  BY BossAssumption DEF IInv, Reserved, Owned, TypeOK, RecordCleaned, Holding,
     Steps, Plans, Phases, Known, Statuses, Ended, Dispositions, Final, Captures,
     Proceed, Operating, Kinds, Fresh
<1>5. Executed'
  BY BossAssumption DEF IInv, Executed, Owned, TypeOK, RecordCleaned, Ended,
     Holding, Steps, Plans, Phases, Known, Statuses, Dispositions, Final, Captures,
     Proceed, Operating, Kinds, Fresh
<1>6. Reviewed'
  BY SMTT(60), BossAssumption DEF IInv, Reviewed, Owned, TypeOK, RecordCleaned, Final, Ended,
     Holding, Steps, Plans, Phases, Known, Statuses, Dispositions, Captures,
     Proceed, Operating, Kinds, Fresh
<1>7. Progress'
  BY BossAssumption DEF IInv, Progress, Owned, TypeOK, RecordCleaned, Captured,
     Holding, Steps, Plans, Phases, Known, Statuses, Ended, Dispositions, Final,
     Captures, Proceed, Operating, Kinds, Fresh
<1>8. Collecting'
  <2>1. phase \in Final /\ UNCHANGED <<phase, reason, pending, row>>
    BY DEF IInv, Progress, Collecting, RecordCleaned
  <2>2. pc'[p] \in {"idle", "publishing"} /\ \A q \in Procs \ {p} : pc'[q] = pc[q] /\ plan'[q] = plan[q]
    BY DEF IInv, TypeOK, RecordCleaned, Proceed
  <2>3. UNCHANGED Waits
    BY <2>1 DEF Waits, Ended
  <2> QED BY <2>1, <2>2, <2>3 DEF IInv, Collecting
<1>9. ResultBeforeRemoval'
  BY DEF IInv, ResultBeforeRemoval, RecordCleaned, Final, Proceed
<1>10. KeptForRetry'
  BY DEF IInv, KeptForRetry, RecordCleaned, Ended, Proceed
<1>11. DecisionsAgree'
  BY DEF IInv, DecisionsAgree, RecordCleaned, Proceed
<1>12. AttemptKnown'
  BY DEF IInv, AttemptKnown, RecordCleaned, Known, Proceed
<1> QED BY <1>1, <1>2, <1>3, <1>4, <1>5, <1>6, <1>7, <1>8, <1>9, <1>10, <1>11, <1>12 DEF IInv

LEMMA PublishInv == ASSUME NEW p \in Procs, IInv, Publish(p) PROVE IInv'
<1>1. TypeOK'
  <2>1. pc' \in [Procs -> Steps]
    BY DEF IInv, TypeOK, Publish, Steps, Plans, Phases, Known, Statuses, Ended,
       Dispositions, Final, Captures, Kinds, Fresh
  <2>2. plan' \in [Procs -> Plans]
    BY NoPlanTyped, PlanTyped DEF IInv, TypeOK, Publish, Steps, Plans, Phases,
       Known, Statuses, Ended, Dispositions, Final, Captures, Kinds, Fresh
  <2>3. /\ attempts' \in Nat /\ pending' \in BOOLEAN /\ Known' <= MaxAttempts
         /\ attempt' \in Nat /\ attempt' <= MaxAttempts
    BY MaxAttemptsAssumption DEF IInv, TypeOK, Publish, Steps, Plans, Phases, Known,
       Statuses, Ended, Dispositions, Final, Captures, Kinds, Fresh
  <2> QED
    BY <2>1, <2>2, <2>3 DEF IInv, TypeOK, Publish, Steps, Plans, Phases, Known,
       Statuses, Ended, Dispositions, Final, Captures, Kinds, Fresh
<1>2. Owned'
  BY DEF IInv, Owned, Publish, Holding, Final, Operating
<1>3. LeaseFollowsOperation'
  BY DEF IInv, LeaseFollowsOperation, Publish, Operating, Final
<1>4. Reserved'
  BY DEF IInv, Reserved, Publish, Final
<1>5. Executed'
  BY DEF IInv, Executed, Publish, Ended, Final
<1>6. Reviewed'
  BY DEF IInv, Reviewed, Publish, Final, Ended
<1>7. Progress'
  BY DEF IInv, Progress, Publish, Captured, Final
<1>8. Collecting'
  BY DEF IInv, Collecting, Publish, Waits, Final, Ended
<1>9. ResultBeforeRemoval'
  BY DEF IInv, ResultBeforeRemoval, Publish, Final
<1>10. KeptForRetry'
  BY DEF IInv, KeptForRetry, Publish, Ended, Final
<1>11. DecisionsAgree'
  BY BossAssumption DEF IInv, DecisionsAgree, Reviewed, Reserved, Progress, Owned,
     LeaseFollowsOperation, ResultBeforeRemoval, Collecting, TypeOK, Publish, Final,
     Ended, Captured, Holding, Operating, Waits, Steps, Plans, Phases, Known,
     Statuses, Dispositions, Captures, Kinds, Fresh, NoPlan, Plan
<1>12. AttemptKnown'
  BY DEF IInv, AttemptKnown, Publish, Known, Final
<1> QED BY <1>1, <1>2, <1>3, <1>4, <1>5, <1>6, <1>7, <1>8, <1>9, <1>10, <1>11, <1>12 DEF IInv

LEMMA RecoverInv == ASSUME NEW p \in Procs, IInv, Recover(p) PROVE IInv'
<1>1. TypeOK'
  <2>1. pc' \in [Procs -> Steps]
    BY DEF IInv, TypeOK, Recover, Steps, Plans, Phases, Known, Statuses, Ended,
       Dispositions, Final, Captures, Ready, Kinds, Fresh
  <2>2. plan' \in [Procs -> Plans]
    BY NoPlanTyped, PlanTyped DEF IInv, TypeOK, Recover, Steps, Plans, Phases,
       Known, Statuses, Ended, Dispositions, Final, Captures, Ready, Kinds, Fresh
  <2>3. /\ attempts' \in Nat /\ pending' \in BOOLEAN /\ Known' <= MaxAttempts
         /\ attempt' \in Nat /\ attempt' <= MaxAttempts
    BY MaxAttemptsAssumption DEF IInv, TypeOK, Recover, Steps, Plans, Phases, Known,
       Statuses, Ended, Dispositions, Final, Captures, Ready, Kinds, Fresh
  <2> QED
    BY <2>1, <2>2, <2>3 DEF IInv, TypeOK, Recover, Steps, Plans, Phases, Known,
       Statuses, Ended, Dispositions, Final, Captures, Ready, Kinds, Fresh
<1>2. Owned'
  BY DEF IInv, Owned, Recover, Holding, Ready, Final, Operating
<1>3. LeaseFollowsOperation'
  BY BossAssumption DEF IInv, LeaseFollowsOperation, Owned, TypeOK, Recover,
     Operating, Final, Holding, Steps, Plans, Phases, Known, Statuses, Ended,
     Dispositions, Captures, Ready, Kinds, Fresh
<1>4. Reserved'
  BY DEF IInv, Reserved, Recover, Ready, Final
<1>5. Executed'
  BY DEF IInv, Executed, Recover, Ended, Ready, Final
<1>6. Reviewed'
  BY DEF IInv, Reviewed, Recover, Final, Ended, Ready
<1>7. Progress'
  BY DEF IInv, Progress, Recover, Captured, Ready, Final
<1>8. Collecting'
  BY DEF IInv, Collecting, Recover, Waits, Final, Ready, Ended
<1>9. ResultBeforeRemoval'
  BY DEF IInv, ResultBeforeRemoval, Recover, Final, Ready
<1>10. KeptForRetry'
  BY DEF IInv, KeptForRetry, Recover, Ended, Ready, Final
<1>11. DecisionsAgree'
  BY DEF IInv, DecisionsAgree, Recover, Ready, Final
<1>12. AttemptKnown'
  BY DEF IInv, AttemptKnown, Recover, Known, Ready, Final
<1> QED BY <1>1, <1>2, <1>3, <1>4, <1>5, <1>6, <1>7, <1>8, <1>9, <1>10, <1>11, <1>12 DEF IInv

LEMMA StopInv == ASSUME NEW p \in Procs, IInv, Stop(p) PROVE IInv'
<1>1. TypeOK'
  <2>1. pc' \in [Procs -> Steps]
    BY DEF IInv, TypeOK, Stop, Steps, Plans, Phases, Known, Statuses, Ended,
       Dispositions, Final, Captures, Kinds, Fresh
  <2>2. plan' \in [Procs -> Plans]
    BY NoPlanTyped, PlanTyped DEF IInv, TypeOK, Stop, Steps, Plans, Phases, Known,
       Statuses, Ended, Dispositions, Final, Captures, Kinds, Fresh
  <2>3. /\ attempts' \in Nat /\ pending' \in BOOLEAN /\ Known' <= MaxAttempts
         /\ attempt' \in Nat /\ attempt' <= MaxAttempts
    BY MaxAttemptsAssumption DEF IInv, TypeOK, Stop, Steps, Plans, Phases, Known,
       Statuses, Ended, Dispositions, Final, Captures, Kinds, Fresh
  <2> QED
    BY <2>1, <2>2, <2>3 DEF IInv, TypeOK, Stop, Steps, Plans, Phases, Known,
       Statuses, Ended, Dispositions, Final, Captures, Kinds, Fresh
<1>2. Owned'
  BY BossAssumption DEF IInv, Owned, TypeOK, Stop, Holding, Steps, Plans, Phases,
     Known, Statuses, Ended, Dispositions, Final, Captures, Operating, Kinds, Fresh
<1>3. LeaseFollowsOperation'
  BY BossAssumption DEF IInv, LeaseFollowsOperation, Owned, TypeOK, Stop, Operating,
     Final, Holding, Steps, Plans, Phases, Known, Statuses, Ended, Dispositions,
     Captures, Kinds, Fresh
<1>4. Reserved'
  BY DEF IInv, Reserved, Stop
<1>5. Executed'
  BY BossAssumption DEF IInv, Executed, Owned, TypeOK, Stop, Ended, Holding, Steps,
     Plans, Phases, Known, Statuses, Dispositions, Final, Captures, Operating,
     Kinds, Fresh
<1>6. Reviewed'
  BY BossAssumption DEF IInv, Reviewed, Owned, TypeOK, Stop, Final, Ended, Holding,
     Steps, Plans, Phases, Known, Statuses, Dispositions, Captures, Operating,
     Kinds, Fresh
<1>7. Progress'
  BY DEF IInv, Progress, Stop, Captured
<1>8. Collecting'
  BY BossAssumption DEF IInv, Collecting, Owned, TypeOK, Stop, Waits, Final,
     Holding, Steps, Plans, Phases, Known, Statuses, Ended, Dispositions, Captures,
     Operating, Kinds, Fresh
<1>9. ResultBeforeRemoval'
  BY DEF IInv, ResultBeforeRemoval, Stop, Final
<1>10. KeptForRetry'
  BY DEF IInv, KeptForRetry, Stop, Ended
<1>11. DecisionsAgree'
  BY DEF IInv, DecisionsAgree, Stop
<1>12. AttemptKnown'
  BY DEF IInv, AttemptKnown, Stop, Known
<1> QED BY <1>1, <1>2, <1>3, <1>4, <1>5, <1>6, <1>7, <1>8, <1>9, <1>10, <1>11, <1>12 DEF IInv

-----------------------------------------------------------------------------
(* The invariant holds at first, and every step keeps it. *)

LEMMA InitInv == Init => IInv
<1> SUFFICES ASSUME Init PROVE IInv
  OBVIOUS
<1>1. TypeOK
  <2>1. /\ attempts \in Nat /\ pending \in BOOLEAN /\ Known <= MaxAttempts
        /\ attempt \in Nat /\ attempt <= MaxAttempts
    <3>1. attempts = 0 /\ attempt = 0 /\ Known = 0
      BY DEF Init, Known
    <3>2. pending \in BOOLEAN
      BY DEF Init
    <3> QED BY <3>1, <3>2, MaxAttemptsAssumption
  <2>2. pc \in [Procs -> Steps] /\ plan \in [Procs -> Plans]
    BY NoPlanTyped DEF Init, Steps
  <2>3. whole \in BOOLEAN /\ alive \subseteq Coordinators
    BY DEF Init
  <2>4. owner = None /\ fence = None /\ holder \in Coordinators
    BY DEF Init
  <2>5. /\ phase \in Phases /\ status \in Statuses /\ rowStatus \in Ended \cup {"planned", "running"}
        /\ disposition \in Dispositions /\ patch \in Captures /\ manifest \in Captures
    BY DEF Init, Phases, Statuses, Fresh, Dispositions, Captures
  <2>6. /\ reason = "none" /\ cleanup = "none" /\ place = "work"
        /\ request = "none" /\ verdict = "none"
    BY DEF Init
  <2> QED
    BY <2>1, <2>2, <2>3, <2>4, <2>5, <2>6 DEF TypeOK
<1>2. \A p \in Procs : pc[p] = "idle"
  BY DEF Init
<1>3. Owned /\ LeaseFollowsOperation /\ Reserved /\ Executed /\ Reviewed /\ Progress
  BY <1>2 DEF Init, Owned, LeaseFollowsOperation, Reserved, Executed, Reviewed, Progress,
              Holding, Operating
<1>4. Collecting /\ ResultBeforeRemoval /\ KeptForRetry /\ DecisionsAgree
  BY <1>2 DEF Init, Collecting, ResultBeforeRemoval, KeptForRetry, DecisionsAgree
<1>5. AttemptKnown
  BY DEF Init, AttemptKnown, Known
<1> QED BY <1>1, <1>3, <1>4, <1>5 DEF IInv

(* The coordinators that run are no part of it, except for their type. *)
LEMMA AliveInv ==
  ASSUME IInv, alive' \subseteq Coordinators, UNCHANGED <<acting, locks, lease, status, row, tree, result>>
  PROVE  IInv'
<1>1. TypeOK' BY DEF IInv, TypeOK, Known
<1>2. Owned' /\ LeaseFollowsOperation' /\ Reserved' /\ Executed' /\ Reviewed'
  BY DEF IInv, Owned, LeaseFollowsOperation, Reserved, Executed, Reviewed
<1>3. Progress' /\ Collecting' /\ ResultBeforeRemoval'
  BY DEF IInv, Progress, Captured, Collecting, Waits, ResultBeforeRemoval
<1>4. KeptForRetry' /\ DecisionsAgree' /\ AttemptKnown'
  BY DEF IInv, KeptForRetry, DecisionsAgree, AttemptKnown, Known
<1> QED BY <1>1, <1>2, <1>3, <1>4 DEF IInv

LEMMA ExecutionInv == ASSUME NEW p \in Procs, IInv, Execution(p) PROVE IInv'
  BY StartInv, PrepareInv, PreparationFailsInv, FailLeaseInv, RecordUnpreparedInv,
     ReserveInv, ReplayInv, RecordStartInv, BeginAttemptInv, RecordRunningInv,
     WorkInv, ConcludeInv, WritePatchInv, EndAttemptInv, LoseTrackInv, RecordEndInv
     DEF Execution

LEMMA ReviewingInv == ASSUME NEW p \in Procs, IInv, Reviewing(p) PROVE IInv'
  BY ReviewInv, DecideInv, ReworkInv, AbandonInv, AbandonRowInv, AbandonRecordInv,
     AbandonLeaseInv DEF Reviewing

LEMMA FinishingInv == ASSUME NEW p \in Procs, IInv, Finishing(p) PROVE IInv'
  BY FinalizeRequestInv, DiscardInv, CollectInv, AttestInv, AlreadyCleanedInv,
     CaptureInv, DescribeInv, CloseLeaseInv, QuarantineInv, ResumeCleanupInv,
     RestoreInv, RemoveSomeInv, RemoveRestInv, RecordCleanedInv, PublishInv DEF
     Finishing

LEMMA NextInv == IInv /\ [Next]_vars => IInv'
<1> SUFFICES ASSUME IInv, [Next]_vars PROVE IInv'
  OBVIOUS
<1>1. CASE \E p \in Procs : Execution(p) \/ Reviewing(p) \/ Finishing(p) \/ Recover(p) \/ Stop(p)
  BY <1>1, ExecutionInv, ReviewingInv, FinishingInv, RecoverInv, StopInv
<1>2. CASE \E c \in alive : Die(c)
  BY <1>2, AliveInv DEF Die, IInv, TypeOK
<1>3. CASE UNCHANGED vars
  BY <1>3, AliveInv DEF vars, IInv, TypeOK
<1> QED BY <1>1, <1>2, <1>3 DEF Next

(* The inductive invariant of a job's life: locks, lease, copy, row and every  *)
(* process's place in its operation fit together in every reachable state.     *)
THEOREM Consistent == Spec => []IInv
<1> QED BY InitInv, NextInv, PTL DEF Spec

(* Lease, record, row and copy only hold what their validators accept: phases, *)
(* statuses, dispositions and attempt counts in range.                         *)
THEOREM TypeCorrect == Spec => []TypeOK
<1>1. IInv => TypeOK BY DEF IInv
<1> QED BY <1>1, Consistent, PTL

(* While a process runs, prepares or abandons the job nobody else recovers,    *)
(* finalizes or collects it: it owns the copy, its coordinator the lease.      *)
THEOREM OperationOwnsLease == Spec => []LeaseFollowsOperation
<1>1. IInv => LeaseFollowsOperation BY DEF IInv
<1> QED BY <1>1, Consistent, PTL

(* The collector never ends a job that waits for a retry or whose reserved     *)
(* attempt can be recovered, however reviews, starts and reports interleave    *)
(* with its two looks.                                                         *)
THEOREM RetriesKept == Spec => []KeptForRetry
<1>1. IInv => KeptForRetry BY DEF IInv
<1> QED BY <1>1, Consistent, PTL

(* A published verdict agrees with the lease, the copy and the disposition.    *)
THEOREM LedgerAgrees == Spec => []DecisionsAgree
<1>1. IInv => DecisionsAgree BY DEF IInv
<1> QED BY <1>1, Consistent, PTL

(* Nothing of the tree is moved or removed before its result is captured,      *)
(* described and decided upon, wherever a process stops.                       *)
THEOREM CapturedFirst == Spec => []ResultBeforeRemoval
<1>1. IInv => ResultBeforeRemoval BY DEF IInv
<1> QED BY <1>1, Consistent, PTL

(* The lease knows every attempt the ledger names.                             *)
THEOREM LedgerAttemptKnown == Spec => []AttemptKnown
<1>1. IInv => AttemptKnown BY DEF IInv
<1> QED BY <1>1, Consistent, PTL

-----------------------------------------------------------------------------
(* What is final stays: the steps that write the fields of the lease and the  *)
(* copy do so before the job is final, those that write the decision agree    *)
(* with a published one, and all the others leave both alone.                 *)

Settled ==
    /\ phase \in Final => UNCHANGED <<phase, holder, attempts, status>>
    /\ verdict # "none" => UNCHANGED <<verdict, disposition>>

LEMMA LeaseSteps ==
  ASSUME NEW p \in Procs, IInv,
         \/ Start(p) \/ Prepare(p) \/ PreparationFails(p) \/ FailLease(p) \/ Reserve(p)
         \/ BeginAttempt(p) \/ RecordRunning(p) \/ Conclude(p) \/ EndAttempt(p)
         \/ Rework(p) \/ Abandon(p) \/ AbandonRecord(p) \/ AbandonLease(p)
         \/ CloseLease(p) \/ Recover(p)
  PROVE  Settled
<1>1. UNCHANGED <<verdict, disposition>>
  BY DEF Start, Prepare, PreparationFails, FailLease, Reserve, BeginAttempt, RecordRunning,
         Conclude, EndAttempt, Rework, Abandon, AbandonRecord, AbandonLease, CloseLease, Recover
<1>2. CASE phase \notin Final
  BY <1>1, <1>2 DEF Settled
<1>3. CASE phase \in Final
  <2>1. pc[p] \notin Operating
    BY <1>3 DEF IInv, LeaseFollowsOperation
  <2>2. ~(PreparationFails(p) \/ FailLease(p) \/ Reserve(p) \/ BeginAttempt(p) \/ RecordRunning(p))
    BY <1>3, <2>1 DEF PreparationFails, FailLease, Reserve, Startable, BeginAttempt, RecordRunning,
                      Operating
  <2>3. ~(Conclude(p) \/ EndAttempt(p) \/ AbandonRecord(p) \/ AbandonLease(p))
    BY <2>1 DEF Conclude, EndAttempt, AbandonRecord, AbandonLease, Operating
  <2>4. ~(Start(p) \/ Prepare(p) \/ Abandon(p) \/ Rework(p) \/ Recover(p))
    BY <1>3 DEF Start, Prepare, Abandon, Lock, Rework, Recover
  <2>5. CASE CloseLease(p)
    BY <1>1, <1>3, <2>5 DEF CloseLease, Settled
  <2> QED BY <2>2, <2>3, <2>4, <2>5
<1> QED BY <1>2, <1>3

LEMMA DecisionSteps ==
  ASSUME NEW p \in Procs, IInv, RecordStart(p) \/ Decide(p) \/ Publish(p)
  PROVE  Settled
<1>1. UNCHANGED <<phase, holder, attempts, status>>
  BY DEF RecordStart, Decide, Publish
<1>2. CASE RecordStart(p)
  BY <1>1, <1>2 DEF RecordStart, IInv, Reserved, Settled
<1>3. CASE Decide(p)
  BY <1>1, <1>3 DEF Decide, Acceptable, Frozen, Settled
<1>4. CASE Publish(p)
  BY <1>1, <1>4 DEF Publish, IInv, DecisionsAgree, Settled
<1> QED BY <1>2, <1>3, <1>4

LEMMA OtherSteps ==
  ASSUME NEW p \in Procs,
         \/ RecordUnprepared(p) \/ Replay(p) \/ Work(p) \/ WritePatch(p) \/ LoseTrack(p)
         \/ RecordEnd(p) \/ Review(p) \/ AbandonRow(p) \/ FinalizeRequest(p) \/ Discard(p)
         \/ Collect(p) \/ Attest(p) \/ AlreadyCleaned(p) \/ Capture(p) \/ Describe(p)
         \/ Quarantine(p) \/ ResumeCleanup(p) \/ Restore(p) \/ RemoveSome(p)
         \/ RemoveRest(p) \/ RecordCleaned(p) \/ Stop(p)
  PROVE  Settled
BY DEF RecordUnprepared, Replay, Work, WritePatch, LoseTrack, RecordEnd, Review, AbandonRow,
       FinalizeRequest, Discard, Collect, Attest, AlreadyCleaned, Capture, Describe,
       Quarantine, ResumeCleanup, Restore, RemoveSome, RemoveRest, RecordCleaned, Stop, Settled

LEMMA NextSettled == IInv /\ [Next]_vars => Settled
<1> SUFFICES ASSUME IInv, [Next]_vars PROVE Settled
  OBVIOUS
<1>1. CASE \E p \in Procs : Execution(p) \/ Reviewing(p) \/ Finishing(p) \/ Recover(p) \/ Stop(p)
  <2>1. PICK p \in Procs : Execution(p) \/ Reviewing(p) \/ Finishing(p) \/ Recover(p) \/ Stop(p)
    BY <1>1
  <2>2. CASE Execution(p)
    BY <2>2, LeaseSteps, DecisionSteps, OtherSteps DEF Execution
  <2>3. CASE Reviewing(p)
    BY <2>3, LeaseSteps, DecisionSteps, OtherSteps DEF Reviewing
  <2>4. CASE Finishing(p)
    BY <2>4, LeaseSteps, DecisionSteps, OtherSteps DEF Finishing
  <2> QED BY <2>1, <2>2, <2>3, <2>4, LeaseSteps, OtherSteps
<1>2. CASE \E c \in alive : Die(c)
  BY <1>2 DEF Die, Settled
<1>3. CASE UNCHANGED vars
  BY <1>3 DEF vars, Settled
<1> QED BY <1>1, <1>2, <1>3 DEF Next

(* A finalized or cancelled job is never run, owned or decided upon again, and *)
(* a published verdict stands, whatever operation was under way.               *)
THEOREM FinalIsForGood == Spec => FinalForGood
<1>1. IInv /\ [Next]_vars =>
        [/\ phase \in Final => UNCHANGED <<phase, holder, attempts, status>>
         /\ verdict # "none" => UNCHANGED <<verdict, disposition>>]_vars
  BY NextSettled DEF Settled
<1> QED BY <1>1, Consistent, PTL DEF Spec, FinalForGood
=============================================================================
