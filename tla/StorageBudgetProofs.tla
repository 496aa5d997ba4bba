------------------------- MODULE StorageBudgetProofs -------------------------
(* Proofs about the space reservations, for any number of contexts, demands   *)
(* and filesystems: records and locks always belong together, and nothing is  *)
(* promised twice as long as no owner of a live record goes away while an     *)
(* admission adds up the records.                                             *)
EXTENDS StorageBudget, FiniteSetTheorems, TLAPS

(* The initial state is well typed and has no locks, records or reservations. *)
LEMMA BaseInit == Init => BaseInv
  BY SizeAssumption, NoneAssumption
  DEF Init, BaseInv, TypeOK, LockInv, RecordInv, RestInv, Steps, Critical, Recorded

(* Every step keeps the types. *)
LEMMA TypeNext == TypeOK /\ [Next]_vars => TypeOK'
<1> SUFFICES ASSUME TypeOK, [Next]_vars PROVE TypeOK'
  OBVIOUS
<1> USE DemandAssumption, SizeAssumption, NoneAssumption
        DEF TypeOK, Steps, own, count, lock, records
<1>1. ASSUME NEW p \in Procs, Request(p) PROVE TypeOK'
  BY <1>1 DEF Request
<1>2. ASSUME NEW p \in Procs, EnterLock(p) PROVE TypeOK'
  BY <1>2 DEF EnterLock
<1>3. ASSUME NEW p \in Procs, LockWasReplaced(p) PROVE TypeOK'
  BY <1>3 DEF LockWasReplaced, Finish, ForgetCount
<1>4. ASSUME NEW p \in Procs, Sample(p) PROVE TypeOK'
  BY <1>4 DEF Sample
<1>5. ASSUME NEW p \in Procs, VisitRecord(p) PROVE TypeOK'
<2>1. PICK t \in Tokens : Visit(p, t)
  BY <1>5 DEF VisitRecord
<2>2. counted' \in [Procs -> SUBSET Blocks]
  <3>1. counted' = counted
        \/ \E q \in Procs : counted' = [counted EXCEPT ![p] = counted[p] \cup Demand[q]]
    BY <2>1 DEF Visit
  <3>. QED
    BY <3>1
<2>3. files' \subseteq Tokens /\ todo' \in [Procs -> SUBSET Tokens]
  BY <2>1 DEF Visit
<2>. QED
  BY <1>5, <2>2, <2>3 DEF VisitRecord
<1>6. ASSUME NEW p \in Procs, VisitCorrupt(p) PROVE TypeOK'
  BY <1>6 DEF VisitCorrupt, Finish, ForgetCount, Unlocked
<1>7. ASSUME NEW p \in Procs, Admit(p) PROVE TypeOK'
  BY <1>7 DEF Admit, ForgetCount
<1>8. ASSUME NEW p \in Procs, Refuse(p) PROVE TypeOK'
  BY <1>8 DEF Refuse, Finish, ForgetCount, Unlocked
<1>9. ASSUME NEW p \in Procs, CreateRecord(p) PROVE TypeOK'
  BY <1>9 DEF CreateRecord
<1>10. ASSUME NEW p \in Procs, LockRecord(p) PROVE TypeOK'
  BY <1>10 DEF LockRecord
<1>11. ASSUME NEW p \in Procs, RecordWasDeleted(p) PROVE TypeOK'
  BY <1>11 DEF RecordWasDeleted, Finish, ForgetCount, Unlocked
<1>12. ASSUME NEW p \in Procs, WriteRecord(p) PROVE TypeOK'
  BY <1>12 DEF WriteRecord
<1>13. ASSUME NEW p \in Procs, Keep(p) PROVE TypeOK'
  BY <1>13 DEF Keep, Unlocked
<1>14. ASSUME NEW p \in Procs, Renounce(p) PROVE TypeOK'
  BY <1>14 DEF Renounce, Finish, ForgetCount, Unlocked, Dropped
<1>15. ASSUME NEW p \in Procs, Materialize(p) PROVE TypeOK'
  BY <1>15 DEF Materialize
<1>16. ASSUME NEW p \in Procs, Close(p) PROVE TypeOK'
  BY <1>16 DEF Close
<1>17. ASSUME NEW p \in Procs, CloseAfterReplacement(p) PROVE TypeOK'
  BY <1>17 DEF CloseAfterReplacement, Finish, ForgetCount, Dropped
<1>18. ASSUME NEW p \in Procs, RemoveRecord(p) PROVE TypeOK'
  BY <1>18 DEF RemoveRecord, Finish, ForgetCount, Dropped
<1>19. ASSUME NEW p \in Procs, Crash(p) PROVE TypeOK'
  BY <1>19 DEF Crash, Finish, ForgetCount, Unlocked, Dropped
<1>20. ASSUME ReplaceLock PROVE TypeOK'
  BY <1>20 DEF ReplaceLock
<1>21. ASSUME NEW d \in Devices, Clean(d) PROVE TypeOK'
  BY <1>21 DEF Clean
<1>22. ASSUME UNCHANGED vars PROVE TypeOK'
  BY <1>22 DEF vars
<1>. QED
  BY <1>1, <1>2, <1>3, <1>4, <1>5, <1>6, <1>7, <1>8, <1>9, <1>10, <1>11,
     <1>12, <1>13, <1>14, <1>15, <1>16, <1>17, <1>18, <1>19, <1>20, <1>21,
     <1>22
  DEF Next, Enter, Proceed, Use

(* Every step keeps budget.lock with the one admission inside. *)
LEMMA LockNext == BaseInv /\ [Next]_vars => LockInv'
<1> SUFFICES ASSUME BaseInv, [Next]_vars PROVE LockInv'
  OBVIOUS
<1>0. TypeOK'
  BY TypeNext DEF BaseInv
<1> USE DemandAssumption, SizeAssumption, NoneAssumption, <1>0
        DEF BaseInv, TypeOK, LockInv, Critical, SameLock, own, count, lock, records
<1>1. ASSUME NEW p \in Procs, Request(p) PROVE LockInv'
  BY <1>1 DEF Request
<1>2. ASSUME NEW p \in Procs, EnterLock(p) PROVE LockInv'
  BY <1>2 DEF EnterLock
<1>3. ASSUME NEW p \in Procs, LockWasReplaced(p) PROVE LockInv'
  BY <1>3 DEF LockWasReplaced, Finish, ForgetCount
<1>4. ASSUME NEW p \in Procs, Sample(p) PROVE LockInv'
  BY <1>4 DEF Sample
<1>5. ASSUME NEW p \in Procs, VisitRecord(p) PROVE LockInv'
  BY <1>5 DEF VisitRecord, Visit
<1>6. ASSUME NEW p \in Procs, VisitCorrupt(p) PROVE LockInv'
  BY SMTT(30), <1>6 DEF VisitCorrupt, Finish, ForgetCount, Unlocked
<1>7. ASSUME NEW p \in Procs, Admit(p) PROVE LockInv'
  BY <1>7 DEF Admit, ForgetCount
<1>8. ASSUME NEW p \in Procs, Refuse(p) PROVE LockInv'
  BY <1>8 DEF Refuse, Finish, ForgetCount, Unlocked
<1>9. ASSUME NEW p \in Procs, CreateRecord(p) PROVE LockInv'
<2>1. pc' = [pc EXCEPT ![p] = "stamp"]
  BY <1>9 DEF CreateRecord
<2>2. UNCHANGED <<myLock, holder, lockFile>> /\ pc[p] = "create"
  BY <1>9 DEF CreateRecord
<2>. QED
  BY <2>1, <2>2
<1>10. ASSUME NEW p \in Procs, LockRecord(p) PROVE LockInv'
  BY <1>10 DEF LockRecord
<1>11. ASSUME NEW p \in Procs, RecordWasDeleted(p) PROVE LockInv'
  BY <1>11 DEF RecordWasDeleted, Finish, ForgetCount, Unlocked
<1>12. ASSUME NEW p \in Procs, WriteRecord(p) PROVE LockInv'
  BY <1>12 DEF WriteRecord
<1>13. ASSUME NEW p \in Procs, Keep(p) PROVE LockInv'
  BY <1>13 DEF Keep, Unlocked
<1>14. ASSUME NEW p \in Procs, Renounce(p) PROVE LockInv'
  BY <1>14 DEF Renounce, Finish, ForgetCount, Unlocked, Dropped
<1>15. ASSUME NEW p \in Procs, Materialize(p) PROVE LockInv'
  BY <1>15 DEF Materialize
<1>16. ASSUME NEW p \in Procs, Close(p) PROVE LockInv'
  BY <1>16 DEF Close
<1>17. ASSUME NEW p \in Procs, CloseAfterReplacement(p) PROVE LockInv'
  BY <1>17 DEF CloseAfterReplacement, Finish, ForgetCount, Dropped
<1>18. ASSUME NEW p \in Procs, RemoveRecord(p) PROVE LockInv'
  BY <1>18 DEF RemoveRecord, Finish, ForgetCount, Dropped
<1>19. ASSUME NEW p \in Procs, Crash(p) PROVE LockInv'
  BY <1>19 DEF Crash, Finish, ForgetCount, Unlocked, Dropped
<1>20. ASSUME ReplaceLock PROVE LockInv'
  BY <1>20 DEF ReplaceLock
<1>21. ASSUME NEW d \in Devices, Clean(d) PROVE LockInv'
  BY <1>21 DEF Clean
<1>22. ASSUME UNCHANGED vars PROVE LockInv'
  BY <1>22 DEF vars
<1>. QED
  BY <1>1, <1>2, <1>3, <1>4, <1>5, <1>6, <1>7, <1>8, <1>9, <1>10, <1>11,
     <1>12, <1>13, <1>14, <1>15, <1>16, <1>17, <1>18, <1>19, <1>20, <1>21,
     <1>22
  DEF Next, Enter, Proceed, Use

(* Every step keeps each record with the context that owns it. *)
LEMMA RecordNext == BaseInv /\ [Next]_vars => RecordInv'
<1> SUFFICES ASSUME BaseInv, [Next]_vars PROVE RecordInv'
  OBVIOUS
<1>0. TypeOK'
  BY TypeNext DEF BaseInv
<1> USE DemandAssumption, SizeAssumption, NoneAssumption, <1>0
        DEF BaseInv, TypeOK, RecordInv, Recorded, own, count, lock, records
<1>1. ASSUME NEW p \in Procs, Request(p) PROVE RecordInv'
  BY <1>1 DEF Request
<1>2. ASSUME NEW p \in Procs, EnterLock(p) PROVE RecordInv'
  BY <1>2 DEF EnterLock
<1>3. ASSUME NEW p \in Procs, LockWasReplaced(p) PROVE RecordInv'
  BY <1>3 DEF LockWasReplaced, Finish, ForgetCount
<1>4. ASSUME NEW p \in Procs, Sample(p) PROVE RecordInv'
  BY <1>4 DEF Sample
<1>5. ASSUME NEW p \in Procs, VisitRecord(p) PROVE RecordInv'
  BY <1>5 DEF VisitRecord, Visit
<1>6. ASSUME NEW p \in Procs, VisitCorrupt(p) PROVE RecordInv'
  BY <1>6 DEF VisitCorrupt, Finish, ForgetCount, Unlocked
<1>7. ASSUME NEW p \in Procs, Admit(p) PROVE RecordInv'
  BY <1>7 DEF Admit, ForgetCount
<1>8. ASSUME NEW p \in Procs, Refuse(p) PROVE RecordInv'
  BY <1>8 DEF Refuse, Finish, ForgetCount, Unlocked
<1>9. ASSUME NEW p \in Procs, CreateRecord(p) PROVE RecordInv'
  BY <1>9 DEF CreateRecord
<1>10. ASSUME NEW p \in Procs, LockRecord(p) PROVE RecordInv'
  BY <1>10 DEF LockRecord
<1>11. ASSUME NEW p \in Procs, RecordWasDeleted(p) PROVE RecordInv'
  BY <1>11 DEF RecordWasDeleted, Finish, ForgetCount, Unlocked
<1>12. ASSUME NEW p \in Procs, WriteRecord(p) PROVE RecordInv'
  BY <1>12 DEF WriteRecord
<1>13. ASSUME NEW p \in Procs, Keep(p) PROVE RecordInv'
  BY <1>13 DEF Keep, Unlocked
<1>14. ASSUME NEW p \in Procs, Renounce(p) PROVE RecordInv'
  BY <1>14 DEF Renounce, Finish, ForgetCount, Unlocked, Dropped
<1>15. ASSUME NEW p \in Procs, Materialize(p) PROVE RecordInv'
  BY <1>15 DEF Materialize
<1>16. ASSUME NEW p \in Procs, Close(p) PROVE RecordInv'
  BY <1>16 DEF Close
<1>17. ASSUME NEW p \in Procs, CloseAfterReplacement(p) PROVE RecordInv'
  BY <1>17 DEF CloseAfterReplacement, Finish, ForgetCount, Dropped
<1>18. ASSUME NEW p \in Procs, RemoveRecord(p) PROVE RecordInv'
  BY <1>18 DEF RemoveRecord, Finish, ForgetCount, Dropped
<1>19. ASSUME NEW p \in Procs, Crash(p) PROVE RecordInv'
  BY <1>19 DEF Crash, Finish, ForgetCount, Unlocked, Dropped
<1>20. ASSUME ReplaceLock PROVE RecordInv'
  BY <1>20 DEF ReplaceLock
<1>21. ASSUME NEW d \in Devices, Clean(d) PROVE RecordInv'
  BY <1>21 DEF Clean
<1>22. ASSUME UNCHANGED vars PROVE RecordInv'
  BY <1>22 DEF vars
<1>. QED
  BY <1>1, <1>2, <1>3, <1>4, <1>5, <1>6, <1>7, <1>8, <1>9, <1>10, <1>11,
     <1>12, <1>13, <1>14, <1>15, <1>16, <1>17, <1>18, <1>19, <1>20, <1>21,
     <1>22
  DEF Next, Enter, Proceed, Use

(* Every step leaves blocks to write to reservations that stand only. *)
LEMMA RestNext == BaseInv /\ [Next]_vars => RestInv'
<1> SUFFICES ASSUME BaseInv, [Next]_vars PROVE RestInv'
  OBVIOUS
<1>0. TypeOK'
  BY TypeNext DEF BaseInv
<1> USE DemandAssumption, SizeAssumption, NoneAssumption, <1>0
        DEF BaseInv, TypeOK, RestInv, own, count, lock, records
<1>1. ASSUME NEW p \in Procs, Request(p) PROVE RestInv'
  BY <1>1 DEF Request
<1>2. ASSUME NEW p \in Procs, EnterLock(p) PROVE RestInv'
  BY <1>2 DEF EnterLock
<1>3. ASSUME NEW p \in Procs, LockWasReplaced(p) PROVE RestInv'
  BY <1>3 DEF LockWasReplaced, Finish, ForgetCount
<1>4. ASSUME NEW p \in Procs, Sample(p) PROVE RestInv'
  BY <1>4 DEF Sample
<1>5. ASSUME NEW p \in Procs, VisitRecord(p) PROVE RestInv'
  BY <1>5 DEF VisitRecord, Visit
<1>6. ASSUME NEW p \in Procs, VisitCorrupt(p) PROVE RestInv'
  BY <1>6 DEF VisitCorrupt, Finish, ForgetCount, Unlocked
<1>7. ASSUME NEW p \in Procs, Admit(p) PROVE RestInv'
  BY <1>7 DEF Admit, ForgetCount
<1>8. ASSUME NEW p \in Procs, Refuse(p) PROVE RestInv'
  BY <1>8 DEF Refuse, Finish, ForgetCount, Unlocked
<1>9. ASSUME NEW p \in Procs, CreateRecord(p) PROVE RestInv'
  BY <1>9 DEF CreateRecord
<1>10. ASSUME NEW p \in Procs, LockRecord(p) PROVE RestInv'
  BY <1>10 DEF LockRecord
<1>11. ASSUME NEW p \in Procs, RecordWasDeleted(p) PROVE RestInv'
  BY <1>11 DEF RecordWasDeleted, Finish, ForgetCount, Unlocked
<1>12. ASSUME NEW p \in Procs, WriteRecord(p) PROVE RestInv'
  BY <1>12 DEF WriteRecord
<1>13. ASSUME NEW p \in Procs, Keep(p) PROVE RestInv'
  BY <1>13 DEF Keep, Unlocked
<1>14. ASSUME NEW p \in Procs, Renounce(p) PROVE RestInv'
  BY <1>14 DEF Renounce, Finish, ForgetCount, Unlocked, Dropped
<1>15. ASSUME NEW p \in Procs, Materialize(p) PROVE RestInv'
  BY <1>15 DEF Materialize
<1>16. ASSUME NEW p \in Procs, Close(p) PROVE RestInv'
  BY <1>16 DEF Close
<1>17. ASSUME NEW p \in Procs, CloseAfterReplacement(p) PROVE RestInv'
  BY <1>17 DEF CloseAfterReplacement, Finish, ForgetCount, Dropped
<1>18. ASSUME NEW p \in Procs, RemoveRecord(p) PROVE RestInv'
  BY <1>18 DEF RemoveRecord, Finish, ForgetCount, Dropped
<1>19. ASSUME NEW p \in Procs, Crash(p) PROVE RestInv'
  BY <1>19 DEF Crash, Finish, ForgetCount, Unlocked, Dropped
<1>20. ASSUME ReplaceLock PROVE RestInv'
  BY <1>20 DEF ReplaceLock
<1>21. ASSUME NEW d \in Devices, Clean(d) PROVE RestInv'
  BY <1>21 DEF Clean
<1>22. ASSUME UNCHANGED vars PROVE RestInv'
  BY <1>22 DEF vars
<1>. QED
  BY <1>1, <1>2, <1>3, <1>4, <1>5, <1>6, <1>7, <1>8, <1>9, <1>10, <1>11,
     <1>12, <1>13, <1>14, <1>15, <1>16, <1>17, <1>18, <1>19, <1>20, <1>21,
     <1>22
  DEF Next, Enter, Proceed, Use

(* What holds in any case: locks, records and reservations agree.             *)
THEOREM Base == Spec => []BaseInv
<1>1. BaseInv /\ [Next]_vars => BaseInv'
  BY TypeNext, LockNext, RecordNext, RestNext DEF BaseInv
<1>. QED
  BY <1>1, BaseInit, PTL DEF Spec

(* Nobody deletes the record of a live reservation, whoever dies and however  *)
(* often budget.lock is replaced.                                             *)
THEOREM RecordsKept == Spec => []LiveRecordKept
<1>1. BaseInv => LiveRecordKept
  BY DEF BaseInv, RecordInv, Recorded, LiveRecordKept
<1>. QED
  BY <1>1, Base, PTL

(* The free space counts down only when a reservation writes. *)
LEMMA FreeFrame ==
  ASSUME TypeOK, [Next]_vars, \A p \in Procs : ~Materialize(p)
  PROVE  \A d \in Devices : free'[d] >= free[d]
<1> USE DemandAssumption, SizeAssumption, NoneAssumption DEF TypeOK, own, count, lock, records
<1>1. ASSUME NEW p \in Procs, Request(p) PROVE \A e \in Devices : free'[e] >= free[e]
  BY <1>1 DEF Request
<1>2. ASSUME NEW p \in Procs, EnterLock(p) PROVE \A e \in Devices : free'[e] >= free[e]
  BY <1>2 DEF EnterLock
<1>3. ASSUME NEW p \in Procs, LockWasReplaced(p) PROVE \A e \in Devices : free'[e] >= free[e]
  BY <1>3 DEF LockWasReplaced, Finish, ForgetCount
<1>4. ASSUME NEW p \in Procs, Sample(p) PROVE \A e \in Devices : free'[e] >= free[e]
  BY <1>4 DEF Sample
<1>5. ASSUME NEW p \in Procs, VisitRecord(p) PROVE \A e \in Devices : free'[e] >= free[e]
  BY <1>5 DEF VisitRecord, Visit
<1>6. ASSUME NEW p \in Procs, VisitCorrupt(p) PROVE \A e \in Devices : free'[e] >= free[e]
  BY <1>6 DEF VisitCorrupt, Finish, ForgetCount, Unlocked
<1>7. ASSUME NEW p \in Procs, Admit(p) PROVE \A e \in Devices : free'[e] >= free[e]
  BY <1>7 DEF Admit, ForgetCount
<1>8. ASSUME NEW p \in Procs, Refuse(p) PROVE \A e \in Devices : free'[e] >= free[e]
  BY <1>8 DEF Refuse, Finish, ForgetCount, Unlocked
<1>9. ASSUME NEW p \in Procs, CreateRecord(p) PROVE \A e \in Devices : free'[e] >= free[e]
  BY <1>9 DEF CreateRecord
<1>10. ASSUME NEW p \in Procs, LockRecord(p) PROVE \A e \in Devices : free'[e] >= free[e]
  BY <1>10 DEF LockRecord
<1>11. ASSUME NEW p \in Procs, RecordWasDeleted(p) PROVE \A e \in Devices : free'[e] >= free[e]
  BY <1>11 DEF RecordWasDeleted, Finish, ForgetCount, Unlocked
<1>12. ASSUME NEW p \in Procs, WriteRecord(p) PROVE \A e \in Devices : free'[e] >= free[e]
  BY <1>12 DEF WriteRecord
<1>13. ASSUME NEW p \in Procs, Keep(p) PROVE \A e \in Devices : free'[e] >= free[e]
  BY <1>13 DEF Keep, Unlocked
<1>14. ASSUME NEW p \in Procs, Renounce(p) PROVE \A e \in Devices : free'[e] >= free[e]
  BY <1>14 DEF Renounce, Finish, ForgetCount, Unlocked, Dropped
<1>15. ASSUME NEW p \in Procs, Materialize(p) PROVE \A e \in Devices : free'[e] >= free[e]
  BY <1>15
<1>16. ASSUME NEW p \in Procs, Close(p) PROVE \A e \in Devices : free'[e] >= free[e]
  BY <1>16 DEF Close
<1>17. ASSUME NEW p \in Procs, CloseAfterReplacement(p) PROVE \A e \in Devices : free'[e] >= free[e]
  BY <1>17 DEF CloseAfterReplacement, Finish, ForgetCount, Dropped
<1>18. ASSUME NEW p \in Procs, RemoveRecord(p) PROVE \A e \in Devices : free'[e] >= free[e]
  BY <1>18 DEF RemoveRecord, Finish, ForgetCount, Dropped
<1>19. ASSUME NEW p \in Procs, Crash(p) PROVE \A e \in Devices : free'[e] >= free[e]
  BY <1>19 DEF Crash, Finish, ForgetCount, Unlocked, Dropped
<1>20. ASSUME ReplaceLock PROVE \A e \in Devices : free'[e] >= free[e]
  BY <1>20 DEF ReplaceLock
<1>21. ASSUME NEW d \in Devices, Clean(d) PROVE \A e \in Devices : free'[e] >= free[e]
  BY <1>21 DEF Clean
<1>22. ASSUME UNCHANGED vars PROVE \A e \in Devices : free'[e] >= free[e]
  BY <1>22 DEF vars
<1>. QED
  BY <1>1, <1>2, <1>3, <1>4, <1>5, <1>6, <1>7, <1>8, <1>9, <1>10, <1>11,
     <1>12, <1>13, <1>14, <1>15, <1>16, <1>17, <1>18, <1>19, <1>20, <1>21,
     <1>22
  DEF Next, Enter, Proceed, Use

(* What is left to write grows only when an admission is kept. *)
LEMMA RestFrame ==
  ASSUME TypeOK, [Next]_vars, \A p \in Procs : ~Keep(p)
  PROVE  \A p \in Procs : rest'[p] \subseteq rest[p]
<1> USE DemandAssumption, SizeAssumption, NoneAssumption DEF TypeOK, own, count, lock, records
<1>1. ASSUME NEW p \in Procs, Request(p) PROVE \A q \in Procs : rest'[q] \subseteq rest[q]
  BY <1>1 DEF Request
<1>2. ASSUME NEW p \in Procs, EnterLock(p) PROVE \A q \in Procs : rest'[q] \subseteq rest[q]
  BY <1>2 DEF EnterLock
<1>3. ASSUME NEW p \in Procs, LockWasReplaced(p) PROVE \A q \in Procs : rest'[q] \subseteq rest[q]
  BY <1>3 DEF LockWasReplaced, Finish, ForgetCount
<1>4. ASSUME NEW p \in Procs, Sample(p) PROVE \A q \in Procs : rest'[q] \subseteq rest[q]
  BY <1>4 DEF Sample
<1>5. ASSUME NEW p \in Procs, VisitRecord(p) PROVE \A q \in Procs : rest'[q] \subseteq rest[q]
  BY <1>5 DEF VisitRecord, Visit
<1>6. ASSUME NEW p \in Procs, VisitCorrupt(p) PROVE \A q \in Procs : rest'[q] \subseteq rest[q]
  BY <1>6 DEF VisitCorrupt, Finish, ForgetCount, Unlocked
<1>7. ASSUME NEW p \in Procs, Admit(p) PROVE \A q \in Procs : rest'[q] \subseteq rest[q]
  BY <1>7 DEF Admit, ForgetCount
<1>8. ASSUME NEW p \in Procs, Refuse(p) PROVE \A q \in Procs : rest'[q] \subseteq rest[q]
  BY <1>8 DEF Refuse, Finish, ForgetCount, Unlocked
<1>9. ASSUME NEW p \in Procs, CreateRecord(p) PROVE \A q \in Procs : rest'[q] \subseteq rest[q]
  BY <1>9 DEF CreateRecord
<1>10. ASSUME NEW p \in Procs, LockRecord(p) PROVE \A q \in Procs : rest'[q] \subseteq rest[q]
  BY <1>10 DEF LockRecord
<1>11. ASSUME NEW p \in Procs, RecordWasDeleted(p) PROVE \A q \in Procs : rest'[q] \subseteq rest[q]
  BY <1>11 DEF RecordWasDeleted, Finish, ForgetCount, Unlocked
<1>12. ASSUME NEW p \in Procs, WriteRecord(p) PROVE \A q \in Procs : rest'[q] \subseteq rest[q]
  BY <1>12 DEF WriteRecord
<1>13. ASSUME NEW p \in Procs, Keep(p) PROVE \A q \in Procs : rest'[q] \subseteq rest[q]
  BY <1>13
<1>14. ASSUME NEW p \in Procs, Renounce(p) PROVE \A q \in Procs : rest'[q] \subseteq rest[q]
  BY <1>14 DEF Renounce, Finish, ForgetCount, Unlocked, Dropped
<1>15. ASSUME NEW p \in Procs, Materialize(p) PROVE \A q \in Procs : rest'[q] \subseteq rest[q]
  BY <1>15 DEF Materialize
<1>16. ASSUME NEW p \in Procs, Close(p) PROVE \A q \in Procs : rest'[q] \subseteq rest[q]
  BY <1>16 DEF Close
<1>17. ASSUME NEW p \in Procs, CloseAfterReplacement(p) PROVE \A q \in Procs : rest'[q] \subseteq rest[q]
  BY <1>17 DEF CloseAfterReplacement, Finish, ForgetCount, Dropped
<1>18. ASSUME NEW p \in Procs, RemoveRecord(p) PROVE \A q \in Procs : rest'[q] \subseteq rest[q]
  BY <1>18 DEF RemoveRecord, Finish, ForgetCount, Dropped
<1>19. ASSUME NEW p \in Procs, Crash(p) PROVE \A q \in Procs : rest'[q] \subseteq rest[q]
  BY <1>19 DEF Crash, Finish, ForgetCount, Unlocked, Dropped
<1>20. ASSUME ReplaceLock PROVE \A q \in Procs : rest'[q] \subseteq rest[q]
  BY <1>20 DEF ReplaceLock
<1>21. ASSUME NEW d \in Devices, Clean(d) PROVE \A q \in Procs : rest'[q] \subseteq rest[q]
  BY <1>21 DEF Clean
<1>22. ASSUME UNCHANGED vars PROVE \A q \in Procs : rest'[q] \subseteq rest[q]
  BY <1>22 DEF vars
<1>. QED
  BY <1>1, <1>2, <1>3, <1>4, <1>5, <1>6, <1>7, <1>8, <1>9, <1>10, <1>11,
     <1>12, <1>13, <1>14, <1>15, <1>16, <1>17, <1>18, <1>19, <1>20, <1>21,
     <1>22
  DEF Next, Enter, Proceed, Use

(* What is outstanding on a filesystem is what its contexts have left.        *)
LEMMA OutstandingRest ==
  ASSUME RestInv, NEW d \in Devices
  PROVE  /\ Outstanding(d) = UNION {rest[p] : p \in {q \in Procs : Device[q] = d}}
         /\ Outstanding(d) \subseteq Blocks
<1>1. \A p \in Procs : rest[p] # {} => pc[p] = "held"
  BY DEF RestInv
<1>2. \A p \in Procs : rest[p] \subseteq Blocks
  BY DemandAssumption DEF RestInv
<1>. QED
  BY <1>1, <1>2 DEF Outstanding, Live

(* Sets of blocks are finite. *)
LEMMA BlocksFinite ==
  ASSUME NEW S \in SUBSET Blocks
  PROVE  IsFiniteSet(S) /\ Cardinality(S) \in Nat
  BY DemandAssumption, FS_Subset, FS_CardinalityType

(* Fewer blocks are not more. *)
LEMMA BlocksMonotone ==
  ASSUME NEW S \in SUBSET Blocks, NEW T \in SUBSET S
  PROVE  Cardinality(T) <= Cardinality(S)
  BY DemandAssumption, FS_Subset

(* A write takes one block from what is outstanding, and one of free space.   *)
LEMMA MaterializeStep ==
  ASSUME BaseInv, NEW p \in Procs, Materialize(p)
  PROVE  \E b \in rest[p] :
            /\ rest' = [rest EXCEPT ![p] = rest[p] \ {b}]
            /\ free' = [free EXCEPT ![Device[p]] = free[Device[p]] - 1]
            /\ \A d \in Devices : Outstanding(d)' =
                  IF d = Device[p] THEN Outstanding(d) \ {b} ELSE Outstanding(d)
            /\ \A d \in Devices : Live(d)' = Live(d)
            /\ UNCHANGED <<pc, myLock, lockFile, sample, todo, counted, mine>>
<1>1. PICK b \in rest[p] : rest' = [rest EXCEPT ![p] = rest[p] \ {b}]
  BY DEF Materialize
<1>2. /\ free' = [free EXCEPT ![Device[p]] = free[Device[p]] - 1]
      /\ UNCHANGED <<pc, myLock, lockFile, sample, todo, counted, mine>>
  BY DEF Materialize, count, lock
<1>3. \A d \in Devices : Live(d)' = Live(d)
  BY <1>2 DEF Live
<1>4. pc[p] = "held"
  BY DEF Materialize
<1>5. ASSUME NEW d \in Devices
      PROVE  Outstanding(d)' = IF d = Device[p] THEN Outstanding(d) \ {b} ELSE Outstanding(d)
  <2>1. Outstanding(d)' = UNION {rest'[q] : q \in Live(d)}
    BY <1>3 DEF Outstanding
  <2>2. \A q \in Live(d) : rest'[q] = IF q = p THEN rest[p] \ {b} ELSE rest[q]
    BY <1>1 DEF Live, BaseInv, TypeOK
  <2>3. \A q \in Procs : q # p => b \notin rest[q]
    BY <1>1, DemandAssumption DEF BaseInv, RestInv
  <2>4. CASE d = Device[p]
    <3>1. p \in Live(d)
      BY <1>4, <2>4 DEF Live
    <3>2. Live(d) \subseteq Procs
      BY DEF Live
    <3>. QED
      BY <2>1, <2>2, <2>3, <2>4, <3>1, <3>2 DEF Outstanding
  <2>5. CASE d # Device[p]
    <3>1. p \notin Live(d)
      BY <2>5 DEF Live
    <3>2. \A q \in Live(d) : rest'[q] = rest[q]
      BY <2>2, <3>1
    <3>. QED
      BY <2>1, <2>5, <3>2 DEF Outstanding
  <2>. QED
    BY <2>4, <2>5
<1>. QED
  BY <1>1, <1>2, <1>3, <1>5

(* Apart from writes and admissions, what is outstanding can only shrink.     *)
LEMMA OutstandingFrame ==
  ASSUME BaseInv, [Next]_vars, \A p \in Procs : ~Keep(p), NEW d \in Devices
  PROVE  Outstanding(d)' \subseteq Outstanding(d)
<1>1. BaseInv'
  BY TypeNext, LockNext, RecordNext, RestNext DEF BaseInv
<1>2. \A p \in Procs : rest'[p] \subseteq rest[p]
  BY RestFrame DEF BaseInv
<1>3. Outstanding(d) = UNION {rest[p] : p \in {q \in Procs : Device[q] = d}}
  BY OutstandingRest DEF BaseInv
<1>4. Outstanding(d)' = UNION {rest'[p] : p \in {q \in Procs : Device[q] = d}}
  <2>1. \A p \in Procs : rest'[p] # {} => pc'[p] = "held"
    BY <1>1 DEF BaseInv, RestInv
  <2>. QED
    BY <2>1 DEF Outstanding, Live
<1>. QED
  BY <1>2, <1>3, <1>4

(* What live reservations have written is disjoint from what they may still   *)
(* write, and within what they reserved.                                      *)
LEMMA SpentFacts ==
  ASSUME BaseInv, NEW d \in Devices
  PROVE  /\ Spent(d) \subseteq Blocks
         /\ Spent(d) \cap Outstanding(d) = {}
         /\ Spent(d) \cup Outstanding(d) = UNION {Demand[q] : q \in Live(d)}
<1>1. \A q \in Live(d) : q \in Procs /\ rest[q] \subseteq Demand[q] /\ Demand[q] \subseteq Blocks
  BY DemandAssumption DEF Live, BaseInv, RestInv
<1>2. Spent(d) \subseteq Blocks
  BY <1>1 DEF Spent
<1>3. Spent(d) \cap Outstanding(d) = {}
  <2> SUFFICES ASSUME NEW b \in Spent(d), b \in Outstanding(d) PROVE FALSE
    OBVIOUS
  <2>1. PICK q \in Live(d) : b \in Demand[q] \ rest[q]
    BY DEF Spent
  <2>2. PICK r \in Live(d) : b \in rest[r]
    BY DEF Outstanding
  <2>3. r # q
    BY <2>1, <2>2
  <2>. QED
    BY <1>1, <2>1, <2>2, <2>3, DemandAssumption
<1>4. Spent(d) \cup Outstanding(d) = UNION {Demand[q] : q \in Live(d)}
  BY <1>1 DEF Spent, Outstanding
<1>. QED
  BY <1>2, <1>3, <1>4

(* The sum of an admission whose list is empty covers what is outstanding and *)
(* what was written since the sample.                                         *)
LEMMA AdmitPromise ==
  ASSUME BaseInv, CountInv, NEW p \in Procs, Admit(p), SameLock(p)
  PROVE  Cardinality(Outstanding(Device[p]) \cup Demand[p]) + Minimum <= free[Device[p]]
<1> DEFINE d == Device[p]
           O == Outstanding(d)
           S == Spent(d)
<1>1. d \in Devices
  BY DemandAssumption
<1>2. /\ S \subseteq Blocks
      /\ O \subseteq Blocks
      /\ S \cap O = {}
      /\ S \cup O = UNION {Demand[q] : q \in Live(d)}
  BY <1>1, SpentFacts, OutstandingRest DEF BaseInv
<1>3. /\ \A q \in Live(d) : Demand[q] \subseteq counted[p]
      /\ sample[p] <= free[d] + Cardinality(S)
  BY DEF CountInv, Admit
<1>4. S \cup O \subseteq counted[p]
  BY <1>2, <1>3
<1>5. counted[p] \subseteq Blocks /\ Demand[p] \subseteq Blocks
  BY DemandAssumption DEF BaseInv, TypeOK
<1>6. /\ IsFiniteSet(S) /\ Cardinality(S) \in Nat
      /\ IsFiniteSet(O) /\ Cardinality(O) \in Nat
      /\ IsFiniteSet(Demand[p]) /\ Cardinality(Demand[p]) \in Nat
      /\ Cardinality(counted[p]) \in Nat
  BY <1>2, <1>5, BlocksFinite
<1>7. Cardinality(S) + Cardinality(O) <= Cardinality(counted[p])
  <2>1. Cardinality(S \cup O) = Cardinality(S) + Cardinality(O) - Cardinality(S \cap O)
    BY <1>6, FS_Union
  <2>2. Cardinality(S \cap O) = 0
    BY <1>2, FS_EmptySet
  <2>3. Cardinality(S \cup O) <= Cardinality(counted[p])
    BY <1>4, <1>5, BlocksMonotone
  <2>. QED
    BY <1>6, <2>1, <2>2, <2>3
<1>8. Cardinality(O \cup Demand[p]) <= Cardinality(O) + Cardinality(Demand[p])
  <2>1. Cardinality(O \cup Demand[p])
           = Cardinality(O) + Cardinality(Demand[p]) - Cardinality(O \cap Demand[p])
    BY <1>6, FS_Union
  <2>2. Cardinality(O \cap Demand[p]) \in Nat
    BY <1>2, BlocksFinite
  <2>. QED
    BY <1>6, <2>1, <2>2
<1>9. Cardinality(counted[p]) + Cardinality(Demand[p]) + Minimum <= sample[p]
  BY DEF Admit, Fits
<1>10. Cardinality(O \cup Demand[p]) \in Nat /\ free[d] \in Nat /\ sample[p] \in Nat /\ Minimum \in Nat
  BY <1>1, <1>2, <1>5, BlocksFinite, SizeAssumption DEF BaseInv, TypeOK
<1> HIDE DEF O, S, d
<1>11. Cardinality(O \cup Demand[p]) + Minimum <= free[d]
  BY <1>3, <1>6, <1>7, <1>8, <1>9, <1>10
<1>. QED
  BY <1>11 DEF O, d

(* An admission that works under the present lock does so alone.              *)
LEMMA OneAtATime ==
  ASSUME BaseInv, NEW p \in Procs, NEW q \in Procs,
         pc[p] \in Critical, pc[q] \in Critical, SameLock(p), SameLock(q)
  PROVE  p = q
  BY Zenon DEF BaseInv, LockInv, SameLock

(* No step makes a replaced lock the present one again.                       *)
LEMMA SameLockBefore ==
  ASSUME BaseInv, [Next]_vars, NEW p \in Procs,
         pc[p] # "idle", SameLock(p)'
  PROVE  SameLock(p) /\ lockFile' = lockFile /\ myLock'[p] = myLock[p]
<1>1. myLock'[p] = myLock[p] /\ lockFile' \in {lockFile, lockFile + 1}
  <2> USE DEF own, count, lock, records, Finish, ForgetCount
  <2>1. ASSUME NEW q \in Procs, Request(q) PROVE myLock'[p] = myLock[p] /\ lockFile' \in {lockFile, lockFile + 1}
    BY <2>1 DEF Request
  <2>2. ASSUME NEW q \in Procs, EnterLock(q) PROVE myLock'[p] = myLock[p] /\ lockFile' \in {lockFile, lockFile + 1}
    BY <2>2 DEF EnterLock
  <2>3. ASSUME NEW q \in Procs, LockWasReplaced(q) PROVE myLock'[p] = myLock[p] /\ lockFile' \in {lockFile, lockFile + 1}
    BY <2>3 DEF LockWasReplaced, Finish, ForgetCount
  <2>4. ASSUME NEW q \in Procs, Sample(q) PROVE myLock'[p] = myLock[p] /\ lockFile' \in {lockFile, lockFile + 1}
    BY <2>4 DEF Sample
  <2>5. ASSUME NEW q \in Procs, VisitRecord(q) PROVE myLock'[p] = myLock[p] /\ lockFile' \in {lockFile, lockFile + 1}
    BY <2>5 DEF VisitRecord, Visit
  <2>6. ASSUME NEW q \in Procs, VisitCorrupt(q) PROVE myLock'[p] = myLock[p] /\ lockFile' \in {lockFile, lockFile + 1}
    BY <2>6 DEF VisitCorrupt, Finish, ForgetCount, Unlocked
  <2>7. ASSUME NEW q \in Procs, Admit(q) PROVE myLock'[p] = myLock[p] /\ lockFile' \in {lockFile, lockFile + 1}
    BY <2>7 DEF Admit, ForgetCount
  <2>8. ASSUME NEW q \in Procs, Refuse(q) PROVE myLock'[p] = myLock[p] /\ lockFile' \in {lockFile, lockFile + 1}
    BY <2>8 DEF Refuse, Finish, ForgetCount, Unlocked
  <2>9. ASSUME NEW q \in Procs, CreateRecord(q) PROVE myLock'[p] = myLock[p] /\ lockFile' \in {lockFile, lockFile + 1}
    BY <2>9 DEF CreateRecord
  <2>10. ASSUME NEW q \in Procs, LockRecord(q) PROVE myLock'[p] = myLock[p] /\ lockFile' \in {lockFile, lockFile + 1}
    BY <2>10 DEF LockRecord
  <2>11. ASSUME NEW q \in Procs, RecordWasDeleted(q) PROVE myLock'[p] = myLock[p] /\ lockFile' \in {lockFile, lockFile + 1}
    BY <2>11 DEF RecordWasDeleted, Finish, ForgetCount, Unlocked
  <2>12. ASSUME NEW q \in Procs, WriteRecord(q) PROVE myLock'[p] = myLock[p] /\ lockFile' \in {lockFile, lockFile + 1}
    BY <2>12 DEF WriteRecord
  <2>13. ASSUME NEW q \in Procs, Keep(q) PROVE myLock'[p] = myLock[p] /\ lockFile' \in {lockFile, lockFile + 1}
    BY <2>13 DEF Keep, Unlocked
  <2>14. ASSUME NEW q \in Procs, Renounce(q) PROVE myLock'[p] = myLock[p] /\ lockFile' \in {lockFile, lockFile + 1}
    BY <2>14 DEF Renounce, Finish, ForgetCount, Unlocked, Dropped
  <2>15. ASSUME NEW q \in Procs, Materialize(q) PROVE myLock'[p] = myLock[p] /\ lockFile' \in {lockFile, lockFile + 1}
    BY <2>15 DEF Materialize
  <2>16. ASSUME NEW q \in Procs, Close(q) PROVE myLock'[p] = myLock[p] /\ lockFile' \in {lockFile, lockFile + 1}
    BY <2>16 DEF Close
  <2>17. ASSUME NEW q \in Procs, CloseAfterReplacement(q) PROVE myLock'[p] = myLock[p] /\ lockFile' \in {lockFile, lockFile + 1}
    BY <2>17 DEF CloseAfterReplacement, Finish, ForgetCount, Dropped
  <2>18. ASSUME NEW q \in Procs, RemoveRecord(q) PROVE myLock'[p] = myLock[p] /\ lockFile' \in {lockFile, lockFile + 1}
    BY <2>18 DEF RemoveRecord, Finish, ForgetCount, Dropped
  <2>19. ASSUME NEW q \in Procs, Crash(q) PROVE myLock'[p] = myLock[p] /\ lockFile' \in {lockFile, lockFile + 1}
    BY <2>19 DEF Crash, Finish, ForgetCount, Unlocked, Dropped
  <2>20. ASSUME ReplaceLock PROVE myLock'[p] = myLock[p] /\ lockFile' \in {lockFile, lockFile + 1}
    BY <2>20 DEF ReplaceLock
  <2>21. ASSUME NEW d \in Devices, Clean(d) PROVE myLock'[p] = myLock[p] /\ lockFile' \in {lockFile, lockFile + 1}
    BY <2>21 DEF Clean
  <2>22. ASSUME UNCHANGED vars PROVE myLock'[p] = myLock[p] /\ lockFile' \in {lockFile, lockFile + 1}
    BY <2>22 DEF vars
  <2>. QED
    BY <2>1, <2>2, <2>3, <2>4, <2>5, <2>6, <2>7, <2>8, <2>9, <2>10, <2>11, <2>12, <2>13, <2>14, <2>15, <2>16, <2>17, <2>18, <2>19, <2>20, <2>21, <2>22
    DEF Next, Enter, Proceed, Use
<1>2. myLock[p] <= lockFile /\ lockFile \in Nat /\ myLock[p] \in Nat
  BY SizeAssumption DEF BaseInv, LockInv, TypeOK
<1>. QED
  BY <1>1, <1>2 DEF SameLock

(* While an admission counts under the present lock, no live reservation      *)
(* comes or goes.                                                             *)
LEMMA LiveFrame ==
  ASSUME BaseInv, Next, Steady, NEW p \in Procs, pc[p] = "count", SameLock(p)
  PROVE  \A q \in Procs :
            /\ pc'[q] \in {"held", "closing"} <=> pc[q] \in {"held", "closing"}
            /\ pc[q] \in {"held", "closing"} => mine'[q] = mine[q]
<1> DEFINE Same(q) == /\ pc'[q] \in {"held", "closing"} <=> pc[q] \in {"held", "closing"}
                      /\ pc[q] \in {"held", "closing"} => mine'[q] = mine[q]
<1>0. /\ \A q \in Procs : pc[q] \in {"held", "closing"} => mine[q] \in Tokens /\ recLock[mine[q]] = q
      /\ \A t \in Tokens : recLock[t] # None => recLock'[t] = recLock[t]
      /\ \A q \in Procs : mine[q] # None /\ pc[q] \in {"held", "closing"} => recLock'[mine[q]] = q
  BY NoneAssumption DEF BaseInv, TypeOK, RecordInv, Recorded, Steady, SameLock
<1> USE NoneAssumption, <1>0 DEF TypeOK, BaseInv, own, count, lock, records, Finish, ForgetCount
<1>1. ASSUME NEW r \in Procs, Request(r) PROVE \A q \in Procs : Same(q)
  BY <1>1 DEF Request
<1>2. ASSUME NEW r \in Procs, EnterLock(r) PROVE \A q \in Procs : Same(q)
  BY <1>2 DEF EnterLock
<1>3. ASSUME NEW r \in Procs, LockWasReplaced(r) PROVE \A q \in Procs : Same(q)
  BY <1>3 DEF LockWasReplaced, Finish, ForgetCount
<1>4. ASSUME NEW r \in Procs, Sample(r) PROVE \A q \in Procs : Same(q)
  BY <1>4 DEF Sample
<1>5. ASSUME NEW r \in Procs, VisitRecord(r) PROVE \A q \in Procs : Same(q)
  BY <1>5 DEF VisitRecord, Visit
<1>6. ASSUME NEW r \in Procs, VisitCorrupt(r) PROVE \A q \in Procs : Same(q)
  BY <1>6 DEF VisitCorrupt, Finish, ForgetCount, Unlocked
<1>7. ASSUME NEW r \in Procs, Admit(r) PROVE \A q \in Procs : Same(q)
  BY <1>7 DEF Admit, ForgetCount
<1>8. ASSUME NEW r \in Procs, Refuse(r) PROVE \A q \in Procs : Same(q)
  BY <1>8 DEF Refuse, Finish, ForgetCount, Unlocked
<1>9. ASSUME NEW r \in Procs, CreateRecord(r) PROVE \A q \in Procs : Same(q)
  BY <1>9 DEF CreateRecord
<1>10. ASSUME NEW r \in Procs, LockRecord(r) PROVE \A q \in Procs : Same(q)
  BY <1>10 DEF LockRecord
<1>11. ASSUME NEW r \in Procs, RecordWasDeleted(r) PROVE \A q \in Procs : Same(q)
  BY <1>11 DEF RecordWasDeleted, Finish, ForgetCount, Unlocked
<1>12. ASSUME NEW r \in Procs, WriteRecord(r) PROVE \A q \in Procs : Same(q)
  BY <1>12 DEF WriteRecord
<1>13. ASSUME NEW r \in Procs, Keep(r) PROVE \A q \in Procs : Same(q)
  <2>1. SameLock(r) /\ pc[r] = "verify"
    BY <1>13 DEF Keep
  <2>2. r = p
    BY <2>1, OneAtATime DEF Critical
  <2>. QED
    BY <2>1, <2>2
<1>14. ASSUME NEW r \in Procs, Renounce(r) PROVE \A q \in Procs : Same(q)
  BY <1>14 DEF Renounce, Finish, ForgetCount, Unlocked, Dropped
<1>15. ASSUME NEW r \in Procs, Materialize(r) PROVE \A q \in Procs : Same(q)
  BY <1>15 DEF Materialize
<1>16. ASSUME NEW r \in Procs, Close(r) PROVE \A q \in Procs : Same(q)
  BY <1>16 DEF Close
<1>17. ASSUME NEW r \in Procs, CloseAfterReplacement(r) PROVE \A q \in Procs : Same(q)
  <2>1. pc[r] \notin {"held", "closing"}
    BY <1>17 DEF CloseAfterReplacement, Dropped
  <2>. QED
    BY <1>17, <2>1 DEF CloseAfterReplacement
<1>18. ASSUME NEW r \in Procs, RemoveRecord(r) PROVE \A q \in Procs : Same(q)
  <2>1. pc[r] \notin {"held", "closing"}
    BY <1>18 DEF RemoveRecord, Dropped
  <2>. QED
    BY <1>18, <2>1 DEF RemoveRecord
<1>19. ASSUME NEW r \in Procs, Crash(r) PROVE \A q \in Procs : Same(q)
  <2>1. pc[r] \notin {"held", "closing"}
    BY <1>19 DEF Crash, Dropped
  <2>. QED
    BY <1>19, <2>1 DEF Crash
<1>20. ASSUME ReplaceLock PROVE \A q \in Procs : Same(q)
  BY <1>20 DEF ReplaceLock
<1>21. ASSUME NEW d \in Devices, Clean(d) PROVE \A q \in Procs : Same(q)
  BY <1>21 DEF Clean
<1>23. \A q \in Procs : Same(q)
  BY <1>1, <1>2, <1>3, <1>4, <1>5, <1>6, <1>7, <1>8, <1>9, <1>10, <1>11, <1>12, <1>13, <1>14, <1>15, <1>16, <1>17, <1>18, <1>19, <1>20, <1>21 DEF Next, Enter, Proceed, Use
<1>. QED
  BY <1>23

(* The list and the sum of an admission change only while it visits.          *)
LEMMA TodoFrame ==
  ASSUME TypeOK, Next, NEW p \in Procs, pc'[p] = "count"
  PROVE  \/ Sample(p)
         \/ /\ pc[p] = "count"
            /\ sample'[p] = sample[p]
            /\ \/ VisitRecord(p)
               \/ todo'[p] = todo[p] /\ counted'[p] = counted[p]
<1> DEFINE Goal == \/ Sample(p)
                   \/ /\ pc[p] = "count"
                      /\ sample'[p] = sample[p]
                      /\ \/ VisitRecord(p)
                         \/ todo'[p] = todo[p] /\ counted'[p] = counted[p]
<1> USE DEF TypeOK, own, count, lock, records, Finish, ForgetCount
<1>1. ASSUME NEW r \in Procs, Request(r) PROVE Goal
  BY <1>1 DEF Request
<1>2. ASSUME NEW r \in Procs, EnterLock(r) PROVE Goal
  BY <1>2 DEF EnterLock
<1>3. ASSUME NEW r \in Procs, LockWasReplaced(r) PROVE Goal
  BY <1>3 DEF LockWasReplaced, Finish, ForgetCount
<1>4. ASSUME NEW r \in Procs, Sample(r) PROVE Goal
  BY <1>4 DEF Sample
<1>5. ASSUME NEW r \in Procs, VisitRecord(r) PROVE Goal
  <2>1. pc' = pc /\ sample' = sample
    BY <1>5 DEF VisitRecord
  <2>2. PICK t \in Tokens : Visit(r, t)
    BY <1>5 DEF VisitRecord
  <2>3. r # p => todo'[p] = todo[p] /\ counted'[p] = counted[p]
    BY <2>2 DEF Visit
  <2>. QED
    BY <1>5, <2>1, <2>3
<1>6. ASSUME NEW r \in Procs, VisitCorrupt(r) PROVE Goal
  BY <1>6 DEF VisitCorrupt, Finish, ForgetCount, Unlocked
<1>7. ASSUME NEW r \in Procs, Admit(r) PROVE Goal
  BY <1>7 DEF Admit, ForgetCount
<1>8. ASSUME NEW r \in Procs, Refuse(r) PROVE Goal
  BY <1>8 DEF Refuse, Finish, ForgetCount, Unlocked
<1>9. ASSUME NEW r \in Procs, CreateRecord(r) PROVE Goal
  BY <1>9 DEF CreateRecord
<1>10. ASSUME NEW r \in Procs, LockRecord(r) PROVE Goal
  BY <1>10 DEF LockRecord
<1>11. ASSUME NEW r \in Procs, RecordWasDeleted(r) PROVE Goal
  BY <1>11 DEF RecordWasDeleted, Finish, ForgetCount, Unlocked
<1>12. ASSUME NEW r \in Procs, WriteRecord(r) PROVE Goal
  BY <1>12 DEF WriteRecord
<1>13. ASSUME NEW r \in Procs, Keep(r) PROVE Goal
  BY <1>13 DEF Keep, Unlocked
<1>14. ASSUME NEW r \in Procs, Renounce(r) PROVE Goal
  BY <1>14 DEF Renounce, Finish, ForgetCount, Unlocked, Dropped
<1>15. ASSUME NEW r \in Procs, Materialize(r) PROVE Goal
  BY <1>15 DEF Materialize
<1>16. ASSUME NEW r \in Procs, Close(r) PROVE Goal
  BY <1>16 DEF Close
<1>17. ASSUME NEW r \in Procs, CloseAfterReplacement(r) PROVE Goal
  BY <1>17 DEF CloseAfterReplacement, Finish, ForgetCount, Dropped
<1>18. ASSUME NEW r \in Procs, RemoveRecord(r) PROVE Goal
  BY <1>18 DEF RemoveRecord, Finish, ForgetCount, Dropped
<1>19. ASSUME NEW r \in Procs, Crash(r) PROVE Goal
  BY <1>19 DEF Crash, Finish, ForgetCount, Unlocked, Dropped
<1>20. ASSUME ReplaceLock PROVE Goal
  BY <1>20 DEF ReplaceLock
<1>21. ASSUME NEW d \in Devices, Clean(d) PROVE Goal
  BY <1>21 DEF Clean
<1>23. Goal
  BY <1>1, <1>2, <1>3, <1>4, <1>5, <1>6, <1>7, <1>8, <1>9, <1>10, <1>11, <1>12, <1>13, <1>14, <1>15, <1>16, <1>17, <1>18, <1>19, <1>20, <1>21 DEF Next, Enter, Proceed, Use
<1>. QED
  BY <1>23

(* Between the sample and the decision, what the filesystem lost is what live *)
(* reservations wrote.                                                        *)
LEMMA SpentFrame ==
  ASSUME BaseInv, Next, Steady, NEW p \in Procs, pc[p] = "count", SameLock(p),
         NEW d \in Devices
  PROVE  /\ Live(d)' = Live(d)
         /\ free[d] + Cardinality(Spent(d)) <= free'[d] + Cardinality(Spent(d)')
<1>1. Live(d)' = Live(d)
  BY LiveFrame DEF Live
<1>2. BaseInv'
  BY TypeNext, LockNext, RecordNext, RestNext DEF BaseInv
<1>3. Spent(d)' = UNION {Demand[q] \ rest'[q] : q \in Live(d)}
  BY <1>1 DEF Spent
<1>4. \A q \in Live(d) : q \in Procs /\ Demand[q] \subseteq Blocks
  BY DemandAssumption DEF Live
<1>5. Spent(d) \subseteq Blocks /\ Spent(d)' \subseteq Blocks
  BY <1>3, <1>4 DEF Spent
<1>6. /\ IsFiniteSet(Spent(d)) /\ Cardinality(Spent(d)) \in Nat
      /\ IsFiniteSet(Spent(d)') /\ Cardinality(Spent(d)') \in Nat
      /\ free[d] \in Nat /\ free'[d] \in Nat
  BY <1>2, <1>5, BlocksFinite DEF BaseInv, TypeOK
<1>7. ASSUME NEW r \in Procs, Materialize(r)
      PROVE  free[d] + Cardinality(Spent(d)) <= free'[d] + Cardinality(Spent(d)')
  <2>1. PICK b \in rest[r] :
           /\ rest' = [rest EXCEPT ![r] = rest[r] \ {b}]
           /\ free' = [free EXCEPT ![Device[r]] = free[Device[r]] - 1]
    BY <1>7, MaterializeStep
  <2>2. \A q \in Procs : rest'[q] = IF q = r THEN rest[r] \ {b} ELSE rest[q]
    BY <2>1 DEF BaseInv, TypeOK
  <2>3. CASE d = Device[r]
    <3>1. r \in Live(d) /\ b \in Demand[r]
      BY <1>7, <2>1, <2>3 DEF Materialize, Live, BaseInv, RestInv
    <3>2. \A q \in Live(d) : q # r => b \notin Demand[q]
      BY <1>4, <3>1, DemandAssumption
    <3>3. Spent(d)' = Spent(d) \cup {b} /\ b \notin Spent(d)
      BY <1>3, <1>4, <2>1, <2>2, <3>1, <3>2 DEF Spent
    <3>4. Cardinality(Spent(d)') = Cardinality(Spent(d)) + 1
      BY <1>6, <3>3, FS_AddElement
    <3>5. free'[d] = free[d] - 1
      BY <2>1, <2>3 DEF BaseInv, TypeOK
    <3>. QED
      BY <1>6, <3>4, <3>5
  <2>4. CASE d # Device[r]
    <3>1. free'[d] = free[d]
      BY <2>1, <2>4
    <3>2. \A q \in Live(d) : rest'[q] = rest[q]
      BY <1>4, <2>2, <2>4 DEF Live
    <3>3. Spent(d)' = Spent(d)
      BY <1>3, <3>2 DEF Spent
    <3>. QED
      BY <1>6, <3>1, <3>3
  <2>. QED
    BY <2>3, <2>4
<1>8. ASSUME \A r \in Procs : ~Materialize(r)
      PROVE  free[d] + Cardinality(Spent(d)) <= free'[d] + Cardinality(Spent(d)')
  <2>1. \A r \in Procs : ~Keep(r)
    <3> SUFFICES ASSUME NEW r \in Procs, Keep(r) PROVE FALSE
      OBVIOUS
    <3>1. r = p
      BY OneAtATime DEF Keep, Critical
    <3>. QED
      BY <3>1 DEF Keep
  <2>2. \A q \in Procs : rest'[q] \subseteq rest[q]
    BY <2>1, RestFrame DEF BaseInv
  <2>3. Spent(d) \subseteq Spent(d)'
    BY <1>3, <1>4, <2>2 DEF Spent
  <2>4. Cardinality(Spent(d)) <= Cardinality(Spent(d)')
    BY <1>5, <2>3, BlocksMonotone
  <2>5. free'[d] >= free[d]
    BY <1>8, FreeFrame DEF BaseInv
  <2>. QED
    BY <1>6, <2>4, <2>5
<1>. QED
  BY <1>1, <1>7, <1>8

(* Every step keeps the sum of an admission in progress on the safe side, if  *)
(* no owner goes away meanwhile.                                              *)
LEMMA CountNext == BaseInv /\ CountInv /\ [Next /\ Steady]_vars => CountInv'
<1> SUFFICES ASSUME BaseInv, CountInv, [Next /\ Steady]_vars PROVE CountInv'
  OBVIOUS
<1>1. CASE UNCHANGED vars
  BY <1>1 DEF vars, own, count, lock, records, CountInv, SameLock, Live, Spent
<1>2. CASE Next /\ Steady
  <2> SUFFICES ASSUME NEW p \in Procs, pc'[p] = "count", SameLock(p)'
               PROVE  /\ \A q \in Live(Device[p])' :
                            mine'[q] \in todo'[p] \/ Demand[q] \subseteq counted'[p]
                      /\ sample'[p] <= free'[Device[p]] + Cardinality(Spent(Device[p])')
    BY DEF CountInv
  <2> DEFINE d == Device[p]
  <2>1. d \in Devices
    BY DemandAssumption
  <2>2. CASE Sample(p)
    <3>1. /\ pc' = [pc EXCEPT ![p] = "count"] /\ pc[p] = "sample"
          /\ mine' = mine /\ rest' = rest /\ free' = free
          /\ todo'[p] = files /\ sample'[p] = free[d]
      BY <2>2 DEF Sample, BaseInv, TypeOK, lock, records
    <3>2. Live(d)' = Live(d)
      BY <3>1 DEF Live, BaseInv, TypeOK
    <3>3. \A q \in Live(d) : mine[q] \in files
      BY DEF Live, BaseInv, RecordInv, Recorded
    <3>4. Spent(d)' = Spent(d)
      BY <3>1, <3>2 DEF Spent
    <3>5. Cardinality(Spent(d)) \in Nat /\ free[d] \in Nat
      BY <2>1, SpentFacts, BlocksFinite DEF BaseInv, TypeOK
    <3>. QED
      BY <3>1, <3>2, <3>3, <3>4, <3>5
  <2>3. CASE ~Sample(p)
    <3>1. /\ pc[p] = "count"
          /\ sample'[p] = sample[p]
          /\ VisitRecord(p) \/ (todo'[p] = todo[p] /\ counted'[p] = counted[p])
      BY <1>2, <2>3, TodoFrame DEF BaseInv
    <3>2. SameLock(p)
      BY <1>2, <3>1, SameLockBefore
    <3>3. /\ Live(d)' = Live(d)
          /\ free[d] + Cardinality(Spent(d)) <= free'[d] + Cardinality(Spent(d)')
      BY <1>2, <2>1, <3>1, <3>2, SpentFrame
    <3>4. \A q \in Live(d) : q \in Procs /\ Device[q] = d /\ mine'[q] = mine[q]
      BY <1>2, <3>1, <3>2, LiveFrame DEF Live
    <3>5. /\ \A q \in Live(d) : mine[q] \in todo[p] \/ Demand[q] \subseteq counted[p]
          /\ sample[p] <= free[d] + Cardinality(Spent(d))
      BY <3>1, <3>2 DEF CountInv
    <3>6. ASSUME NEW q \in Live(d)
          PROVE  mine[q] \in todo'[p] \/ Demand[q] \subseteq counted'[p]
      <4>1. CASE VisitRecord(p)
        <5>1. PICK t \in Tokens : Visit(p, t)
          BY <4>1 DEF VisitRecord
        <5>2. todo'[p] = todo[p] \ {t} /\ counted[p] \subseteq counted'[p]
          BY <5>1 DEF Visit, BaseInv, TypeOK
        <5>3. CASE mine[q] = t
          <6>1. t \in files /\ recLock[t] = q
            BY <5>3 DEF Live, BaseInv, RecordInv, Recorded
          <6>2. counted'[p] = counted[p] \cup Demand[q]
            BY <3>4, <5>1, <6>1, NoneAssumption DEF Visit, BaseInv, TypeOK
          <6>. QED
            BY <6>2
        <5>. QED
          BY <3>5, <5>2, <5>3
      <4>2. CASE todo'[p] = todo[p] /\ counted'[p] = counted[p]
        BY <3>5, <4>2
      <4>. QED
        BY <3>1, <4>1, <4>2
    <3>7. sample'[p] <= free'[d] + Cardinality(Spent(d)')
      <4>1. BaseInv'
        BY <1>2, TypeNext, LockNext, RecordNext, RestNext DEF BaseInv
      <4>2. Spent(d)' \subseteq Blocks
        BY <3>3, <3>4, DemandAssumption DEF Spent
      <4>3. Cardinality(Spent(d)') \in Nat /\ Cardinality(Spent(d)) \in Nat
        BY <2>1, <4>2, SpentFacts, BlocksFinite
      <4>. QED
        BY SMT, <2>1, <3>1, <3>3, <3>5, <4>1, <4>3 DEF BaseInv, TypeOK
    <3>. QED
      BY <3>3, <3>4, <3>6, <3>7
  <2>. QED
    BY <2>2, <2>3
<1>. QED
  BY <1>1, <1>2

(* Only Admit brings an admission to the point where it creates its record.   *)
LEMMA DecidedFrame ==
  ASSUME TypeOK, Next, NEW p \in Procs,
         pc'[p] \in {"create", "stamp", "write", "verify"}
  PROVE  Admit(p) \/ pc[p] \in {"create", "stamp", "write", "verify"}
<1> DEFINE Goal == Admit(p) \/ pc[p] \in {"create", "stamp", "write", "verify"}
<1> USE DEF TypeOK, own, count, lock, records, Finish, ForgetCount
<1>1. ASSUME NEW r \in Procs, Request(r) PROVE Goal
  BY <1>1 DEF Request
<1>2. ASSUME NEW r \in Procs, EnterLock(r) PROVE Goal
  BY <1>2 DEF EnterLock
<1>3. ASSUME NEW r \in Procs, LockWasReplaced(r) PROVE Goal
  BY <1>3 DEF LockWasReplaced, Finish, ForgetCount
<1>4. ASSUME NEW r \in Procs, Sample(r) PROVE Goal
  BY <1>4 DEF Sample
<1>5. ASSUME NEW r \in Procs, VisitRecord(r) PROVE Goal
  BY <1>5 DEF VisitRecord, Visit
<1>6. ASSUME NEW r \in Procs, VisitCorrupt(r) PROVE Goal
  BY <1>6 DEF VisitCorrupt, Finish, ForgetCount, Unlocked
<1>7. ASSUME NEW r \in Procs, Admit(r) PROVE Goal
  BY <1>7 DEF Admit, ForgetCount
<1>8. ASSUME NEW r \in Procs, Refuse(r) PROVE Goal
  BY <1>8 DEF Refuse, Finish, ForgetCount, Unlocked
<1>9. ASSUME NEW r \in Procs, CreateRecord(r) PROVE Goal
  BY <1>9 DEF CreateRecord
<1>10. ASSUME NEW r \in Procs, LockRecord(r) PROVE Goal
  BY <1>10 DEF LockRecord
<1>11. ASSUME NEW r \in Procs, RecordWasDeleted(r) PROVE Goal
  BY <1>11 DEF RecordWasDeleted, Finish, ForgetCount, Unlocked
<1>12. ASSUME NEW r \in Procs, WriteRecord(r) PROVE Goal
  BY <1>12 DEF WriteRecord
<1>13. ASSUME NEW r \in Procs, Keep(r) PROVE Goal
  BY <1>13 DEF Keep, Unlocked
<1>14. ASSUME NEW r \in Procs, Renounce(r) PROVE Goal
  BY <1>14 DEF Renounce, Finish, ForgetCount, Unlocked, Dropped
<1>15. ASSUME NEW r \in Procs, Materialize(r) PROVE Goal
  BY <1>15 DEF Materialize
<1>16. ASSUME NEW r \in Procs, Close(r) PROVE Goal
  BY <1>16 DEF Close
<1>17. ASSUME NEW r \in Procs, CloseAfterReplacement(r) PROVE Goal
  BY <1>17 DEF CloseAfterReplacement, Finish, ForgetCount, Dropped
<1>18. ASSUME NEW r \in Procs, RemoveRecord(r) PROVE Goal
  BY <1>18 DEF RemoveRecord, Finish, ForgetCount, Dropped
<1>19. ASSUME NEW r \in Procs, Crash(r) PROVE Goal
  BY <1>19 DEF Crash, Finish, ForgetCount, Unlocked, Dropped
<1>20. ASSUME ReplaceLock PROVE Goal
  BY <1>20 DEF ReplaceLock
<1>21. ASSUME NEW d \in Devices, Clean(d) PROVE Goal
  BY <1>21 DEF Clean
<1>23. Goal
  BY <1>1, <1>2, <1>3, <1>4, <1>5, <1>6, <1>7, <1>8, <1>9, <1>10, <1>11, <1>12, <1>13, <1>14, <1>15, <1>16, <1>17, <1>18, <1>19, <1>20, <1>21 DEF Next, Enter, Proceed, Use
<1>. QED
  BY <1>23

(* Every step keeps what a decided admission counts on.                       *)
LEMMA PromiseNext == BaseInv /\ CountInv /\ PromiseInv /\ [Next]_vars => PromiseInv'
<1> SUFFICES ASSUME BaseInv, CountInv, PromiseInv, [Next]_vars PROVE PromiseInv'
  OBVIOUS
<1>1. CASE UNCHANGED vars
  BY <1>1 DEF vars, own, count, lock, records, PromiseInv, SameLock, Outstanding, Live
<1>2. CASE Next
  <2> SUFFICES ASSUME NEW p \in Procs,
                      pc'[p] \in {"create", "stamp", "write", "verify"}, SameLock(p)'
               PROVE  Cardinality(Outstanding(Device[p])' \cup Demand[p]) + Minimum
                         <= free'[Device[p]]
    BY DEF PromiseInv
  <2> DEFINE d == Device[p]
  <2>1. d \in Devices /\ Demand[p] \subseteq Blocks /\ Minimum \in Nat
    BY DemandAssumption, SizeAssumption
  <2>2. Admit(p) \/ pc[p] \in {"create", "stamp", "write", "verify"}
    BY <1>2, DecidedFrame DEF BaseInv
  <2>3. pc[p] # "idle"
    BY <2>2 DEF Admit
  <2>4. SameLock(p)
    BY <2>3, SameLockBefore
  <2>5. Cardinality(Outstanding(d) \cup Demand[p]) + Minimum <= free[d]
    BY <2>2, <2>4, AdmitPromise DEF PromiseInv
  <2>6. Outstanding(d) \subseteq Blocks
    BY <2>1, OutstandingRest DEF BaseInv
  <2>7. BaseInv'
    BY TypeNext, LockNext, RecordNext, RestNext DEF BaseInv
  <2>8. free[d] \in Nat /\ free'[d] \in Nat
    BY <2>1, <2>7 DEF BaseInv, TypeOK
  <2>9. CASE \E r \in Procs : Materialize(r)
    <3>1. PICK r \in Procs : Materialize(r)
      BY <2>9
    <3>2. PICK b \in rest[r] :
             /\ free' = [free EXCEPT ![Device[r]] = free[Device[r]] - 1]
             /\ \A e \in Devices : Outstanding(e)' =
                   IF e = Device[r] THEN Outstanding(e) \ {b} ELSE Outstanding(e)
             /\ pc' = pc
      BY <3>1, MaterializeStep
    <3>3. CASE Device[r] = d
      <4>1. r # p /\ r \in Live(d)
        BY <2>2, <3>1, <3>3 DEF Materialize, Live, Admit
      <4>2. b \in Outstanding(d)
        BY <4>1 DEF Outstanding
      <4>3. b \notin Demand[p]
        BY <4>1, DemandAssumption DEF BaseInv, RestInv
      <4>4. Outstanding(d)' \cup Demand[p] = (Outstanding(d) \cup Demand[p]) \ {b}
        BY <2>1, <3>2, <3>3, <4>2, <4>3
      <4>5. Outstanding(d) \cup Demand[p] \subseteq Blocks
        BY <2>1, <2>6
      <4>6. /\ IsFiniteSet(Outstanding(d) \cup Demand[p])
            /\ Cardinality(Outstanding(d) \cup Demand[p]) \in Nat
        BY <4>5, BlocksFinite
      <4>7. Cardinality(Outstanding(d)' \cup Demand[p])
               = Cardinality(Outstanding(d) \cup Demand[p]) - 1
        BY <4>2, <4>4, <4>6, FS_RemoveElement
      <4>8. free'[d] = free[d] - 1
        BY <2>1, <3>2, <3>3 DEF BaseInv, TypeOK
      <4>. QED
        BY <2>1, <2>5, <2>8, <4>6, <4>7, <4>8
    <3>4. CASE Device[r] # d
      <4>1. Outstanding(d)' = Outstanding(d)
        BY <2>1, <3>2, <3>4
      <4>2. free'[d] = free[d]
        BY <3>2, <3>4
      <4>. QED
        BY <2>5, <4>1, <4>2
    <3>. QED
      BY <3>3, <3>4
  <2>10. CASE \A r \in Procs : ~Materialize(r)
    <3>1. \A r \in Procs : ~Keep(r)
      <4> SUFFICES ASSUME NEW r \in Procs, Keep(r) PROVE FALSE
        OBVIOUS
      <4>1. pc[p] \in Critical
        BY <2>2 DEF Admit, Critical
      <4>2. pc[r] \in Critical /\ SameLock(r) /\ pc'[r] = "held"
        BY DEF Keep, Critical, BaseInv, TypeOK
      <4>3. r = p
        BY <2>4, <4>1, <4>2, OneAtATime
      <4>. QED
        BY <4>2, <4>3
    <3>2. Outstanding(d)' \subseteq Outstanding(d)
      BY <1>2, <2>1, <3>1, OutstandingFrame
    <3>3. free'[d] >= free[d]
      BY <1>2, <2>1, <2>10, FreeFrame DEF BaseInv
    <3>4. /\ Outstanding(d) \cup Demand[p] \in SUBSET Blocks
          /\ Outstanding(d)' \cup Demand[p] \in SUBSET (Outstanding(d) \cup Demand[p])
      BY <2>1, <2>6, <3>2
    <3>5. /\ Cardinality(Outstanding(d)' \cup Demand[p])
                <= Cardinality(Outstanding(d) \cup Demand[p])
          /\ Cardinality(Outstanding(d) \cup Demand[p]) \in Nat
          /\ Cardinality(Outstanding(d)' \cup Demand[p]) \in Nat
      BY <3>4, BlocksMonotone, BlocksFinite
    <3>. QED
      BY <2>1, <2>5, <2>8, <3>3, <3>5
  <2>. QED
    BY <2>9, <2>10
<1>. QED
  BY <1>1, <1>2

(* What has been promised still fits after every step.                        *)
LEMMA NoOvercommitNext ==
  BaseInv /\ PromiseInv /\ NoOvercommit /\ [Next]_vars => NoOvercommit'
<1> SUFFICES ASSUME BaseInv, PromiseInv, NoOvercommit, [Next]_vars,
                    NEW d \in Devices, Outstanding(d)' # {}
             PROVE  Cardinality(Outstanding(d)') + Minimum <= free'[d]
  BY DEF NoOvercommit
<1>1. BaseInv'
  BY TypeNext, LockNext, RecordNext, RestNext DEF BaseInv
<1>2. /\ Outstanding(d) \subseteq Blocks
      /\ Minimum \in Nat /\ free[d] \in Nat /\ free'[d] \in Nat
  BY <1>1, OutstandingRest, SizeAssumption DEF BaseInv, TypeOK
<1>3. ASSUME NEW p \in Procs, Materialize(p)
      PROVE  Cardinality(Outstanding(d)') + Minimum <= free'[d]
  <2>1. PICK b \in rest[p] :
           /\ free' = [free EXCEPT ![Device[p]] = free[Device[p]] - 1]
           /\ \A e \in Devices : Outstanding(e)' =
                 IF e = Device[p] THEN Outstanding(e) \ {b} ELSE Outstanding(e)
    BY <1>3, MaterializeStep
  <2>2. CASE Device[p] = d
    <3>1. b \in Outstanding(d)
      BY <1>3, <2>1, <2>2 DEF Outstanding, Live, Materialize
    <3>2. IsFiniteSet(Outstanding(d)) /\ Cardinality(Outstanding(d)) \in Nat
      BY <1>2, BlocksFinite
    <3>3. Cardinality(Outstanding(d)') = Cardinality(Outstanding(d)) - 1
      BY <2>1, <2>2, <3>1, <3>2, FS_RemoveElement
    <3>4. free'[d] = free[d] - 1
      BY <2>1, <2>2 DEF BaseInv, TypeOK
    <3>. QED
      BY <1>2, <3>1, <3>2, <3>3, <3>4 DEF NoOvercommit
  <2>3. CASE Device[p] # d
    BY <2>1, <2>3 DEF NoOvercommit
  <2>. QED
    BY <2>2, <2>3
<1>4. ASSUME NEW p \in Procs, Keep(p)
      PROVE  Cardinality(Outstanding(d)') + Minimum <= free'[d]
  <2>1. /\ pc[p] = "verify" /\ SameLock(p) /\ free' = free
        /\ \A q \in Procs : pc'[q] = IF q = p THEN "held" ELSE pc[q]
        /\ \A q \in Procs : rest'[q] = IF q = p THEN Demand[p] ELSE rest[q]
    BY <1>4 DEF Keep, BaseInv, TypeOK
  <2>2. \A q \in Procs : q \in Live(d)' <=> q \in Live(d) \/ (q = p /\ Device[p] = d)
    BY <2>1 DEF Live
  <2>3. p \notin Live(d)
    BY <2>1 DEF Live
  <2>4. CASE Device[p] = d
    <3>1. Outstanding(d)' = Outstanding(d) \cup Demand[p]
      BY <2>1, <2>2, <2>3, <2>4 DEF Outstanding, Live
    <3>. QED
      BY <2>1, <2>4, <3>1 DEF PromiseInv
  <2>5. CASE Device[p] # d
    <3>1. Outstanding(d)' = Outstanding(d)
      BY <2>1, <2>2, <2>3, <2>5 DEF Outstanding, Live
    <3>. QED
      BY <2>1, <3>1 DEF NoOvercommit
  <2>. QED
    BY <2>4, <2>5
<1>5. ASSUME \A p \in Procs : ~Materialize(p), \A p \in Procs : ~Keep(p)
      PROVE  Cardinality(Outstanding(d)') + Minimum <= free'[d]
  <2>1. Outstanding(d)' \subseteq Outstanding(d)
    BY <1>5, OutstandingFrame
  <2>2. free'[d] >= free[d]
    BY <1>5, FreeFrame DEF BaseInv
  <2>3. /\ Cardinality(Outstanding(d)') <= Cardinality(Outstanding(d))
        /\ Cardinality(Outstanding(d)) \in Nat /\ Cardinality(Outstanding(d)') \in Nat
    BY <1>2, <2>1, BlocksMonotone, BlocksFinite
  <2>4. Outstanding(d) # {}
    BY <2>1
  <2>. QED
    BY <1>2, <2>2, <2>3, <2>4 DEF NoOvercommit
<1>. QED
  BY <1>3, <1>4, <1>5

(* As long as no owner of a live record goes away while an admission adds up  *)
(* the records, files, locks and sums agree in every reachable state.         *)
THEOREM SteadyConsistent == SteadySpec => []IInv
<1>1. Init => IInv
  <2>1. Init => BaseInv
    BY BaseInit
  <2>2. Init => CountInv /\ PromiseInv
    BY DEF Init, CountInv, PromiseInv
  <2>3. Init => NoOvercommit
    BY DEF Init, NoOvercommit, Outstanding, Live
  <2>. QED
    BY <2>1, <2>2, <2>3 DEF IInv
<1>2. IInv /\ [Next /\ Steady]_vars => IInv'
  <2>1. [Next /\ Steady]_vars => [Next]_vars
    OBVIOUS
  <2>2. BaseInv /\ [Next]_vars => BaseInv'
    BY TypeNext, LockNext, RecordNext, RestNext DEF BaseInv
  <2>. QED
    BY <2>1, <2>2, CountNext, PromiseNext, NoOvercommitNext DEF IInv
<1>. QED
  BY <1>1, <1>2, PTL DEF SteadySpec

(* Then what was reserved and not yet written always fits, and leaves the     *)
(* minimum free, for any number of contexts and any demands.                  *)
THEOREM NothingPromisedTwice == SteadySpec => []NoOvercommit
<1>1. IInv => NoOvercommit
  BY DEF IInv
<1>. QED
  BY <1>1, SteadyConsistent, PTL
=============================================================================
