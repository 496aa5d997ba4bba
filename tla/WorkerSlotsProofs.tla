-------------------------- MODULE WorkerSlotsProofs --------------------------
(* Proofs about the worker-slot allocator, for any number of callers, slots   *)
(* and tickets.  IInv is shown inductive conjunct by conjunct; the safety     *)
(* invariants and action properties follow from it, and with them every step  *)
(* is one of AdmissionQueue, or invisible there.                              *)
EXTENDS WorkerSlots, FiniteSetTheorems, TLAPS

(* The initial state is well typed. *)
LEMMA TypeInit == Init => TypeOK
  BY LimitAssumption, NamesAssumption
  DEF Init, TypeOK, Steps, Results, Slots

(* What the helpers return is of the type of the variable they are assigned   *)
(* to.                                                                        *)
LEMMA HelperTypes ==
  ASSUME TypeOK
  PROVE  /\ Hinted \in [Procs -> {"off", "quiet", "hinted"}]
         /\ Reclaimed \subseteq files
         /\ \A kept : Order(kept) \in [Tickets -> SUBSET Tickets]
         /\ \A p : DropSlots(p) \in [Slots -> Procs \cup {Collector, None}]
         /\ \A p : DropTicket(p) \in [Tickets -> Procs \cup {Collector, None}]
  BY DEF TypeOK, Hinted, Reclaimed, Order, DropSlots, DropTicket

(* A refusal or a wait leaves the call's place and result well typed. *)
LEMMA ParkType ==
  ASSUME TypeOK, NEW p \in Procs, NEW where \in Parked, Park(p, where)
  PROVE  pc' \in [Procs -> Steps] /\ result' \in [Procs -> Results]
  BY DEF TypeOK, Park, Fail, Parked, Steps, Results

(* Check and Park move one caller, to one of these places, and change nothing *)
(* but its result.                                                            *)
LEMMA ParkMoves ==
  ASSUME NEW p \in Procs, NEW where \in Parked, Park(p, where)
  PROVE  /\ \E x \in Parked \cup {"cleanup"} : pc' = [pc EXCEPT ![p] = x]
         /\ \E r : result' = [result EXCEPT ![p] = r] \/ result' = result
  BY DEF Park, Fail, Parked

(* The top of the loop moves one caller and changes nothing but its result. *)
LEMMA CheckMoves ==
  ASSUME NEW p \in Procs, Check(p)
  PROVE  /\ \E x \in {"cleanup", "enqueue", "attempt"} : pc' = [pc EXCEPT ![p] = x]
         /\ \E r : result' = [result EXCEPT ![p] = r] \/ result' = result
  BY DEF Check, Fail

(* Every step keeps the types. *)
LEMMA TypeNext == TypeOK /\ [Next]_vars => TypeOK'
<1> SUFFICES ASSUME TypeOK, [Next]_vars PROVE TypeOK'
  OBVIOUS
<1> USE LimitAssumption, NamesAssumption
        DEF TypeOK, Steps, Results, Slots, Parked, call, env, queue, probe, root
<1>1. ASSUME NEW p \in Procs, Check(p) PROVE TypeOK'
  BY <1>1 DEF Check, Fail
<1>2. ASSUME NEW p \in Procs, Contended(p) PROVE TypeOK'
  BY <1>2, ParkType DEF Contended
<1>3. ASSUME NEW p \in Procs, RefusedEntry(p) PROVE TypeOK'
  BY <1>3 DEF RefusedEntry, Fail
<1>4. ASSUME NEW p \in Procs, CreateTicket(p) PROVE TypeOK'
<2>1. PICK t \in Tickets : /\ files' = Reclaimed \cup {t}
                           /\ mine' = [mine EXCEPT ![p] = t]
                           /\ older' = [Order(Reclaimed) EXCEPT ![t] = Reclaimed]
  BY <1>4 DEF CreateTicket
<2>2. older' \in [Tickets -> SUBSET Tickets]
  BY <2>1, HelperTypes
<2>. QED
  BY <1>4, <2>1, <2>2, HelperTypes DEF CreateTicket
<1>5. ASSUME NEW p \in Procs, LockTicket(p) PROVE TypeOK'
<2>1. CASE ticketLock[mine[p]] = None
  <3>1. ticketLock' \in [Tickets -> Procs \cup {Collector, None}]
    <4>1. ticketLock' = [ticketLock EXCEPT ![mine[p]] = p]
      BY <1>5, <2>1 DEF LockTicket
    <4>. QED
      BY <4>1
  <3>. QED
    BY ZenonT(60), <1>5, <2>1, <3>1 DEF LockTicket
<2>2. CASE ticketLock[mine[p]] # None
  BY ZenonT(60), <1>5, <2>2 DEF LockTicket, Fail
<2>. QED
  BY <2>1, <2>2
<1>6. ASSUME NEW p \in Procs, BeginAttempt(p) PROVE TypeOK'
  BY <1>6, HelperTypes DEF BeginAttempt
<1>7. ASSUME NEW p \in Procs, ProbeSlot(p) PROVE TypeOK'
  BY <1>7 DEF ProbeSlot
<1>8. ASSUME NEW p \in Procs, TurnedAway(p) PROVE TypeOK'
  BY <1>8, ParkType DEF TurnedAway, LeaveProbe
<1>9. ASSUME NEW p \in Procs, RefusedSlot(p) PROVE TypeOK'
  BY <1>9 DEF RefusedSlot, Fail, LeaveProbe
<1>10. ASSUME NEW p \in Procs, Grant(p) PROVE TypeOK'
  BY <1>10 DEF Grant, LeaveProbe
<1>11. ASSUME NEW p \in Procs, NothingLeft(p) PROVE TypeOK'
  BY <1>11 DEF NothingLeft, Fail, LeaveProbe
<1>12. ASSUME NEW p \in Procs, HintWake(p) PROVE TypeOK'
  BY <1>12 DEF HintWake
<1>13. ASSUME NEW p \in Procs, TimerWake(p) PROVE TypeOK'
  BY <1>13 DEF TimerWake
<1>14. ASSUME NEW p \in Procs, Cleanup(p) PROVE TypeOK'
  BY ZenonT(60), <1>14, HelperTypes DEF Cleanup, Over
<1>15. ASSUME NEW p \in Procs, Confirm(p) PROVE TypeOK'
  BY <1>15 DEF Confirm
<1>16. ASSUME NEW p \in Procs, GiveBack(p) PROVE TypeOK'
  BY <1>16, HelperTypes DEF GiveBack, Over
<1>17. ASSUME NEW p \in Procs, Arrive(p) PROVE TypeOK'
  BY <1>17 DEF Arrive
<1>18. ASSUME NEW p \in Procs, WatchBreaks(p) PROVE TypeOK'
  BY <1>18 DEF WatchBreaks
<1>19. ASSUME NEW p \in Procs, Crash(p) PROVE TypeOK'
<2>1. watch' \in [Procs -> {"off", "quiet", "hinted"}]
  <3>1. watch' = [Hinted EXCEPT ![p] = "off"] \/ watch' = [watch EXCEPT ![p] = "off"]
    BY <1>19 DEF Crash
  <3>. QED
    BY <3>1, HelperTypes
<2>2. /\ allocator' \in Procs \cup {Chooser, None}
      /\ scan' \in 0 .. MaxSlots
      /\ free' \subseteq 0 .. scan' - 1
  <3>1. CASE allocator = p
    BY <1>19, <3>1 DEF Crash, LeaveProbe
  <3>2. CASE allocator # p
    BY <1>19, <3>2 DEF Crash
  <3>. QED
    BY <3>1, <3>2
<2>3. /\ slotLock' \in [Slots -> Procs \cup {Collector, None}]
      /\ ticketLock' \in [Tickets -> Procs \cup {Collector, None}]
  BY <1>19, HelperTypes DEF Crash
<2>. QED
  BY <1>19, <2>1, <2>2, <2>3 DEF Crash, Over
<1>20. ASSUME NEW p \in Procs, Expire(p) PROVE TypeOK'
  BY <1>20 DEF Expire
<1>21. ASSUME NEW p \in Procs, Invalidate(p) PROVE TypeOK'
  BY <1>21 DEF Invalidate
<1>22. ASSUME NEW s \in Slots, CollectorProbesSlot(s) PROVE TypeOK'
  BY <1>22 DEF CollectorProbesSlot
<1>23. ASSUME NEW t \in Tickets, CollectorProbesTicket(t) PROVE TypeOK'
  BY <1>23 DEF CollectorProbesTicket
<1>24. ASSUME CollectorCloses PROVE TypeOK'
  BY <1>24, HelperTypes DEF CollectorCloses
<1>25. ASSUME ChooserLocks PROVE TypeOK'
  BY <1>25 DEF ChooserLocks
<1>26. ASSUME ChooserProves PROVE TypeOK'
  BY <1>26 DEF ChooserProves, Quiescent
<1>27. ASSUME ChooserPublishes PROVE TypeOK'
  BY <1>27 DEF ChooserPublishes
<1>28. ASSUME ChooserStops PROVE TypeOK'
  BY <1>28 DEF ChooserStops
<1>29. ASSUME UNCHANGED vars PROVE TypeOK'
  BY <1>29 DEF vars, call, env, queue, probe, root
<1>. QED
  BY <1>1, <1>2, <1>3, <1>4, <1>5, <1>6, <1>7, <1>8, <1>9, <1>10, <1>11,
     <1>12, <1>13, <1>14, <1>15, <1>16, <1>17, <1>18, <1>19, <1>20, <1>21,
     <1>22, <1>23, <1>24, <1>25, <1>26, <1>27, <1>28, <1>29
  DEF Next, Advance, Disturb, Choose

(* Every step keeps the allocator lock with the one call in its critical      *)
(* section.                                                                   *)
LEMMA AllocatorInvNext == IInv /\ [Next]_vars => AllocatorInv'
<1> SUFFICES ASSUME IInv, [Next]_vars PROVE AllocatorInv'
  OBVIOUS
<1>0. TypeOK'
  BY TypeNext DEF IInv
<1> USE LimitAssumption, NamesAssumption, <1>0
        DEF IInv, TypeOK, AllocatorInv, SlotInv, TicketInv, OrderInv, ClosedInv,
            Slots, Parked, call, env, queue, probe, root
<1>1. ASSUME NEW p \in Procs, Check(p) PROVE AllocatorInv'
  BY <1>1, CheckMoves DEF Check
<1>2. ASSUME NEW p \in Procs, Contended(p) PROVE AllocatorInv'
  BY <1>2 DEF Contended, Park, Fail
<1>3. ASSUME NEW p \in Procs, RefusedEntry(p) PROVE AllocatorInv'
  BY <1>3 DEF RefusedEntry, Fail
<1>4. ASSUME NEW p \in Procs, CreateTicket(p) PROVE AllocatorInv'
  BY <1>4 DEF CreateTicket, Reclaimed, Order, Hinted
<1>5. ASSUME NEW p \in Procs, LockTicket(p) PROVE AllocatorInv'
<2>1. \E x \in {"attempt", "cleanup"} : pc' = [pc EXCEPT ![p] = x]
  BY <1>5 DEF LockTicket, Fail
<2>. QED
  BY <1>5, <2>1 DEF LockTicket
<1>6. ASSUME NEW p \in Procs, BeginAttempt(p) PROVE AllocatorInv'
  BY <1>6 DEF BeginAttempt, Reclaimed, Order, Hinted
<1>7. ASSUME NEW p \in Procs, ProbeSlot(p) PROVE AllocatorInv'
  BY <1>7 DEF ProbeSlot
<1>8. ASSUME NEW p \in Procs, TurnedAway(p) PROVE AllocatorInv'
<2>1. PICK x \in Parked \cup {"cleanup"} : pc' = [pc EXCEPT ![p] = x]
  BY <1>8, ParkMoves DEF TurnedAway
<2>2. \A q \in Procs : q # p => result'[q] = result[q]
  BY <1>8 DEF TurnedAway, Park, Fail
<2>. QED
  BY <1>8, <2>1, <2>2 DEF TurnedAway, LeaveProbe
<1>9. ASSUME NEW p \in Procs, RefusedSlot(p) PROVE AllocatorInv'
  BY <1>9 DEF RefusedSlot, Fail, LeaveProbe
<1>10. ASSUME NEW p \in Procs, Grant(p) PROVE AllocatorInv'
  BY <1>10 DEF Grant, LeaveProbe
<1>11. ASSUME NEW p \in Procs, NothingLeft(p) PROVE AllocatorInv'
  BY <1>11 DEF NothingLeft, Fail, LeaveProbe
<1>12. ASSUME NEW p \in Procs, HintWake(p) PROVE AllocatorInv'
  BY <1>12 DEF HintWake
<1>13. ASSUME NEW p \in Procs, TimerWake(p) PROVE AllocatorInv'
  BY <1>13 DEF TimerWake
<1>14. ASSUME NEW p \in Procs, Cleanup(p) PROVE AllocatorInv'
  BY <1>14 DEF Cleanup, Order, Over, Hinted, DropTicket
<1>15. ASSUME NEW p \in Procs, Confirm(p) PROVE AllocatorInv'
  BY <1>15 DEF Confirm
<1>16. ASSUME NEW p \in Procs, GiveBack(p) PROVE AllocatorInv'
  BY <1>16 DEF GiveBack, Over, DropSlots, Hinted
<1>17. ASSUME NEW p \in Procs, Arrive(p) PROVE AllocatorInv'
  BY <1>17 DEF Arrive
<1>18. ASSUME NEW p \in Procs, WatchBreaks(p) PROVE AllocatorInv'
  BY <1>18 DEF WatchBreaks
<1>19. ASSUME NEW p \in Procs, Crash(p) PROVE AllocatorInv'
  BY <1>19 DEF Crash, LeaveProbe, Over, DropSlots, DropTicket, Hinted, Holders
<1>20. ASSUME NEW p \in Procs, Expire(p) PROVE AllocatorInv'
  BY <1>20 DEF Expire
<1>21. ASSUME NEW p \in Procs, Invalidate(p) PROVE AllocatorInv'
  BY <1>21 DEF Invalidate
<1>22. ASSUME NEW s \in Slots, CollectorProbesSlot(s) PROVE AllocatorInv'
  BY <1>22 DEF CollectorProbesSlot
<1>23. ASSUME NEW t \in Tickets, CollectorProbesTicket(t) PROVE AllocatorInv'
  BY <1>23 DEF CollectorProbesTicket
<1>24. ASSUME CollectorCloses PROVE AllocatorInv'
  BY <1>24 DEF CollectorCloses, DropSlots, DropTicket, Hinted
<1>25. ASSUME ChooserLocks PROVE AllocatorInv'
  BY <1>25 DEF ChooserLocks
<1>26. ASSUME ChooserProves PROVE AllocatorInv'
  BY <1>26 DEF ChooserProves, Quiescent, Occupied, Reclaimed
<1>27. ASSUME ChooserPublishes PROVE AllocatorInv'
  BY <1>27 DEF ChooserPublishes
<1>28. ASSUME ChooserStops PROVE AllocatorInv'
  BY <1>28 DEF ChooserStops
<1>29. ASSUME UNCHANGED vars PROVE AllocatorInv'
  BY <1>29 DEF vars, call, env, queue, probe, root
<1>. QED
  BY <1>1, <1>2, <1>3, <1>4, <1>5, <1>6, <1>7, <1>8, <1>9, <1>10, <1>11,
     <1>12, <1>13, <1>14, <1>15, <1>16, <1>17, <1>18, <1>19, <1>20, <1>21,
     <1>22, <1>23, <1>24, <1>25, <1>26, <1>27, <1>28, <1>29
  DEF Next, Advance, Disturb, Choose

(* Every step keeps slot locks single, and held only from admission to        *)
(* release.                                                                   *)
LEMMA SlotInvNext == IInv /\ [Next]_vars => SlotInv'
<1> SUFFICES ASSUME IInv, [Next]_vars PROVE SlotInv'
  OBVIOUS
<1>0. TypeOK'
  BY TypeNext DEF IInv
<1> USE LimitAssumption, NamesAssumption, <1>0
        DEF IInv, TypeOK, AllocatorInv, SlotInv, TicketInv, OrderInv, ClosedInv,
            Slots, Parked, call, env, queue, probe, root
<1>1. ASSUME NEW p \in Procs, Check(p) PROVE SlotInv'
<2>1. PICK x \in {"cleanup", "enqueue", "attempt"} : pc' = [pc EXCEPT ![p] = x]
  BY <1>1, CheckMoves DEF Check
<2>2. \A q \in Procs : q # p => result'[q] = result[q]
  BY <1>1, CheckMoves DEF Check
<2>. QED
  BY <1>1, <2>1, <2>2 DEF Check
<1>2. ASSUME NEW p \in Procs, Contended(p) PROVE SlotInv'
<2>1. PICK x \in Parked \cup {"cleanup"} : pc' = [pc EXCEPT ![p] = x]
  BY <1>2, ParkMoves DEF Contended
<2>2. \A q \in Procs : q # p => result'[q] = result[q]
  BY <1>2 DEF Contended, Park, Fail
<2>. QED
  BY <1>2, <2>1, <2>2 DEF Contended
<1>3. ASSUME NEW p \in Procs, RefusedEntry(p) PROVE SlotInv'
  BY <1>3 DEF RefusedEntry, Fail
<1>4. ASSUME NEW p \in Procs, CreateTicket(p) PROVE SlotInv'
  BY <1>4 DEF CreateTicket, Reclaimed, Order, Hinted
<1>5. ASSUME NEW p \in Procs, LockTicket(p) PROVE SlotInv'
  BY <1>5 DEF LockTicket, Fail
<1>6. ASSUME NEW p \in Procs, BeginAttempt(p) PROVE SlotInv'
  BY <1>6 DEF BeginAttempt, Reclaimed, Order, Hinted
<1>7. ASSUME NEW p \in Procs, ProbeSlot(p) PROVE SlotInv'
  BY <1>7 DEF ProbeSlot
<1>8. ASSUME NEW p \in Procs, TurnedAway(p) PROVE SlotInv'
<2>1. PICK x \in Parked \cup {"cleanup"} : pc' = [pc EXCEPT ![p] = x]
  BY <1>8, ParkMoves DEF TurnedAway
<2>2. \A q \in Procs : q # p => result'[q] = result[q]
  BY <1>8 DEF TurnedAway, Park, Fail
<2>. QED
  BY <1>8, <2>1, <2>2 DEF TurnedAway, LeaveProbe
<1>9. ASSUME NEW p \in Procs, RefusedSlot(p) PROVE SlotInv'
  BY <1>9 DEF RefusedSlot, Fail, LeaveProbe
<1>10. ASSUME NEW p \in Procs, Grant(p) PROVE SlotInv'
<2>1. PICK s \in free : slotLock' = [slotLock EXCEPT ![s] = p] /\ slotLock[s] = None
  BY <1>10 DEF Grant
<2>2. /\ pc' = [pc EXCEPT ![p] = "cleanup"]
      /\ result' = [result EXCEPT ![p] = "slot"]
      /\ free' = {}
  BY <1>10 DEF Grant, LeaveProbe
<2>3. \A r \in Slots : slotLock[r] # p
  BY <1>10 DEF Grant
<2>. QED
  BY <2>1, <2>2, <2>3
<1>11. ASSUME NEW p \in Procs, NothingLeft(p) PROVE SlotInv'
  BY <1>11 DEF NothingLeft, Fail, LeaveProbe
<1>12. ASSUME NEW p \in Procs, HintWake(p) PROVE SlotInv'
  BY <1>12 DEF HintWake
<1>13. ASSUME NEW p \in Procs, TimerWake(p) PROVE SlotInv'
  BY <1>13 DEF TimerWake
<1>14. ASSUME NEW p \in Procs, Cleanup(p) PROVE SlotInv'
<2>1. \A s \in Slots : slotLock'[s] = slotLock[s]
  BY <1>14 DEF Cleanup
<2>2. CASE result[p] = "slot"
  <3>1. /\ pc' = [pc EXCEPT ![p] = "granted"]
        /\ result' = result /\ slotLock' = slotLock /\ free' = free
    BY <1>14, <2>2 DEF Cleanup
  <3>. QED
    BY <3>1
<2>3. CASE result[p] # "slot"
  BY <1>14, <2>3 DEF Cleanup, Over
<2>. QED
  BY <2>2, <2>3
<1>15. ASSUME NEW p \in Procs, Confirm(p) PROVE SlotInv'
  BY <1>15 DEF Confirm
<1>16. ASSUME NEW p \in Procs, GiveBack(p) PROVE SlotInv'
  BY <1>16 DEF GiveBack, Over, DropSlots, Hinted
<1>17. ASSUME NEW p \in Procs, Arrive(p) PROVE SlotInv'
  BY <1>17 DEF Arrive
<1>18. ASSUME NEW p \in Procs, WatchBreaks(p) PROVE SlotInv'
  BY <1>18 DEF WatchBreaks
<1>19. ASSUME NEW p \in Procs, Crash(p) PROVE SlotInv'
  BY <1>19 DEF Crash, LeaveProbe, Over, DropSlots, DropTicket, Hinted, Holders
<1>20. ASSUME NEW p \in Procs, Expire(p) PROVE SlotInv'
  BY <1>20 DEF Expire
<1>21. ASSUME NEW p \in Procs, Invalidate(p) PROVE SlotInv'
  BY <1>21 DEF Invalidate
<1>22. ASSUME NEW s \in Slots, CollectorProbesSlot(s) PROVE SlotInv'
  BY <1>22 DEF CollectorProbesSlot
<1>23. ASSUME NEW t \in Tickets, CollectorProbesTicket(t) PROVE SlotInv'
  BY <1>23 DEF CollectorProbesTicket
<1>24. ASSUME CollectorCloses PROVE SlotInv'
  BY <1>24 DEF CollectorCloses, DropSlots, DropTicket, Hinted
<1>25. ASSUME ChooserLocks PROVE SlotInv'
  BY <1>25 DEF ChooserLocks
<1>26. ASSUME ChooserProves PROVE SlotInv'
  BY <1>26 DEF ChooserProves, Quiescent, Occupied, Reclaimed
<1>27. ASSUME ChooserPublishes PROVE SlotInv'
  BY <1>27 DEF ChooserPublishes
<1>28. ASSUME ChooserStops PROVE SlotInv'
  BY <1>28 DEF ChooserStops
<1>29. ASSUME UNCHANGED vars PROVE SlotInv'
  BY <1>29 DEF vars, call, env, queue, probe, root
<1>. QED
  BY <1>1, <1>2, <1>3, <1>4, <1>5, <1>6, <1>7, <1>8, <1>9, <1>10, <1>11,
     <1>12, <1>13, <1>14, <1>15, <1>16, <1>17, <1>18, <1>19, <1>20, <1>21,
     <1>22, <1>23, <1>24, <1>25, <1>26, <1>27, <1>28, <1>29
  DEF Next, Advance, Disturb, Choose

(* Every step keeps a live caller's ticket present and locked by that caller. *)
LEMMA TicketInvNext == IInv /\ [Next]_vars => TicketInv'
<1> SUFFICES ASSUME IInv, [Next]_vars PROVE TicketInv'
  OBVIOUS
<1>0. TypeOK'
  BY TypeNext DEF IInv
<1> USE LimitAssumption, NamesAssumption, <1>0
        DEF IInv, TypeOK, AllocatorInv, SlotInv, TicketInv, OrderInv, ClosedInv,
            Slots, Parked, call, env, queue, probe, root
<1>1. ASSUME NEW p \in Procs, Check(p) PROVE TicketInv'
  BY <1>1 DEF Check, Fail
<1>2. ASSUME NEW p \in Procs, Contended(p) PROVE TicketInv'
  BY <1>2 DEF Contended, Park, Fail
<1>3. ASSUME NEW p \in Procs, RefusedEntry(p) PROVE TicketInv'
  BY <1>3 DEF RefusedEntry, Fail
<1>4. ASSUME NEW p \in Procs, CreateTicket(p) PROVE TicketInv'
<2>1. PICK t \in Tickets : /\ t \notin Reclaimed
                           /\ ticketLock[t] = None
                           /\ files' = Reclaimed \cup {t}
                           /\ mine' = [mine EXCEPT ![p] = t]
  BY <1>4 DEF CreateTicket
<2>2. pc' = [pc EXCEPT ![p] = "stamp"] /\ ticketLock' = ticketLock
  BY <1>4 DEF CreateTicket
<2>3. \A q \in Procs : pc[q] # "stamp"
  BY <1>4 DEF CreateTicket
<2>4. \A q \in Procs : mine[q] # None => mine[q] \in Reclaimed /\ mine[q] # t
  BY <2>1, <2>3 DEF Reclaimed
<2>5. pc[p] = "enqueue"
  BY <1>4 DEF CreateTicket
<2>6. \A q \in Procs : q # p => mine'[q] = mine[q] /\ pc'[q] = pc[q]
  BY <2>1, <2>2
<2>7. mine'[p] = t /\ pc'[p] = "stamp" /\ t # None
  BY <2>1, <2>2
<2>8. \A q \in Procs, u \in Tickets : ticketLock[u] = q => q # p
  BY <2>1, <2>5
<2>. QED
  BY <2>1, <2>2, <2>3, <2>4, <2>6, <2>7, <2>8
<1>5. ASSUME NEW p \in Procs, LockTicket(p) PROVE TicketInv'
<2>1. mine[p] \in Tickets /\ pc[p] = "stamp"
  BY <1>5 DEF LockTicket
<2>2. CASE ticketLock[mine[p]] = None
  BY <1>5, <2>1, <2>2 DEF LockTicket
<2>3. CASE ticketLock[mine[p]] # None
  <3>1. /\ mine' = [mine EXCEPT ![p] = None]
        /\ pc' = [pc EXCEPT ![p] = "cleanup"]
        /\ ticketLock' = ticketLock /\ files' = files
    BY <1>5, <2>1, <2>3 DEF LockTicket, Fail
  <3>. QED
    BY <2>1, <3>1
<2>. QED
  BY <2>2, <2>3
<1>6. ASSUME NEW p \in Procs, BeginAttempt(p) PROVE TicketInv'
  BY <1>6 DEF BeginAttempt, Reclaimed, Order, Hinted
<1>7. ASSUME NEW p \in Procs, ProbeSlot(p) PROVE TicketInv'
  BY <1>7 DEF ProbeSlot
<1>8. ASSUME NEW p \in Procs, TurnedAway(p) PROVE TicketInv'
  BY <1>8 DEF TurnedAway, Park, Fail, LeaveProbe
<1>9. ASSUME NEW p \in Procs, RefusedSlot(p) PROVE TicketInv'
  BY <1>9 DEF RefusedSlot, Fail, LeaveProbe
<1>10. ASSUME NEW p \in Procs, Grant(p) PROVE TicketInv'
  BY <1>10 DEF Grant, LeaveProbe
<1>11. ASSUME NEW p \in Procs, NothingLeft(p) PROVE TicketInv'
  BY <1>11 DEF NothingLeft, Fail, LeaveProbe
<1>12. ASSUME NEW p \in Procs, HintWake(p) PROVE TicketInv'
  BY <1>12 DEF HintWake
<1>13. ASSUME NEW p \in Procs, TimerWake(p) PROVE TicketInv'
  BY <1>13 DEF TimerWake
<1>14. ASSUME NEW p \in Procs, Cleanup(p) PROVE TicketInv'
  BY <1>14 DEF Cleanup, Order, Over, Hinted, DropTicket
<1>15. ASSUME NEW p \in Procs, Confirm(p) PROVE TicketInv'
  BY <1>15 DEF Confirm
<1>16. ASSUME NEW p \in Procs, GiveBack(p) PROVE TicketInv'
  BY <1>16 DEF GiveBack, Over, DropSlots, Hinted
<1>17. ASSUME NEW p \in Procs, Arrive(p) PROVE TicketInv'
  BY <1>17 DEF Arrive
<1>18. ASSUME NEW p \in Procs, WatchBreaks(p) PROVE TicketInv'
  BY <1>18 DEF WatchBreaks
<1>19. ASSUME NEW p \in Procs, Crash(p) PROVE TicketInv'
  BY <1>19 DEF Crash, LeaveProbe, Over, DropSlots, DropTicket, Hinted, Holders
<1>20. ASSUME NEW p \in Procs, Expire(p) PROVE TicketInv'
  BY <1>20 DEF Expire
<1>21. ASSUME NEW p \in Procs, Invalidate(p) PROVE TicketInv'
  BY <1>21 DEF Invalidate
<1>22. ASSUME NEW s \in Slots, CollectorProbesSlot(s) PROVE TicketInv'
  BY <1>22 DEF CollectorProbesSlot
<1>23. ASSUME NEW t \in Tickets, CollectorProbesTicket(t) PROVE TicketInv'
  BY <1>23 DEF CollectorProbesTicket
<1>24. ASSUME CollectorCloses PROVE TicketInv'
  BY <1>24 DEF CollectorCloses, DropSlots, DropTicket, Hinted
<1>25. ASSUME ChooserLocks PROVE TicketInv'
  BY <1>25 DEF ChooserLocks
<1>26. ASSUME ChooserProves PROVE TicketInv'
  BY <1>26 DEF ChooserProves, Quiescent, Occupied, Reclaimed
<1>27. ASSUME ChooserPublishes PROVE TicketInv'
  BY <1>27 DEF ChooserPublishes
<1>28. ASSUME ChooserStops PROVE TicketInv'
  BY <1>28 DEF ChooserStops
<1>29. ASSUME UNCHANGED vars PROVE TicketInv'
  BY <1>29 DEF vars, call, env, queue, probe, root
<1>. QED
  BY <1>1, <1>2, <1>3, <1>4, <1>5, <1>6, <1>7, <1>8, <1>9, <1>10, <1>11,
     <1>12, <1>13, <1>14, <1>15, <1>16, <1>17, <1>18, <1>19, <1>20, <1>21,
     <1>22, <1>23, <1>24, <1>25, <1>26, <1>27, <1>28, <1>29
  DEF Next, Advance, Disturb, Choose

(* Every step keeps the tickets in one order, the newest last. *)
LEMMA OrderInvNext == IInv /\ [Next]_vars => OrderInv'
<1> SUFFICES ASSUME IInv, [Next]_vars PROVE OrderInv'
  OBVIOUS
<1>0. TypeOK'
  BY TypeNext DEF IInv
<1> USE LimitAssumption, NamesAssumption, <1>0
        DEF IInv, TypeOK, AllocatorInv, SlotInv, TicketInv, OrderInv, ClosedInv,
            Slots, Parked, call, env, queue, probe, root
<1>1. ASSUME NEW p \in Procs, Check(p) PROVE OrderInv'
  BY <1>1, CheckMoves DEF Check
<1>2. ASSUME NEW p \in Procs, Contended(p) PROVE OrderInv'
  BY <1>2 DEF Contended, Park, Fail
<1>3. ASSUME NEW p \in Procs, RefusedEntry(p) PROVE OrderInv'
  BY <1>3 DEF RefusedEntry, Fail
<1>4. ASSUME NEW p \in Procs, CreateTicket(p) PROVE OrderInv'
  BY <1>4 DEF CreateTicket, Reclaimed, Order, Hinted
<1>5. ASSUME NEW p \in Procs, LockTicket(p) PROVE OrderInv'
  BY <1>5 DEF LockTicket, Fail
<1>6. ASSUME NEW p \in Procs, BeginAttempt(p) PROVE OrderInv'
  BY <1>6 DEF BeginAttempt, Reclaimed, Order, Hinted
<1>7. ASSUME NEW p \in Procs, ProbeSlot(p) PROVE OrderInv'
  BY <1>7 DEF ProbeSlot
<1>8. ASSUME NEW p \in Procs, TurnedAway(p) PROVE OrderInv'
  BY <1>8 DEF TurnedAway, Park, Fail, LeaveProbe
<1>9. ASSUME NEW p \in Procs, RefusedSlot(p) PROVE OrderInv'
  BY <1>9 DEF RefusedSlot, Fail, LeaveProbe
<1>10. ASSUME NEW p \in Procs, Grant(p) PROVE OrderInv'
  BY <1>10 DEF Grant, LeaveProbe
<1>11. ASSUME NEW p \in Procs, NothingLeft(p) PROVE OrderInv'
  BY <1>11 DEF NothingLeft, Fail, LeaveProbe
<1>12. ASSUME NEW p \in Procs, HintWake(p) PROVE OrderInv'
  BY <1>12 DEF HintWake
<1>13. ASSUME NEW p \in Procs, TimerWake(p) PROVE OrderInv'
  BY <1>13 DEF TimerWake
<1>14. ASSUME NEW p \in Procs, Cleanup(p) PROVE OrderInv'
  BY <1>14 DEF Cleanup, Order, Over, Hinted, DropTicket
<1>15. ASSUME NEW p \in Procs, Confirm(p) PROVE OrderInv'
  BY <1>15 DEF Confirm
<1>16. ASSUME NEW p \in Procs, GiveBack(p) PROVE OrderInv'
  BY <1>16 DEF GiveBack, Over, DropSlots, Hinted
<1>17. ASSUME NEW p \in Procs, Arrive(p) PROVE OrderInv'
  BY <1>17 DEF Arrive
<1>18. ASSUME NEW p \in Procs, WatchBreaks(p) PROVE OrderInv'
  BY <1>18 DEF WatchBreaks
<1>19. ASSUME NEW p \in Procs, Crash(p) PROVE OrderInv'
  BY <1>19 DEF Crash, LeaveProbe, Over, DropSlots, DropTicket, Hinted, Holders
<1>20. ASSUME NEW p \in Procs, Expire(p) PROVE OrderInv'
  BY <1>20 DEF Expire
<1>21. ASSUME NEW p \in Procs, Invalidate(p) PROVE OrderInv'
  BY <1>21 DEF Invalidate
<1>22. ASSUME NEW s \in Slots, CollectorProbesSlot(s) PROVE OrderInv'
  BY <1>22 DEF CollectorProbesSlot
<1>23. ASSUME NEW t \in Tickets, CollectorProbesTicket(t) PROVE OrderInv'
  BY <1>23 DEF CollectorProbesTicket
<1>24. ASSUME CollectorCloses PROVE OrderInv'
  BY <1>24 DEF CollectorCloses, DropSlots, DropTicket, Hinted
<1>25. ASSUME ChooserLocks PROVE OrderInv'
  BY <1>25 DEF ChooserLocks
<1>26. ASSUME ChooserProves PROVE OrderInv'
  BY <1>26 DEF ChooserProves, Quiescent, Occupied, Reclaimed
<1>27. ASSUME ChooserPublishes PROVE OrderInv'
  BY <1>27 DEF ChooserPublishes
<1>28. ASSUME ChooserStops PROVE OrderInv'
  BY <1>28 DEF ChooserStops
<1>29. ASSUME UNCHANGED vars PROVE OrderInv'
  BY <1>29 DEF vars, call, env, queue, probe, root
<1>. QED
  BY <1>1, <1>2, <1>3, <1>4, <1>5, <1>6, <1>7, <1>8, <1>9, <1>10, <1>11,
     <1>12, <1>13, <1>14, <1>15, <1>16, <1>17, <1>18, <1>19, <1>20, <1>21,
     <1>22, <1>23, <1>24, <1>25, <1>26, <1>27, <1>28, <1>29
  DEF Next, Advance, Disturb, Choose

(* No step admits or queues anybody once the root was proved idle or          *)
(* replaced.                                                                  *)
LEMMA ClosedInvNext == IInv /\ [Next]_vars => ClosedInv'
<1> SUFFICES ASSUME IInv, [Next]_vars PROVE ClosedInv'
  OBVIOUS
<1>0. TypeOK'
  BY TypeNext DEF IInv
<1> USE LimitAssumption, NamesAssumption, <1>0
        DEF IInv, TypeOK, AllocatorInv, SlotInv, TicketInv, OrderInv, ClosedInv,
            Slots, Parked, call, env, queue, probe, root
<1>1. ASSUME NEW p \in Procs, Check(p) PROVE ClosedInv'
  BY <1>1, CheckMoves DEF Check
<1>2. ASSUME NEW p \in Procs, Contended(p) PROVE ClosedInv'
  BY <1>2 DEF Contended, Park, Fail
<1>3. ASSUME NEW p \in Procs, RefusedEntry(p) PROVE ClosedInv'
  BY <1>3 DEF RefusedEntry, Fail
<1>4. ASSUME NEW p \in Procs, CreateTicket(p) PROVE ClosedInv'
  BY <1>4 DEF CreateTicket, Valid, Reclaimed, Order, Hinted
<1>5. ASSUME NEW p \in Procs, LockTicket(p) PROVE ClosedInv'
  BY <1>5 DEF LockTicket, Fail
<1>6. ASSUME NEW p \in Procs, BeginAttempt(p) PROVE ClosedInv'
  BY <1>6 DEF BeginAttempt, Reclaimed, Order, Hinted
<1>7. ASSUME NEW p \in Procs, ProbeSlot(p) PROVE ClosedInv'
  BY <1>7 DEF ProbeSlot
<1>8. ASSUME NEW p \in Procs, TurnedAway(p) PROVE ClosedInv'
  BY <1>8 DEF TurnedAway, Park, Fail, LeaveProbe
<1>9. ASSUME NEW p \in Procs, RefusedSlot(p) PROVE ClosedInv'
  BY <1>9 DEF RefusedSlot, Fail, LeaveProbe
<1>10. ASSUME NEW p \in Procs, Grant(p) PROVE ClosedInv'
  BY <1>10 DEF Grant, Valid, LeaveProbe
<1>11. ASSUME NEW p \in Procs, NothingLeft(p) PROVE ClosedInv'
  BY <1>11 DEF NothingLeft, Fail, LeaveProbe
<1>12. ASSUME NEW p \in Procs, HintWake(p) PROVE ClosedInv'
  BY <1>12 DEF HintWake
<1>13. ASSUME NEW p \in Procs, TimerWake(p) PROVE ClosedInv'
  BY <1>13 DEF TimerWake
<1>14. ASSUME NEW p \in Procs, Cleanup(p) PROVE ClosedInv'
  BY <1>14 DEF Cleanup, Order, Over, Hinted, DropTicket
<1>15. ASSUME NEW p \in Procs, Confirm(p) PROVE ClosedInv'
  BY <1>15 DEF Confirm
<1>16. ASSUME NEW p \in Procs, GiveBack(p) PROVE ClosedInv'
  BY <1>16 DEF GiveBack, Over, DropSlots, Hinted
<1>17. ASSUME NEW p \in Procs, Arrive(p) PROVE ClosedInv'
  BY <1>17 DEF Arrive
<1>18. ASSUME NEW p \in Procs, WatchBreaks(p) PROVE ClosedInv'
  BY <1>18 DEF WatchBreaks
<1>19. ASSUME NEW p \in Procs, Crash(p) PROVE ClosedInv'
  BY <1>19 DEF Crash, LeaveProbe, Over, DropSlots, DropTicket, Hinted, Holders
<1>20. ASSUME NEW p \in Procs, Expire(p) PROVE ClosedInv'
  BY <1>20 DEF Expire
<1>21. ASSUME NEW p \in Procs, Invalidate(p) PROVE ClosedInv'
  BY <1>21 DEF Invalidate
<1>22. ASSUME NEW s \in Slots, CollectorProbesSlot(s) PROVE ClosedInv'
  BY <1>22 DEF CollectorProbesSlot
<1>23. ASSUME NEW t \in Tickets, CollectorProbesTicket(t) PROVE ClosedInv'
  BY <1>23 DEF CollectorProbesTicket
<1>24. ASSUME CollectorCloses PROVE ClosedInv'
  BY <1>24 DEF CollectorCloses, DropSlots, DropTicket, Hinted
<1>25. ASSUME ChooserLocks PROVE ClosedInv'
  BY <1>25 DEF ChooserLocks
<1>26. ASSUME ChooserProves PROVE ClosedInv'
<2>1. \A s \in Slots : slotLock[s] \notin Procs
  <3>1. Occupied = {}
    BY <1>26 DEF ChooserProves, Quiescent
  <3>2. \A s \in Slots : slotLock[s] = None
    BY <3>1 DEF Occupied
  <3>. QED
    BY <3>2
<2>2. \A t \in Tickets : ticketLock[t] \notin Procs
  <3>1. Reclaimed = {}
    BY <1>26 DEF ChooserProves, Quiescent
  <3>2. \A t \in files : ticketLock[t] = None
    BY <3>1 DEF Reclaimed
  <3>3. ASSUME NEW t \in Tickets, ticketLock[t] \in Procs PROVE FALSE
    <4>1. mine[ticketLock[t]] = t
      BY <3>3
    <4>2. t \in files
      BY <3>3, <4>1
    <4>. QED
      BY <3>2, <3>3, <4>2
  <3>. QED
    BY <3>3
<2>3. \A q \in Procs : pc[q] # "stamp"
  BY <1>26 DEF ChooserProves
<2>. QED
  BY <1>26, <2>1, <2>2, <2>3 DEF ChooserProves
<1>27. ASSUME ChooserPublishes PROVE ClosedInv'
  BY <1>27 DEF ChooserPublishes
<1>28. ASSUME ChooserStops PROVE ClosedInv'
  BY <1>28 DEF ChooserStops
<1>29. ASSUME UNCHANGED vars PROVE ClosedInv'
  BY <1>29 DEF vars, call, env, queue, probe, root
<1>. QED
  BY <1>1, <1>2, <1>3, <1>4, <1>5, <1>6, <1>7, <1>8, <1>9, <1>10, <1>11,
     <1>12, <1>13, <1>14, <1>15, <1>16, <1>17, <1>18, <1>19, <1>20, <1>21,
     <1>22, <1>23, <1>24, <1>25, <1>26, <1>27, <1>28, <1>29
  DEF Next, Advance, Disturb, Choose

-----------------------------------------------------------------------------
(* The inductive invariant holds at the start. *)
LEMMA IInvInit == Init => IInv
<1> SUFFICES ASSUME Init PROVE IInv
  OBVIOUS
<1>1. TypeOK
  BY TypeInit
<1>2. AllocatorInv /\ SlotInv /\ TicketInv /\ OrderInv /\ ClosedInv
  BY NamesAssumption
  DEF Init, AllocatorInv, SlotInv, TicketInv, OrderInv, ClosedInv, Slots
<1>. QED
  BY <1>1, <1>2 DEF IInv

(* Live callers, their tickets, their slots and the allocator lock agree in   *)
(* every reachable state, for any number of callers, slots and tickets.       *)
THEOREM Consistent == Spec => []IInv
<1>1. Init => IInv
  BY IInvInit
<1>2. IInv /\ [Next]_vars => IInv'
  BY TypeNext, AllocatorInvNext, SlotInvNext, TicketInvNext, OrderInvNext,
     ClosedInvNext DEF IInv
<1>. QED
  BY <1>1, <1>2, PTL DEF Spec

(* Every variable keeps its type.                                             *)
THEOREM TypeCorrect == Spec => []TypeOK
<1>1. IInv => TypeOK
  BY DEF IInv
<1>. QED
  BY <1>1, Consistent, PTL

(* Once a replacement root is saved nobody holds a slot of the old one.       *)
THEOREM NoStranded == Spec => []NoStrandedWorker
<1>1. IInv => NoStrandedWorker
  BY DEF IInv, ClosedInv, NoStrandedWorker, Holders, Holds
<1>. QED
  BY <1>1, Consistent, PTL

-----------------------------------------------------------------------------
(* Admission. *)

(* Only Grant lets a process take a slot lock.                                *)
LEMMA SlotFrame ==
  ASSUME TypeOK, [Next]_vars
  PROVE  \/ \E p \in Procs : Grant(p)
         \/ \A p \in Procs, s \in Slots : slotLock'[s] = p => slotLock[s] = p
<1> DEFINE Kept == \A p \in Procs, s \in Slots : slotLock'[s] = p => slotLock[s] = p
<1>1. ASSUME NEW p \in Procs, GiveBack(p) \/ Crash(p) PROVE Kept
  BY <1>1, NamesAssumption DEF TypeOK, GiveBack, Crash, DropSlots
<1>2. ASSUME NEW s \in Slots, CollectorProbesSlot(s) PROVE Kept
  BY <1>2, NamesAssumption DEF TypeOK, CollectorProbesSlot
<1>3. ASSUME CollectorCloses PROVE Kept
  BY <1>3, NamesAssumption DEF TypeOK, CollectorCloses, DropSlots
<1>4. ASSUME slotLock' = slotLock PROVE Kept
  BY <1>4
<1>5. ASSUME NEW p \in Procs, Advance(p) PROVE Grant(p) \/ GiveBack(p) \/ slotLock' = slotLock
  BY <1>5 DEF Advance, Check, Contended, RefusedEntry, CreateTicket, LockTicket,
       BeginAttempt, ProbeSlot, TurnedAway, RefusedSlot, NothingLeft, HintWake,
       TimerWake, Cleanup, Confirm
<1>6. ASSUME NEW p \in Procs, Disturb(p) PROVE Crash(p) \/ slotLock' = slotLock
  BY <1>6 DEF Disturb, Arrive, WatchBreaks, Expire, Invalidate
<1>7. ASSUME Choose \/ ChooserLocks \/ \E t \in Tickets : CollectorProbesTicket(t)
      PROVE slotLock' = slotLock
  BY <1>7 DEF Choose, ChooserLocks, ChooserProves, ChooserPublishes, ChooserStops,
       CollectorProbesTicket
<1>. QED
  BY <1>1, <1>2, <1>3, <1>4, <1>5, <1>6, <1>7 DEF Next, vars

(* A caller that comes to hold a slot took the Grant step. *)
LEMMA AdmittedIsGrant ==
  ASSUME IInv, [Next]_vars, NEW p \in Procs, Admitted(p)
  PROVE  Grant(p)
<1>1. PICK s \in Slots : slotLock'[s] = p /\ slotLock[s] # p
  BY DEF Admitted, Holders, Holds
<1>2. PICK q \in Procs : Grant(q)
  BY <1>1, SlotFrame DEF IInv
<1>3. PICK r \in free : slotLock' = [slotLock EXCEPT ![r] = q]
  BY <1>2 DEF Grant
<1>4. p = q
  BY <1>1, <1>3 DEF IInv, TypeOK
<1>. QED
  BY <1>2, <1>4

(* A probe never counts too few: each process that holds a slot holds one the *)
(* probe did not find free.                                                   *)
LEMMA HoldersBound ==
  ASSUME IInv, scan = MaxSlots
  PROVE  /\ IsFiniteSet(Holders)
         /\ Cardinality(Holders) <= MaxSlots - Cardinality(free)
         /\ Cardinality(free) \in Nat
<1> DEFINE Held == {s \in Slots : slotLock[s] \in Procs}
           f == [s \in Held |-> slotLock[s]]
<1>1. f \in Surjection(Held, Holders)
  BY DEF Surjection, Holders, Holds
<1>2. IsFiniteSet(Slots) /\ Cardinality(Slots) = MaxSlots
  BY FS_Interval, LimitAssumption DEF Slots
<1>3. free \subseteq Slots
  BY LimitAssumption DEF IInv, TypeOK, Slots
<1>4. /\ IsFiniteSet(Slots \ free)
      /\ Cardinality(Slots \ free) = MaxSlots - Cardinality(free)
  <2>1. Slots \cap free = free
    BY <1>3
  <2>. QED
    BY <1>2, <2>1, FS_Difference
<1>5. Held \in SUBSET (Slots \ free)
  BY DEF IInv, SlotInv
<1>6. IsFiniteSet(Held) /\ Cardinality(Held) <= MaxSlots - Cardinality(free)
  BY <1>4, <1>5, FS_Subset
<1>7. IsFiniteSet(Holders) /\ Cardinality(Holders) <= Cardinality(Held)
  BY <1>1, <1>6, FS_Surjection
<1>8. IsFiniteSet(free) /\ Cardinality(free) \in Nat
  BY <1>2, <1>3, FS_Subset, FS_CardinalityType
<1>9. Cardinality(Holders) \in Nat /\ Cardinality(Held) \in Nat
  BY <1>6, <1>7, FS_CardinalityType
<1>. QED
  BY <1>6, <1>7, <1>8, <1>9, LimitAssumption

(* A grant makes the caller a holder and removes nobody. *)
LEMMA GrantAddsHolder ==
  ASSUME IInv, NEW p \in Procs, Grant(p)
  PROVE  Holders' = Holders \cup {p} /\ p \notin Holders
<1>1. PICK s \in free : slotLock' = [slotLock EXCEPT ![s] = p] /\ slotLock[s] = None
  BY DEF Grant
<1>2. s \in Slots
  BY LimitAssumption DEF IInv, TypeOK, Slots
<1>3. \A r \in Slots : slotLock'[r] = IF r = s THEN p ELSE slotLock[r]
  BY <1>1 DEF IInv, TypeOK
<1>4. \A r \in Slots : slotLock[r] # p
  BY DEF Grant, IInv, SlotInv
<1>. QED
  BY <1>1, <1>2, <1>3, <1>4, NamesAssumption DEF Holders, Holds

(* At a grant fewer processes hold a slot than the caller's limit. *)
LEMMA GrantHasRoom ==
  ASSUME IInv, NEW p \in Procs, Grant(p)
  PROVE  /\ IsFiniteSet(Holders)
         /\ Cardinality(Holders) \in Nat
         /\ Cardinality(Holders) < Limit[p]
<1>1. /\ scan = MaxSlots
      /\ ~(MaxSlots - Cardinality(free) >= Limit[p])
  BY DEF Grant, NoRoom
<1>2. /\ IsFiniteSet(Holders)
      /\ Cardinality(Holders) <= MaxSlots - Cardinality(free)
      /\ Cardinality(free) \in Nat
  BY <1>1, HoldersBound
<1>3. Cardinality(Holders) \in Nat
  BY <1>2, FS_CardinalityType
<1>4. Limit[p] \in Nat /\ MaxSlots \in Nat
  BY LimitAssumption
<1>. QED
  BY <1>1, <1>2, <1>3, <1>4

(* Whoever is admitted, at most the limit it asked for run at once.           *)
THEOREM WithinLimit == Spec => AdmissionWithinLimit
<1>1. ASSUME IInv, [Next]_vars, NEW p \in Procs, Admitted(p)
      PROVE  Cardinality(Holders') <= Limit[p]
  <2>1. Grant(p)
    BY <1>1, AdmittedIsGrant
  <2>2. Holders' = Holders \cup {p} /\ p \notin Holders
    BY <1>1, <2>1, GrantAddsHolder
  <2>3. /\ IsFiniteSet(Holders)
        /\ Cardinality(Holders) \in Nat
        /\ Cardinality(Holders) < Limit[p]
    BY <1>1, <2>1, GrantHasRoom
  <2>4. Cardinality(Holders \cup {p}) = Cardinality(Holders) + 1
    BY <2>2, <2>3, FS_AddElement
  <2>5. Limit[p] \in Nat
    BY LimitAssumption
  <2>. QED
    BY <2>2, <2>3, <2>4, <2>5
<1>2. IInv /\ [Next]_vars
        => [\A p \in Procs : Admitted(p) => Cardinality(Holders') <= Limit[p]]_vars
  BY <1>1
<1>. QED
  BY <1>2, Consistent, PTL DEF Spec, AdmissionWithinLimit

(* A caller with nobody pending before it is older than everyone in line. *)
LEMMA FirstInLine ==
  ASSUME IInv, NEW p \in Procs, NEW q \in Procs, p # q, Grant(p), InLine(q)
  PROVE  mine[p] # None /\ mine[p] \in older[mine[q]]
<1>1. mine[q] \in files /\ mine[q] \in Tickets
  BY DEF InLine, IInv, TicketInv, TypeOK
<1>2. Pending(p) = {}
  BY DEF Grant, NoRoom
<1>3. mine[p] # None
  BY <1>1, <1>2 DEF Pending
<1>4. mine[p] \in files /\ mine[p] # mine[q]
  BY <1>3 DEF IInv, TicketInv
<1>5. mine[q] \notin older[mine[p]]
  BY <1>1, <1>2, <1>3 DEF Pending
<1>. QED
  BY <1>1, <1>3, <1>4, <1>5 DEF IInv, OrderInv

(* Nobody is admitted past a live caller that was in line before it.          *)
THEOREM Fifo == Spec => FirstComeFirstServed
<1>1. ASSUME IInv, [Next]_vars, NEW p \in Procs, NEW q \in Procs,
             Admitted(p), p # q, InLine(q)
      PROVE  mine[p] # None /\ mine[p] \in older[mine[q]]
  BY <1>1, AdmittedIsGrant, FirstInLine
<1>2. IInv /\ [Next]_vars
        => [\A p, q \in Procs :
              Admitted(p) /\ p # q /\ InLine(q)
                 => mine[p] # None /\ mine[p] \in older[mine[q]]]_vars
  BY <1>1
<1>. QED
  BY <1>2, Consistent, PTL DEF Spec, FirstComeFirstServed

-----------------------------------------------------------------------------
(* The allocator implements AdmissionQueue. *)

(* Nothing the admission queue sees changes. *)
LEMMA QueueStutters ==
  ASSUME \A p \in Procs : (p \in Holders') <=> (p \in Holders),
         \A p \in Procs : InLine(p)' <=> InLine(p),
         \A p, q \in Procs :
            InLine(p) /\ InLine(q)
               => (mine'[q] \in older'[mine'[p]] <=> mine[q] \in older[mine[p]]),
         selection' = selection
  PROVE  UNCHANGED Queue!vars
<1>1. Holders' = Holders
  BY DEF Holders
<1>2. Line' = Line
  BY DEF Line
<1>3. Ahead' = Ahead
  BY DEF Ahead, Line
<1>. QED
  BY <1>1, <1>2, <1>3 DEF Queue!vars

(* A caller leaves the line, or its slot, and the order of the others stays. *)
LEMMA QueueLeave ==
  ASSUME NEW p \in Procs, InLine(p), ~InLine(p)',
         \A q \in Procs : (q \in Holders') <=> (q \in Holders),
         \A q \in Procs \ {p} : InLine(q)' <=> InLine(q),
         \A q, r \in Procs \ {p} :
            InLine(q) /\ InLine(r)
               => (mine'[r] \in older'[mine'[q]] <=> mine[r] \in older[mine[q]]),
         selection' = selection
  PROVE  Queue!Leave(p)
<1>1. Holders' = Holders
  BY DEF Holders
<1>2. p \in Line /\ Line' = Line \ {p}
  BY DEF Line
<1>3. Ahead' = Queue!Without(p)
  BY DEF Ahead, Line, Queue!Without
<1>. QED
  BY <1>1, <1>2, <1>3 DEF Queue!Leave

(* A slot given back is a Release of the admission queue. *)
LEMMA QueueRelease ==
  ASSUME NEW p \in Procs, p \in Holders, p \notin Holders',
         \A q \in Procs \ {p} : (q \in Holders') <=> (q \in Holders),
         \A q \in Procs : InLine(q)' <=> InLine(q),
         \A q, r \in Procs :
            InLine(q) /\ InLine(r)
               => (mine'[r] \in older'[mine'[q]] <=> mine[r] \in older[mine[q]]),
         selection' = selection
  PROVE  Queue!Release(p)
<1>1. Holders' = Holders \ {p}
  BY DEF Holders
<1>2. Line' = Line
  BY DEF Line
<1>3. Ahead' = Ahead
  BY DEF Ahead, Line
<1>. QED
  BY <1>1, <1>2, <1>3 DEF Queue!Release

(* Deleting files that no live caller owns keeps the order of those in line. *)
LEMMA OrderKept ==
  ASSUME TypeOK, NEW kept, NEW p \in Procs, NEW q \in Procs,
         mine[p] \in kept \cap Tickets, mine[q] \in kept
  PROVE  mine[q] \in Order(kept)[mine[p]] <=> mine[q] \in older[mine[p]]
  BY DEF Order

(* A live caller's ticket survives the reclaiming of stale ones. *)
LEMMA InLineTicket ==
  ASSUME IInv, NEW p \in Procs, InLine(p)
  PROVE  /\ mine[p] \in Tickets
         /\ mine[p] \in files
         /\ ticketLock[mine[p]] = p
         /\ mine[p] \in Reclaimed
         /\ pc[p] \in {"check", "attempt", "probe", "waiting", "deferred", "cleanup"}
<1>1. mine[p] \in files /\ ticketLock[mine[p]] = p /\ mine[p] \in Tickets
  BY DEF InLine, IInv, TicketInv, TypeOK
<1>2. pc[p] \in Steps \ {"idle", "stamp", "enqueue", "granted", "running"}
  BY DEF InLine, IInv, TicketInv, TypeOK
<1>. QED
  BY <1>1, <1>2, NamesAssumption DEF Reclaimed, Steps

(* The steps that leave the slots, the tickets and the places alone, whatever *)
(* else they do.                                                              *)
LEMMA QuietStep ==
  ASSUME IInv, mine' = mine, slotLock' = slotLock, older' = older,
         selection' = selection,
         \A p \in Procs : mine[p] # None => (pc'[p] \in {"stamp", "idle"}
                                               <=> pc[p] \in {"stamp", "idle"})
  PROVE  UNCHANGED Queue!vars
<1>1. Holders' = Holders
  BY DEF Holders, Holds
<1>2. \A p \in Procs : InLine(p)' <=> InLine(p)
  BY <1>1 DEF InLine
<1>. QED
  BY <1>1, <1>2, QueueStutters

(* The initial state maps to the initial state of the admission queue. *)
LEMMA RefinementInit == Init => Queue!Init
<1> SUFFICES ASSUME Init PROVE Queue!Init
  OBVIOUS
<1>1. Holders = {}
  BY NamesAssumption DEF Init, Holders, Holds
<1>2. \A p \in Procs : ~InLine(p)
  BY DEF Init, InLine
<1>3. Line = {} /\ Ahead = [c \in Procs |-> {}]
  BY <1>2 DEF Line, Ahead
<1>4. selection = "old"
  BY DEF Init
<1>. QED
  BY <1>1, <1>3, <1>4 DEF Queue!Init

(* What changes files only by dropping stale tickets is invisible. *)
LEMMA ReclaimStep ==
  ASSUME IInv, NEW p \in Procs, BeginAttempt(p) \/ CreateTicket(p)
  PROVE  UNCHANGED Queue!vars
<1>1. /\ slotLock' = slotLock /\ selection' = selection
      /\ \A q \in Procs : (q \in Holders') <=> (q \in Holders)
  BY DEF BeginAttempt, CreateTicket, root, Holders, Holds
<1>2. \A q \in Procs : InLine(q)' <=> InLine(q)
  BY <1>1 DEF IInv, TypeOK, TicketInv, InLine, BeginAttempt, CreateTicket
<1>3. ASSUME NEW q \in Procs, NEW r \in Procs, InLine(q), InLine(r)
      PROVE  mine'[r] \in older'[mine'[q]] <=> mine[r] \in older[mine[q]]
  <2>1. mine[q] \in Reclaimed \cap Tickets /\ mine[r] \in Reclaimed
    BY <1>3, InLineTicket
  <2>2. CASE BeginAttempt(p)
    BY <2>1, <2>2, OrderKept DEF BeginAttempt, IInv
  <2>3. CASE CreateTicket(p)
    <3>1. PICK t \in Tickets :
             /\ t \notin Reclaimed
             /\ mine' = [mine EXCEPT ![p] = t]
             /\ older' = [Order(Reclaimed) EXCEPT ![t] = Reclaimed]
      BY <2>3 DEF CreateTicket
    <3>2. q # p /\ r # p
      BY <1>3, <2>3, InLineTicket DEF CreateTicket
    <3>3. mine'[q] = mine[q] /\ mine'[r] = mine[r]
      BY <3>1, <3>2 DEF IInv, TypeOK
    <3>4. older'[mine[q]] = Order(Reclaimed)[mine[q]]
      BY <2>1, <3>1, HelperTypes DEF IInv
    <3>. QED
      BY <2>1, <3>3, <3>4, OrderKept DEF IInv
  <2>. QED
    BY <2>2, <2>3
<1>. QED
  BY <1>1, <1>2, <1>3, QueueStutters

(* A ticket locked is a place at the end of the line, unless a collector was  *)
(* faster.                                                                    *)
LEMMA LockTicketStep ==
  ASSUME IInv, NEW p \in Procs, LockTicket(p)
  PROVE  Queue!Join(p) \/ UNCHANGED Queue!vars
<1>1. /\ mine[p] \in Tickets /\ mine[p] # None /\ pc[p] = "stamp"
      /\ slotLock' = slotLock /\ older' = older /\ selection' = selection
  BY DEF LockTicket, IInv, TypeOK, TicketInv, root
<1>2. Holders' = Holders /\ p \notin Holders
  BY <1>1 DEF Holders, Holds, IInv, SlotInv
<1>3. \A q \in Procs \ {p} : pc'[q] = pc[q] /\ mine'[q] = mine[q]
  BY DEF LockTicket, Fail, IInv, TypeOK
<1>4. \A q \in Procs \ {p} : InLine(q)' <=> InLine(q)
  BY <1>2, <1>3 DEF InLine
<1>5. ~InLine(p)
  BY <1>1 DEF InLine
<1>6. CASE ticketLock[mine[p]] = None
  <2>1. InLine(p)' /\ mine' = mine
    BY <1>1, <1>2, <1>6 DEF LockTicket, InLine, IInv, TypeOK
  <2>2. p \notin Line /\ Line' = Line \cup {p}
    BY <1>4, <1>5, <2>1 DEF Line
  <2>3. \A q \in Line : mine[q] \in older[mine[p]] /\ mine[p] \notin older[mine[q]]
    <3>1. SUFFICES ASSUME NEW q \in Procs, InLine(q)
                   PROVE  mine[q] \in older[mine[p]] /\ mine[p] \notin older[mine[q]]
      BY DEF Line
    <3>2. mine[q] \in files /\ mine[q] # mine[p] /\ mine[p] \in files
      BY <1>1, <1>5, <3>1, InLineTicket DEF IInv, TicketInv
    <3>. QED
      BY <1>1, <3>2 DEF IInv, OrderInv
  <2>4. Ahead' = [Ahead EXCEPT ![p] = Line]
    <3>1. \A q \in Procs : Ahead'[q] = IF q = p THEN Line ELSE Ahead[q]
      BY <1>1, <1>4, <2>1, <2>2, <2>3, IInv DEF Ahead, Line, IInv, OrderInv
    <3>2. Ahead' = [q \in Procs |-> Ahead'[q]] /\ Ahead = [q \in Procs |-> Ahead[q]]
      BY DEF Ahead
    <3>. QED
      BY <3>1, <3>2
  <2>5. selection = "old"
    BY <1>1 DEF IInv, ClosedInv, TypeOK
  <2>. QED
    BY <1>1, <1>2, <2>2, <2>4, <2>5 DEF Queue!Join
<1>7. CASE ticketLock[mine[p]] # None
  <2>1. ~InLine(p)'
    BY <1>7 DEF LockTicket, InLine, IInv, TypeOK
  <2>. QED
    BY <1>1, <1>2, <1>3, <1>4, <1>5, <2>1, QueueStutters
<1>. QED
  BY <1>6, <1>7

(* An admission takes the first in line, or a newcomer past an empty line. *)
LEMMA GrantStep ==
  ASSUME IInv, NEW p \in Procs, Grant(p)
  PROVE  Queue!Admit(p)
<1>1. Holders' = Holders \cup {p} /\ p \notin Holders
  BY GrantAddsHolder
<1>2. Cardinality(Holders) < Limit[p]
  BY GrantHasRoom
<1>3. /\ mine' = mine /\ older' = older /\ selection' = selection
      /\ selection = "old" /\ pc' = [pc EXCEPT ![p] = "cleanup"]
  BY DEF Grant, Valid, queue, root
<1>4. ~InLine(p)' /\ \A q \in Procs \ {p} : InLine(q)' <=> InLine(q)
  BY <1>1, <1>3 DEF InLine, IInv, TypeOK
<1>5. Line' = Line \ {p}
  BY <1>4 DEF Line
<1>6. Ahead' = Queue!Without(p)
  BY <1>3, <1>4 DEF Ahead, Line, Queue!Without
<1>7. \A q \in Line \ {p} : mine[p] # None /\ mine[q] \notin older[mine[p]]
  <2>1. SUFFICES ASSUME NEW q \in Procs, q # p, InLine(q)
                 PROVE  mine[p] # None /\ mine[q] \notin older[mine[p]]
    BY DEF Line
  <2>2. mine[q] \in files
    BY <2>1, InLineTicket
  <2>3. Pending(p) = {}
    BY DEF Grant, NoRoom
  <2>. QED
    BY <2>2, <2>3 DEF Pending
<1>8. p \in Line => mine[p] \notin older[mine[p]]
  BY InLineTicket DEF Line, IInv, OrderInv
<1>9. IF p \in Line THEN Ahead[p] = {} ELSE Line = {}
  <2>1. CASE p \in Line
    BY <1>7, <1>8, <2>1 DEF Ahead, Line
  <2>2. CASE p \notin Line
    <3>1. pc[p] = "probe"
      BY DEF Grant
    <3>2. mine[p] = None
      BY <1>1, <2>2, <3>1 DEF Line, InLine
    <3>. QED
      BY <1>7, <2>2, <3>2
  <2>. QED
    BY <2>1, <2>2
<1>10. Queue!Cardinality(Holders) = Cardinality(Holders)
  BY DEF Cardinality, Queue!Cardinality
<1>. QED
  BY <1>1, <1>2, <1>3, <1>5, <1>6, <1>9, <1>10 DEF Queue!Admit

(* The finally clause takes a caller out of the line, if it still is in it. *)
LEMMA CleanupStep ==
  ASSUME IInv, NEW p \in Procs, Cleanup(p)
  PROVE  Queue!Leave(p) \/ UNCHANGED Queue!vars
<1>1. /\ slotLock' = slotLock /\ selection' = selection
      /\ mine' = [mine EXCEPT ![p] = None]
      /\ older' = Order(files \ {mine[p]})
      /\ \A q \in Procs \ {p} : pc'[q] = pc[q]
  BY DEF Cleanup, root, IInv, TypeOK
<1>2. Holders' = Holders
  BY <1>1 DEF Holders, Holds
<1>3. ~InLine(p)' /\ \A q \in Procs \ {p} : InLine(q)' <=> InLine(q)
  BY <1>1, <1>2 DEF InLine, IInv, TypeOK
<1>4. ASSUME NEW q \in Procs \ {p}, NEW r \in Procs \ {p}, InLine(q), InLine(r)
      PROVE  mine'[r] \in older'[mine'[q]] <=> mine[r] \in older[mine[q]]
  <2>1. mine[q] \in (files \ {mine[p]}) \cap Tickets /\ mine[r] \in files \ {mine[p]}
    BY <1>4, InLineTicket, NamesAssumption DEF IInv, TicketInv
  <2>2. mine'[q] = mine[q] /\ mine'[r] = mine[r]
    BY <1>1 DEF IInv, TypeOK
  <2>. QED
    BY <1>1, <2>1, <2>2, OrderKept DEF IInv
<1>5. CASE InLine(p)
  BY <1>1, <1>2, <1>3, <1>4, <1>5, QueueLeave
<1>6. CASE ~InLine(p)
  <2>1. \A q \in Procs : InLine(q)' <=> InLine(q)
    BY <1>3, <1>6
  <2>. QED
    BY <1>1, <1>2, <1>4, <1>6, <2>1, QueueStutters
<1>. QED
  BY <1>5, <1>6

(* A slot given back. *)
LEMMA GiveBackStep ==
  ASSUME IInv, NEW p \in Procs, GiveBack(p)
  PROVE  Queue!Release(p) \/ UNCHANGED Queue!vars
<1>1. /\ slotLock' = DropSlots(p) /\ selection' = selection
      /\ mine' = mine /\ older' = older /\ mine[p] = None
      /\ \A q \in Procs \ {p} : pc'[q] = pc[q]
  BY DEF GiveBack, queue, root, IInv, TypeOK, TicketInv
<1>2. p \notin Holders' /\ \A q \in Procs \ {p} : q \in Holders' <=> q \in Holders
  BY <1>1, NamesAssumption DEF DropSlots, Holders, Holds
<1>3. \A q \in Procs : InLine(q)' <=> InLine(q)
  BY <1>1, <1>2 DEF InLine
<1>4. CASE p \in Holders
  BY <1>1, <1>2, <1>3, <1>4, QueueRelease
<1>5. CASE p \notin Holders
  <2>1. \A q \in Procs : q \in Holders' <=> q \in Holders
    BY <1>2, <1>5
  <2>. QED
    BY <1>1, <1>3, <2>1, QueueStutters
<1>. QED
  BY <1>4, <1>5

(* A death: the kernel gives back what the process held. *)
LEMMA CrashStep ==
  ASSUME IInv, NEW p \in Procs, Crash(p)
  PROVE  Queue!Release(p) \/ Queue!Leave(p) \/ UNCHANGED Queue!vars
<1>1. /\ slotLock' = DropSlots(p) /\ selection' = selection
      /\ mine' = [mine EXCEPT ![p] = None] /\ older' = older
      /\ \A q \in Procs \ {p} : pc'[q] = pc[q]
  BY DEF Crash, root, IInv, TypeOK
<1>2. p \notin Holders' /\ \A q \in Procs \ {p} : q \in Holders' <=> q \in Holders
  BY <1>1, NamesAssumption DEF DropSlots, Holders, Holds
<1>3. ~InLine(p)' /\ \A q \in Procs \ {p} : InLine(q)' <=> InLine(q)
  BY <1>1, <1>2 DEF InLine, IInv, TypeOK
<1>4. \A q \in Procs \ {p} : mine'[q] = mine[q]
  BY <1>1 DEF IInv, TypeOK
<1>5. CASE InLine(p)
  <2>1. p \notin Holders
    BY <1>5 DEF InLine
  <2>2. \A q \in Procs : q \in Holders' <=> q \in Holders
    BY <1>2, <2>1
  <2>. QED
    BY <1>1, <1>3, <1>4, <1>5, <2>2, QueueLeave
<1>6. CASE ~InLine(p)
  <2>1. \A q \in Procs : InLine(q)' <=> InLine(q)
    BY <1>3, <1>6
  <2>2. \A q, r \in Procs : InLine(q) /\ InLine(r)
           => (mine'[r] \in older'[mine'[q]] <=> mine[r] \in older[mine[q]])
    BY <1>1, <1>4, <1>6
  <2>3. CASE p \in Holders
    BY <1>1, <1>2, <2>1, <2>2, <2>3, QueueRelease
  <2>4. CASE p \notin Holders
    <3>1. \A q \in Procs : q \in Holders' <=> q \in Holders
      BY <1>2, <2>4
    <3>. QED
      BY <1>1, <2>1, <2>2, <3>1, QueueStutters
  <2>. QED
    BY <2>3, <2>4
<1>. QED
  BY <1>5, <1>6

(* The steps of a caller that the admission queue does not see. *)
LEMMA LoopStep ==
  ASSUME IInv, NEW p \in Procs,
         \/ Check(p) \/ Contended(p) \/ RefusedEntry(p) \/ ProbeSlot(p)
         \/ TurnedAway(p) \/ RefusedSlot(p) \/ NothingLeft(p) \/ HintWake(p)
         \/ TimerWake(p) \/ Confirm(p) \/ Arrive(p) \/ WatchBreaks(p)
         \/ Expire(p) \/ Invalidate(p)
  PROVE  UNCHANGED Queue!vars
<1>1. /\ mine' = mine /\ slotLock' = slotLock /\ older' = older
      /\ selection' = selection
  BY DEF Check, Contended, RefusedEntry, ProbeSlot, TurnedAway, RefusedSlot,
         NothingLeft, HintWake, TimerWake, Confirm, Arrive, WatchBreaks, Expire,
         Invalidate, call, queue, root
<1>2. /\ \A q \in Procs \ {p} : pc'[q] = pc[q]
      /\ mine[p] # None => (pc'[p] \in {"stamp", "idle"}
                               <=> pc[p] \in {"stamp", "idle"})
  BY DEF Check, Contended, RefusedEntry, ProbeSlot, TurnedAway, RefusedSlot,
         NothingLeft, HintWake, TimerWake, Confirm, Arrive, WatchBreaks, Expire,
         Invalidate, call, Fail, Park, Parked, IInv, TypeOK, TicketInv
<1>. QED
  BY <1>1, <1>2, QuietStep

(* Collectors and an unfinished storage choice are invisible too. *)
LEMMA VisitorStep ==
  ASSUME IInv,
         \/ \E s \in Slots : CollectorProbesSlot(s)
         \/ \E t \in Tickets : CollectorProbesTicket(t)
         \/ CollectorCloses \/ ChooserLocks \/ ChooserProves \/ ChooserStops
  PROVE  UNCHANGED Queue!vars
<1>1. /\ mine' = mine /\ pc' = pc /\ older' = older /\ selection' = selection
  BY DEF CollectorProbesSlot, CollectorProbesTicket, CollectorCloses, ChooserLocks,
         ChooserProves, ChooserStops, call, queue, root
<1>2. \A q \in Procs, s \in Slots : slotLock'[s] = q <=> slotLock[s] = q
  <2>1. ASSUME NEW s \in Slots, CollectorProbesSlot(s)
        PROVE  \A q \in Procs, r \in Slots : slotLock'[r] = q <=> slotLock[r] = q
    BY <2>1, NamesAssumption DEF CollectorProbesSlot, IInv, TypeOK
  <2>2. CASE CollectorCloses
    BY <2>2, NamesAssumption DEF CollectorCloses, DropSlots
  <2>3. CASE slotLock' = slotLock
    BY <2>3
  <2>. QED
    BY <2>1, <2>2, <2>3 DEF CollectorProbesTicket, ChooserLocks, ChooserProves,
                            ChooserStops
<1>3. \A q \in Procs : q \in Holders' <=> q \in Holders
  BY <1>2 DEF Holders, Holds
<1>4. \A q \in Procs : InLine(q)' <=> InLine(q)
  BY <1>1, <1>3 DEF InLine
<1>. QED
  BY <1>1, <1>3, <1>4, QueueStutters

(* A publication closes the pool. *)
LEMMA PublishStep ==
  ASSUME IInv, ChooserPublishes
  PROVE  Queue!Close
<1>1. /\ mine' = mine /\ pc' = pc /\ older' = older /\ selection' = "new"
      /\ slotLock' = slotLock
  BY DEF ChooserPublishes, call, queue
<1>2. Holders = {}
  BY DEF ChooserPublishes, IInv, ClosedInv, Holders, Holds
<1>3. \A q \in Procs : ~InLine(q)
  <2>1. SUFFICES ASSUME NEW q \in Procs, InLine(q) PROVE FALSE
    OBVIOUS
  <2>2. mine[q] \in Tickets /\ ticketLock[mine[q]] = q
    BY <2>1, InLineTicket
  <2>. QED
    BY <2>2 DEF ChooserPublishes, IInv, ClosedInv
<1>4. Holders' = Holders
  BY <1>1 DEF Holders, Holds
<1>5. \A q \in Procs : ~InLine(q)'
  BY <1>1, <1>3, <1>4 DEF InLine
<1>6. Line = {} /\ Line' = {} /\ Ahead' = Ahead
  BY <1>3, <1>5 DEF Line, Ahead
<1>7. (selection = "old")' = FALSE
  BY <1>1
<1>. QED
  BY <1>2, <1>4, <1>6, <1>7 DEF Queue!Close

(* Every step maps to a step of the admission queue, or to none. *)
LEMMA RefinementNext == IInv /\ [Next]_vars => [Queue!Next]_Queue!vars
<1> SUFFICES ASSUME IInv, [Next]_vars PROVE [Queue!Next]_Queue!vars
  OBVIOUS
<1>1. ASSUME NEW p \in Procs, Advance(p) PROVE [Queue!Next]_Queue!vars
  BY <1>1, ReclaimStep, LockTicketStep, GrantStep, CleanupStep, GiveBackStep, LoopStep
  DEF Advance, Queue!Next
<1>2. ASSUME NEW p \in Procs, Disturb(p) PROVE [Queue!Next]_Queue!vars
  BY <1>2, CrashStep, LoopStep DEF Disturb, Queue!Next
<1>3. CASE Choose
  BY <1>3, PublishStep, VisitorStep DEF Choose, Queue!Next
<1>4. CASE \/ \E s \in Slots : CollectorProbesSlot(s)
           \/ \E t \in Tickets : CollectorProbesTicket(t)
           \/ CollectorCloses \/ ChooserLocks
  BY <1>4, VisitorStep
<1>5. CASE UNCHANGED vars
  <2>1. /\ mine' = mine /\ slotLock' = slotLock /\ older' = older /\ pc' = pc
        /\ selection' = selection
    BY <1>5 DEF vars, call, queue, root
  <2>. QED
    BY <2>1, QuietStep
<1>. QED
  BY <1>1, <1>2, <1>3, <1>4, <1>5 DEF Next

(* The allocator, with its probes, stale tickets, hints, crashes and visitors *)
(* from outside, is a first-come-first-served pool of slots.                  *)
THEOREM Refinement == Spec => ImplementsQueue
<1>1. Init => Queue!Init
  BY RefinementInit
<1>2. IInv /\ [Next]_vars => [Queue!Next]_Queue!vars
  BY RefinementNext
<1>. QED
  BY <1>1, <1>2, Consistent, PTL DEF Spec, ImplementsQueue, Queue!Spec

-----------------------------------------------------------------------------
(* No hint is missed. *)

(* A probe that nobody hinted: the slots it found taken still are.             *)
ProbeInv ==
    /\ (\A p \in Procs : pc[p] # "probe") => scan = 0 /\ free = {}
    /\ \A p \in Procs : pc[p] = "probe" /\ watch[p] = "quiet" =>
          \A s \in 0 .. scan - 1 : s \in free \/ slotLock[s] # None

HintInv == ProbeInv /\ NoHintMissed

Asleep(p) == pc[p] = "waiting" /\ watch[p] = "quiet"
Probing(p) == pc[p] = "probe" /\ watch[p] = "quiet"

(* Nothing is released, or nobody sleeps without a hint.                       *)
SlotsKept == \A s \in Slots : slotLock[s] # None => slotLock'[s] # None
AllHinted == \A p \in Procs : watch'[p] # "quiet"

LEMMA SlotsFinite == IsFiniteSet(Slots) /\ Cardinality(Slots) = MaxSlots
<1>1. 0 \in Int /\ MaxSlots - 1 \in Int BY LimitAssumption
<1>2. /\ IsFiniteSet(0 .. MaxSlots - 1)
      /\ Cardinality(0 .. MaxSlots - 1) =
            IF 0 > MaxSlots - 1 THEN 0 ELSE MaxSlots - 1 - 0 + 1
  BY <1>1, FS_Interval
<1> QED BY <1>2, LimitAssumption DEF Slots

LEMMA OccupiedGrows ==
  ASSUME SlotsKept
  PROVE  /\ Cardinality(Occupied) \in Nat /\ Cardinality(Occupied') \in Nat
         /\ Cardinality(Occupied) <= Cardinality(Occupied')
<1>1. Occupied \in SUBSET Occupied' /\ Occupied' \in SUBSET Slots
  BY DEF SlotsKept, Occupied
<1>2. IsFiniteSet(Occupied') BY <1>1, SlotsFinite, FS_Subset
<1>3. IsFiniteSet(Occupied) /\ Cardinality(Occupied) <= Cardinality(Occupied')
  BY <1>1, <1>2, FS_Subset
<1> QED BY <1>2, <1>3, FS_CardinalityType

(* Who sleeps through a step had nothing to be woken for before it.            *)
LEMMA SleepersKept ==
  ASSUME NoHintMissed, TypeOK,
         \A p \in Procs : Asleep(p)' => Asleep(p),
         SlotsKept \/ AllHinted,
         \A p \in Procs : Asleep(p)' /\ Pending(p) # {} => Pending(p)' # {}
  PROVE  NoHintMissed'
<1> SUFFICES ASSUME NEW p \in Procs, Asleep(p)'
             PROVE  Cardinality(Occupied') >= Limit[p] \/ Pending(p)' # {}
  BY DEF NoHintMissed, Asleep
<1>1. SlotsKept BY DEF AllHinted, Asleep
<1>2. Cardinality(Occupied) >= Limit[p] \/ Pending(p) # {} BY DEF NoHintMissed, Asleep
<1>3. Limit[p] \in Nat BY LimitAssumption
<1> QED BY <1>1, <1>2, <1>3, OccupiedGrows

LEMMA ProbesKept ==
  ASSUME ProbeInv, TypeOK, UNCHANGED probe,
         \A p \in Procs : Probing(p)' => Probing(p),
         \A p \in Procs : pc[p] = "probe" => pc'[p] = "probe",
         SlotsKept \/ AllHinted
  PROVE  ProbeInv'
<1>1. scan' = scan /\ free' = free /\ scan \in 0 .. MaxSlots BY DEF probe, TypeOK
<1>2. (\A p \in Procs : pc'[p] # "probe") => scan' = 0 /\ free' = {}
  BY <1>1 DEF ProbeInv
<1>3. ASSUME NEW p \in Procs, Probing(p)', NEW s \in 0 .. scan - 1
      PROVE  s \in free \/ slotLock'[s] # None
  <2>1. SlotsKept BY <1>3 DEF AllHinted, Probing
  <2>2. s \in free \/ slotLock[s] # None BY <1>3 DEF ProbeInv, Probing
  <2>3. s \in Slots BY <1>1, LimitAssumption DEF Slots
  <2> QED BY <2>1, <2>2, <2>3 DEF SlotsKept
<1> QED BY <1>1, <1>2, <1>3 DEF ProbeInv, Probing

(* Only the allocator's holder probes. *)
LEMMA OneProbes ==
  ASSUME IInv
  PROVE  /\ \A p \in Procs : pc[p] = "probe" => allocator = p
         /\ allocator = None => \A p \in Procs : pc[p] # "probe"
  BY NamesAssumption DEF IInv, AllocatorInv

(* One call moves, neither to sleep nor into a probe nor out of one, and       *)
(* releases nothing.                                                           *)
LEMMA MovedOn ==
  ASSUME HintInv, TypeOK, NEW p \in Procs, NEW x \in Steps \ {"waiting", "probe"},
         pc' = [pc EXCEPT ![p] = x], pc[p] # "probe",
         \A q \in Procs : q # p => watch'[q] = watch[q] /\ mine'[q] = mine[q],
         UNCHANGED <<slotLock, files, older, probe>>
  PROVE  HintInv'
<1>1. \A q \in Procs : pc'[q] = IF q = p THEN x ELSE pc[q] BY DEF TypeOK
<1>2. \A q \in Procs : /\ Asleep(q)' => Asleep(q) /\ q # p
                       /\ Probing(q)' => Probing(q)
                       /\ pc[q] = "probe" => pc'[q] = "probe"
  BY <1>1 DEF Asleep, Probing
<1>3. SlotsKept BY DEF SlotsKept
<1>4. \A q \in Procs : Asleep(q)' /\ Pending(q) # {} => Pending(q)' # {}
  BY <1>2 DEF Pending
<1> QED BY <1>2, <1>3, <1>4, SleepersKept, ProbesKept DEF HintInv

(* Nobody moves, and nothing is released without a hint.                       *)
LEMMA StayedAsleep ==
  ASSUME HintInv, TypeOK, UNCHANGED <<pc, mine, files, older, probe>>,
         \/ SlotsKept /\ UNCHANGED watch
         \/ AllHinted
  PROVE  HintInv'
<1>1. \A q \in Procs : /\ Asleep(q)' => Asleep(q)
                       /\ Probing(q)' => Probing(q)
  BY DEF Asleep, Probing, AllHinted
<1>2. \A q \in Procs : Pending(q) # {} => Pending(q)' # {} BY DEF Pending
<1> QED BY <1>1, <1>2, SleepersKept, ProbesKept DEF HintInv

LEMMA HintedAll ==
  ASSUME TypeOK
  PROVE  \A p \in Procs : Hinted[p] # "quiet"
  BY DEF TypeOK, Hinted

LEMMA HintLoop ==
  ASSUME IInv, HintInv, NEW p \in Procs,
         \/ Check(p) \/ Contended(p) \/ RefusedEntry(p) \/ LockTicket(p)
         \/ HintWake(p) \/ TimerWake(p) \/ WatchBreaks(p) \/ Confirm(p) \/ Arrive(p)
  PROVE  HintInv'
<1>0. TypeOK BY DEF IInv
<1>1. UNCHANGED <<slotLock, files, older, probe>>
  BY DEF Check, Contended, RefusedEntry, LockTicket, HintWake, TimerWake, WatchBreaks,
         Confirm, Arrive, queue
<1>2. \A q \in Procs : q # p => watch'[q] = watch[q] /\ mine'[q] = mine[q]
  BY <1>0 DEF Check, Contended, RefusedEntry, LockTicket, HintWake, TimerWake, WatchBreaks,
              Confirm, Arrive, TypeOK
<1>3. pc[p] # "probe"
  BY DEF Check, Contended, RefusedEntry, LockTicket, HintWake, TimerWake, WatchBreaks,
         Confirm, Arrive, Parked
<1>4. \E x \in Steps \ {"waiting", "probe"} : pc' = [pc EXCEPT ![p] = x]
  <2>1. CASE Check(p) BY <2>1, CheckMoves DEF Steps
  <2>2. CASE Contended(p) BY <2>2 DEF Contended, Park, Fail, Steps
  <2>3. CASE RefusedEntry(p) \/ LockTicket(p)
    BY <2>3 DEF RefusedEntry, LockTicket, Fail, Steps
  <2>4. CASE HintWake(p) \/ TimerWake(p) \/ WatchBreaks(p) \/ Confirm(p) \/ Arrive(p)
    BY <2>4 DEF HintWake, TimerWake, WatchBreaks, Confirm, Arrive, Steps
  <2>5. CASE UNCHANGED pc /\ LockTicket(p) BY <2>5 DEF LockTicket, Fail, Steps
  <2> QED BY <2>1, <2>2, <2>3, <2>4
<1> QED BY <1>0, <1>1, <1>2, <1>3, <1>4, MovedOn

LEMMA HintVisitors ==
  ASSUME IInv, HintInv,
         \/ \E p \in Procs : Expire(p) \/ Invalidate(p)
         \/ \E s \in Slots : CollectorProbesSlot(s)
         \/ \E t \in Tickets : CollectorProbesTicket(t)
         \/ CollectorCloses \/ ChooserLocks \/ Choose \/ UNCHANGED vars
  PROVE  HintInv'
<1>0. TypeOK BY DEF IInv
<1>1. UNCHANGED <<pc, mine, files, older, probe>>
  BY DEF Expire, Invalidate, CollectorProbesSlot, CollectorProbesTicket, CollectorCloses,
         ChooserLocks, Choose, ChooserProves, ChooserPublishes, ChooserStops, vars, call,
         queue
<1>2. CASE CollectorCloses
  <2>1. CASE \E s \in Slots : Holds(Collector, s)
    <3>1. watch' = Hinted BY <1>2, <2>1 DEF CollectorCloses
    <3> QED BY <1>0, <1>1, <3>1, HintedAll, StayedAsleep DEF AllHinted
  <2>2. CASE ~\E s \in Slots : Holds(Collector, s)
    <3>1. UNCHANGED watch /\ slotLock' = DropSlots(Collector)
      BY <1>2, <2>2 DEF CollectorCloses
    <3>2. SlotsKept BY <2>2, <3>1 DEF SlotsKept, DropSlots, Holds
    <3> QED BY <1>0, <1>1, <3>1, <3>2, StayedAsleep
  <2> QED BY <2>1, <2>2
<1>3. CASE \E s \in Slots : CollectorProbesSlot(s)
  <2>1. PICK s \in Slots : CollectorProbesSlot(s) BY <1>3
  <2>2. UNCHANGED watch BY <2>1 DEF CollectorProbesSlot, call
  <2>3. SlotsKept
    BY <1>0, <2>1, NamesAssumption DEF CollectorProbesSlot, SlotsKept, TypeOK
  <2> QED BY <1>0, <1>1, <2>2, <2>3, StayedAsleep
<1>4. CASE UNCHANGED <<slotLock, watch>>
  BY <1>0, <1>1, <1>4, StayedAsleep DEF SlotsKept
<1>5. \/ CollectorCloses \/ \E s \in Slots : CollectorProbesSlot(s)
      \/ UNCHANGED <<slotLock, watch>>
  BY DEF Expire, Invalidate, CollectorProbesTicket, ChooserLocks, Choose, ChooserProves,
         ChooserPublishes, ChooserStops, vars, call
<1> QED BY <1>2, <1>3, <1>4, <1>5

(* The ticket files that go are a hint to everybody; while none goes, what is  *)
(* ahead of a ticket stays.                                                    *)
LEMMA LineKept ==
  ASSUME IInv, NEW p \in Procs, Order(files) = older', files \subseteq files',
         mine'[p] = mine[p], Pending(p) # {}
  PROVE  Pending(p)' # {}
<1>1. CASE mine[p] = None BY <1>1 DEF Pending
<1>2. CASE mine[p] # None
  <2>1. mine[p] \in Tickets /\ mine[p] \in files
    BY <1>2 DEF IInv, TypeOK, TicketInv
  <2>2. older'[mine[p]] = older[mine[p]] \cap files BY <2>1 DEF Order
  <2> QED BY <1>2, <2>1, <2>2 DEF Pending
<1> QED BY <1>1, <1>2

LEMMA HintCreate ==
  ASSUME IInv, HintInv, NEW p \in Procs, CreateTicket(p)
  PROVE  HintInv'
<1>0. TypeOK BY DEF IInv
<1>1. PICK t \in Tickets : /\ t \notin Reclaimed /\ mine' = [mine EXCEPT ![p] = t]
                           /\ files' = Reclaimed \cup {t}
                           /\ older' = [Order(Reclaimed) EXCEPT ![t] = Reclaimed]
  BY DEF CreateTicket
<1>2. /\ pc[p] = "enqueue" /\ pc' = [pc EXCEPT ![p] = "stamp"]
      /\ watch' = IF Reclaimed # files THEN Hinted ELSE watch
      /\ UNCHANGED <<slotLock, probe>>
  BY DEF CreateTicket
<1>3. SlotsKept BY <1>2 DEF SlotsKept
<1>4. \A q \in Procs : pc'[q] = IF q = p THEN "stamp" ELSE pc[q] BY <1>0, <1>2 DEF TypeOK
<1>5. CASE Reclaimed # files
  <2>1. AllHinted BY <1>0, <1>2, <1>5, HintedAll DEF AllHinted
  <2>2. \A q \in Procs : ~Asleep(q)' /\ ~Probing(q)' BY <2>1 DEF AllHinted, Asleep, Probing
  <2> QED BY <1>0, <1>2, <1>3, <1>4, <2>1, <2>2, SleepersKept, ProbesKept DEF HintInv
<1>6. CASE Reclaimed = files
  <2>1. UNCHANGED watch BY <1>2, <1>6
  <2>2. \A q \in Procs : /\ Asleep(q)' => Asleep(q) /\ q # p
                         /\ Probing(q)' => Probing(q)
                         /\ pc[q] = "probe" => pc'[q] = "probe"
    BY <1>2, <1>4, <2>1 DEF Asleep, Probing
  <2>3. ASSUME NEW q \in Procs, Asleep(q)', Pending(q) # {}
        PROVE  Pending(q)' # {}
    <3>1. mine'[q] = mine[q] BY <1>0, <1>1, <2>2, <2>3 DEF TypeOK
    <3>2. CASE mine[q] = None BY <1>1, <1>6, <2>3, <3>1, <3>2 DEF Pending
    <3>3. CASE mine[q] # None
      <4>1. mine[q] \in Tickets /\ mine[q] \in files /\ mine[q] # t
        BY <1>1, <1>6, <3>3 DEF IInv, TypeOK, TicketInv
      <4>2. older'[mine[q]] = older[mine[q]] \cap files
        BY <1>1, <1>6, <4>1 DEF Order
      <4> QED BY <1>1, <1>6, <2>3, <3>1, <3>3, <4>1, <4>2 DEF Pending
    <3> QED BY <3>2, <3>3
  <2> QED BY <1>0, <1>2, <1>3, <2>2, <2>3, SleepersKept, ProbesKept DEF HintInv
<1> QED BY <1>5, <1>6

(* A probe begins with no slot looked at. *)
LEMMA HintBegin ==
  ASSUME IInv, HintInv, NEW p \in Procs, BeginAttempt(p)
  PROVE  HintInv'
<1>0. TypeOK BY DEF IInv
<1>1. /\ allocator = None /\ pc' = [pc EXCEPT ![p] = "probe"]
      /\ files' = Reclaimed /\ older' = Order(Reclaimed)
      /\ watch' = IF Reclaimed # files THEN Hinted ELSE watch
      /\ UNCHANGED <<mine, slotLock, probe>>
  BY DEF BeginAttempt
<1>2. SlotsKept BY <1>1 DEF SlotsKept
<1>3. \A q \in Procs : pc'[q] = IF q = p THEN "probe" ELSE pc[q] BY <1>0, <1>1 DEF TypeOK
<1>4. scan' = 0 /\ free' = {}
  BY <1>1, OneProbes DEF HintInv, ProbeInv, probe
<1>5. ProbeInv' BY <1>4 DEF ProbeInv
<1>6. CASE Reclaimed # files
  <2>1. AllHinted BY <1>0, <1>1, <1>6, HintedAll DEF AllHinted
  <2>2. \A q \in Procs : ~Asleep(q)' BY <2>1 DEF AllHinted, Asleep
  <2> QED BY <1>0, <1>5, <2>1, <2>2, SleepersKept DEF HintInv
<1>7. CASE Reclaimed = files
  <2>1. \A q \in Procs : Asleep(q)' => Asleep(q) BY <1>1, <1>3, <1>7 DEF Asleep
  <2>2. \A q \in Procs : Pending(q) # {} => Pending(q)' # {}
    BY <1>1, <1>7, LineKept
  <2> QED BY <1>0, <1>2, <1>5, <2>1, <2>2, SleepersKept DEF HintInv
<1> QED BY <1>6, <1>7

LEMMA HintProbe ==
  ASSUME IInv, HintInv, NEW p \in Procs, ProbeSlot(p)
  PROVE  HintInv'
<1>0. TypeOK BY DEF IInv
<1>1. /\ pc[p] = "probe" /\ scan < MaxSlots /\ scan' = scan + 1
      /\ free' = IF slotLock[scan] = None THEN free \cup {scan} ELSE free
      /\ UNCHANGED <<pc, watch, mine, slotLock, files, older>>
  BY DEF ProbeSlot, call, queue
<1>2. scan \in Nat BY <1>0 DEF TypeOK
<1>3. ProbeInv'
  <2>1. ASSUME NEW q \in Procs, Probing(q), NEW s \in 0 .. scan
        PROVE  s \in free' \/ slotLock[s] # None
    <3>1. CASE s = scan BY <1>1, <3>1
    <3>2. CASE s # scan
      <4>1. s \in 0 .. scan - 1 BY <1>2, <3>2
      <4> QED BY <1>1, <2>1, <4>1 DEF HintInv, ProbeInv, Probing
    <3> QED BY <3>1, <3>2
  <2>2. \A s \in 0 .. scan' - 1 : s \in 0 .. scan BY <1>1, <1>2
  <2> QED BY <1>1, <2>1, <2>2 DEF ProbeInv, Probing
<1>4. NoHintMissed' BY <1>1 DEF HintInv, NoHintMissed, Occupied, Pending
<1> QED BY <1>3, <1>4 DEF HintInv

(* The probe is over, and the allocator's holder was the only one to probe.    *)
LEMMA ProbeLeft ==
  ASSUME IInv, NEW p \in Procs, pc[p] = "probe", NEW x \in Steps \ {"probe"},
         pc' = [pc EXCEPT ![p] = x], LeaveProbe
  PROVE  ProbeInv'
<1>1. scan' = 0 /\ free' = {} BY DEF LeaveProbe
<1>2. \A q \in Procs : pc'[q] # "probe" BY OneProbes DEF IInv, TypeOK
<1> QED BY <1>1, <1>2 DEF ProbeInv

(* Too many slots were found taken, and they still are.                        *)
LEMMA FoundTaken ==
  ASSUME IInv, HintInv, NEW p \in Procs, Probing(p), scan = MaxSlots,
         MaxSlots - Cardinality(free) >= Limit[p]
  PROVE  Cardinality(Occupied) >= Limit[p]
<1>1. free \subseteq Slots BY DEF IInv, TypeOK, Slots
<1>2. Slots \ free \in SUBSET Occupied /\ Occupied \in SUBSET Slots
  BY DEF HintInv, ProbeInv, Probing, Occupied, Slots
<1>3. IsFiniteSet(free) /\ Cardinality(free) \in Nat
  BY <1>1, SlotsFinite, FS_Subset, FS_CardinalityType
<1>4. /\ IsFiniteSet(Slots \ free)
      /\ Cardinality(Slots \ free) = Cardinality(Slots) - Cardinality(Slots \cap free)
  BY SlotsFinite, FS_Difference
<1>5. Cardinality(Slots \ free) = MaxSlots - Cardinality(free)
  <2>1. Slots \cap free = free BY <1>1
  <2> QED BY <1>4, <2>1, SlotsFinite
<1>6. IsFiniteSet(Occupied) /\ Cardinality(Occupied) \in Nat
  BY <1>2, SlotsFinite, FS_Subset, FS_CardinalityType
<1>7. Cardinality(Slots \ free) <= Cardinality(Occupied) BY <1>2, <1>6, FS_Subset
<1>8. Limit[p] \in Nat /\ MaxSlots \in Nat BY LimitAssumption
<1> QED BY <1>3, <1>5, <1>6, <1>7, <1>8

LEMMA HintTurnedAway ==
  ASSUME IInv, HintInv, NEW p \in Procs, TurnedAway(p)
  PROVE  HintInv'
<1>0. TypeOK BY DEF IInv
<1>1. /\ pc[p] = "probe" /\ scan = MaxSlots /\ NoRoom(p) /\ LeaveProbe
      /\ UNCHANGED <<mine, watch, slotLock, files, older>>
  BY DEF TurnedAway, queue
<1>2. PICK x \in {"waiting", "cleanup"} : pc' = [pc EXCEPT ![p] = x]
  BY DEF TurnedAway, Park, Fail
<1>3. ProbeInv' BY <1>1, <1>2, ProbeLeft DEF Steps
<1>4. ASSUME NEW q \in Procs, Asleep(q)'
      PROVE  Cardinality(Occupied) >= Limit[q] \/ Pending(q) # {}
  <2>1. CASE q = p
    <3>1. Probing(p) BY <1>1, <1>4, <2>1 DEF Asleep, Probing
    <3> QED BY <1>1, <2>1, <3>1, FoundTaken DEF NoRoom
  <2>2. CASE q # p
    <3>1. Asleep(q) BY <1>0, <1>1, <1>2, <1>4, <2>2 DEF Asleep, TypeOK
    <3> QED BY <3>1 DEF HintInv, NoHintMissed, Asleep
  <2> QED BY <2>1, <2>2
<1>5. NoHintMissed' BY <1>1, <1>4 DEF NoHintMissed, Asleep, Occupied, Pending
<1> QED BY <1>3, <1>5 DEF HintInv

LEMMA HintDecided ==
  ASSUME IInv, HintInv, NEW p \in Procs, RefusedSlot(p) \/ Grant(p) \/ NothingLeft(p)
  PROVE  HintInv'
<1>0. TypeOK BY DEF IInv
<1>1. /\ pc[p] = "probe" /\ LeaveProbe /\ pc' = [pc EXCEPT ![p] = "cleanup"]
      /\ UNCHANGED <<mine, watch, files, older>>
  BY DEF RefusedSlot, Grant, NothingLeft, Fail, queue
<1>2. SlotsKept
  <2>1. CASE Grant(p)
    <3>1. PICK s \in free : slotLock' = [slotLock EXCEPT ![s] = p] BY <2>1 DEF Grant
    <3> QED BY <1>0, <3>1, NamesAssumption DEF SlotsKept, TypeOK
  <2>2. CASE UNCHANGED slotLock BY <2>2 DEF SlotsKept
  <2> QED BY <2>1, <2>2 DEF RefusedSlot, NothingLeft
<1>3. ProbeInv' BY <1>1, ProbeLeft DEF Steps
<1>4. \A q \in Procs : Asleep(q)' => Asleep(q) BY <1>0, <1>1 DEF Asleep, TypeOK
<1>5. \A q \in Procs : Pending(q) # {} => Pending(q)' # {} BY <1>1 DEF Pending
<1> QED BY <1>0, <1>2, <1>3, <1>4, <1>5, SleepersKept DEF HintInv

(* The finally clause: who unlinks his ticket file hints to the others.        *)
LEMMA HintCleanup ==
  ASSUME IInv, HintInv, NEW p \in Procs, Cleanup(p)
  PROVE  HintInv'
<1>0. TypeOK BY DEF IInv
<1>1. /\ pc[p] = "cleanup" /\ files' = files \ {mine[p]} /\ mine' = [mine EXCEPT ![p] = None]
      /\ watch' = [(IF mine[p] \in files THEN Hinted ELSE watch) EXCEPT ![p] = "off"]
      /\ older' = Order(files \ {mine[p]}) /\ UNCHANGED <<slotLock, probe>>
  BY DEF Cleanup
<1>2. PICK x \in {"granted", "idle"} : pc' = [pc EXCEPT ![p] = x] BY DEF Cleanup
<1>3. \A q \in Procs : pc'[q] = IF q = p THEN x ELSE pc[q] BY <1>0, <1>2 DEF TypeOK
<1>4. SlotsKept BY <1>1 DEF SlotsKept
<1>5. CASE mine[p] \in files
  <2>1. watch' = [Hinted EXCEPT ![p] = "off"] BY <1>1, <1>5
  <2>2. AllHinted BY <1>0, <2>1, HintedAll, HelperTypes DEF AllHinted
  <2>3. \A q \in Procs : ~Asleep(q)' /\ ~Probing(q)' BY <2>2 DEF AllHinted, Asleep, Probing
  <2>4. \A q \in Procs : pc[q] = "probe" => pc'[q] = "probe" BY <1>1, <1>3
  <2> QED BY <1>0, <1>1, <2>2, <2>3, <2>4, SleepersKept, ProbesKept DEF HintInv
<1>6. CASE mine[p] \notin files
  <2>1. watch' = [watch EXCEPT ![p] = "off"] BY <1>1, <1>6
  <2>2. files' = files /\ older' = Order(files)
    <3>1. files \ {mine[p]} = files BY <1>6
    <3> QED BY <1>1, <3>1
  <2>3. \A q \in Procs : /\ Asleep(q)' => Asleep(q) /\ q # p
                         /\ Probing(q)' => Probing(q)
                         /\ pc[q] = "probe" => pc'[q] = "probe"
    BY <1>0, <1>1, <1>3, <2>1 DEF Asleep, Probing, TypeOK
  <2>4. ASSUME NEW q \in Procs, Asleep(q)', Pending(q) # {}
        PROVE  Pending(q)' # {}
    <3>1. mine'[q] = mine[q] BY <1>0, <1>1, <2>3, <2>4 DEF TypeOK
    <3> QED BY <2>2, <2>4, <3>1, LineKept
  <2> QED BY <1>0, <1>1, <1>4, <2>3, <2>4, SleepersKept, ProbesKept DEF HintInv
<1> QED BY <1>5, <1>6

(* A slot that is given back is a hint. *)
LEMMA HintGiveBack ==
  ASSUME IInv, HintInv, NEW p \in Procs, GiveBack(p)
  PROVE  HintInv'
<1>0. TypeOK BY DEF IInv
<1>1. /\ pc[p] \in {"granted", "running"} /\ pc' = [pc EXCEPT ![p] = "idle"]
      /\ watch' = Hinted /\ UNCHANGED <<mine, files, older, probe>>
  BY DEF GiveBack, queue
<1>2. AllHinted BY <1>0, <1>1, HintedAll DEF AllHinted
<1>3. \A q \in Procs : /\ ~Asleep(q)' /\ ~Probing(q)'
                       /\ pc[q] = "probe" => pc'[q] = "probe"
  BY <1>0, <1>1, <1>2 DEF AllHinted, Asleep, Probing, TypeOK
<1> QED BY <1>0, <1>1, <1>2, <1>3, SleepersKept, ProbesKept DEF HintInv

(* The kernel closes the files of a process that dies: a slot it held is a     *)
(* hint, and its ticket file stays where it is.                                *)
LEMMA HintCrash ==
  ASSUME IInv, HintInv, NEW p \in Procs, Crash(p)
  PROVE  HintInv'
<1>0. TypeOK BY DEF IInv
<1>1. /\ slotLock' = DropSlots(p) /\ pc' = [pc EXCEPT ![p] = "idle"]
      /\ watch' = [(IF p \in Holders THEN Hinted ELSE watch) EXCEPT ![p] = "off"]
      /\ mine' = [mine EXCEPT ![p] = None] /\ UNCHANGED <<files, older>>
      /\ IF allocator = p THEN LeaveProbe ELSE UNCHANGED <<allocator, probe>>
  BY DEF Crash
<1>2. \A q \in Procs : /\ pc'[q] = IF q = p THEN "idle" ELSE pc[q]
                       /\ q # p => mine'[q] = mine[q]
  BY <1>0, <1>1 DEF TypeOK
<1>3. SlotsKept \/ AllHinted
  <2>1. CASE p \in Holders
    <3>1. watch' = [Hinted EXCEPT ![p] = "off"] BY <1>1, <2>1
    <3> QED BY <1>0, <3>1, HintedAll, HelperTypes DEF AllHinted
  <2>2. CASE p \notin Holders
    BY <1>1, <2>2 DEF SlotsKept, Holders, Holds, DropSlots
  <2> QED BY <2>1, <2>2
<1>4. \A q \in Procs : watch'[q] = "quiet" => watch[q] = "quiet" /\ q # p
  <2>1. CASE p \in Holders
    <3>1. watch' = [Hinted EXCEPT ![p] = "off"] BY <1>1, <2>1
    <3> QED BY <1>0, <3>1, HintedAll, HelperTypes
  <2>2. CASE p \notin Holders
    <3>1. watch' = [watch EXCEPT ![p] = "off"] BY <1>1, <2>2
    <3> QED BY <1>0, <3>1 DEF TypeOK
  <2> QED BY <2>1, <2>2
<1>5. \A q \in Procs : /\ Asleep(q)' => Asleep(q) /\ q # p
                       /\ Probing(q)' => Probing(q)
  BY <1>2, <1>4 DEF Asleep, Probing
<1>6. \A q \in Procs : Asleep(q)' /\ Pending(q) # {} => Pending(q)' # {}
  BY <1>1, <1>2, <1>5 DEF Pending
<1>7. NoHintMissed' BY <1>0, <1>3, <1>5, <1>6, SleepersKept DEF HintInv
<1>8. CASE pc[p] = "probe"
  <2>1. LeaveProbe BY <1>1, <1>8, OneProbes
  <2>2. ProbeInv' BY <1>1, <1>8, <2>1, ProbeLeft DEF Steps
  <2> QED BY <1>7, <2>2 DEF HintInv
<1>9. CASE pc[p] # "probe"
  <2>1. UNCHANGED probe
    <3>1. CASE allocator # p BY <1>1, <3>1
    <3>2. CASE allocator = p
      <4>1. \A q \in Procs : pc[q] # "probe" BY <1>9, <3>2, OneProbes
      <4> QED BY <1>1, <3>2, <4>1 DEF LeaveProbe, HintInv, ProbeInv, probe
    <3> QED BY <3>1, <3>2
  <2>2. \A q \in Procs : pc[q] = "probe" => pc'[q] = "probe" BY <1>2, <1>9
  <2>3. ProbeInv' BY <1>0, <1>3, <1>5, <2>1, <2>2, ProbesKept DEF HintInv
  <2> QED BY <1>7, <2>3 DEF HintInv
<1> QED BY <1>8, <1>9

LEMMA HintNext == IInv /\ HintInv /\ [Next]_vars => HintInv'
  BY HintLoop, HintVisitors, HintCreate, HintBegin, HintProbe, HintTurnedAway, HintDecided,
     HintCleanup, HintGiveBack, HintCrash DEF Next, Advance, Disturb

LEMMA HintInit == Init => HintInv
  BY DEF Init, HintInv, ProbeInv, NoHintMissed

(* A caller that sleeps without a queued hint has nothing to be woken for: no  *)
(* release, deletion or death between its look at the slots and its sleep is   *)
(* lost, whatever collectors probe (slot_notifications, worker_slots.acquire). *)
THEOREM NoHintLost == Spec => []NoHintMissed
<1>1. IInv /\ HintInv /\ [Next]_vars => HintInv' BY HintNext
<1>2. HintInv => NoHintMissed BY DEF HintInv
<1> QED BY HintInit, Consistent, <1>1, <1>2, PTL DEF Spec

=============================================================================
