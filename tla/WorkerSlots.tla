----------------------------- MODULE WorkerSlots -----------------------------
(* The worker-slot allocator of worker_slots.py, with its callers             *)
(* (worker_admission.py, worker.py), the inotify hints of                     *)
(* slot_notifications.py, the replacement of an unusable state root           *)
(* (state_storage.prepare_storage) and the admission probe of the workspace   *)
(* collector (workspace_gc.py).                                               *)
(*                                                                            *)
(* Every file lock is an flock: the process that holds it, or None.  A        *)
(* process that dies drops its locks and leaves its files behind.  A step is  *)
(* what happens between two points where another process can matter.          *)
EXTENDS Naturals, FiniteSets

CONSTANTS
    Procs,      \* processes that call acquire, each one call at a time
    Waiters,    \* those that call it with wait=True
    Watched,    \* those for which inotify works when they start
    Timed,      \* those with a deadline (timeout > 0)
    Limit,      \* the limit each caller passes
    MaxSlots,   \* MAX_MAX_WORKERS: the number of worker-<n>.lock files
    Tickets,    \* inodes for ticket files
    Collector,  \* the workspace collector, probing slots and tickets
    Chooser,    \* the process replacing an unusable state root
    Visitors,   \* which of these two come
    None

ASSUME ProcsAssumption ==
    /\ IsFiniteSet(Procs)
    /\ Waiters \subseteq Procs
    /\ Watched \subseteq Waiters
    /\ Timed \subseteq Procs
ASSUME LimitAssumption ==
    /\ MaxSlots \in Nat \ {0}
    /\ Limit \in [Procs -> 1..MaxSlots]
ASSUME NamesAssumption ==
    /\ None \notin Procs \cup Tickets
    /\ Collector \notin Procs \cup {None}
    /\ Chooser \notin Procs \cup {None, Collector}

VARIABLES
    pc,         \* where each call stands
    result,     \* what the latest call of each process came to
    mine,       \* the ticket file a call has created (ticket_name)
    watch,      \* the inotify watch of a call: off, quiet, or with a hint queued
    valid,      \* the caller's assignment, access and policy still hold
    expired,    \* the caller's deadline has passed
    allocator,  \* who holds allocator.lock
    slotLock,   \* who holds each worker-<n>.lock
    files,      \* the ticket files present in the directory
    ticketLock, \* who holds each ticket's flock
    older,      \* for each ticket file, those with a smaller sequence number
    scan,       \* the allocator holder's _probe_slots: next slot to probe
    free,       \*   and the slots found free so far
    chooser,    \* progress of prepare_storage in the old root
    selection   \* the state root saved in selection.json

call == <<pc, result, mine, watch>>
env == <<valid, expired>>
queue == <<files, ticketLock, older>>
probe == <<scan, free>>
root == <<chooser, selection>>
vars == <<call, env, allocator, slotLock, queue, probe, root>>

Slots == 0 .. MaxSlots - 1
Steps == {"idle", "check", "enqueue", "stamp", "attempt", "probe", "waiting",
          "deferred", "cleanup", "granted", "running"}
Results == {"none", "slot", "busy", "timeout", "unsafe", "invalid"}
Parked == {"waiting", "deferred"}

-----------------------------------------------------------------------------
(* Helpers. *)

(* Variants of the code with one mistake are kept beside the definition they  *)
(* spoil; each breaks a property below.                                       *)

(* Mistake: the saved storage selection is not read again. *)
ValidButNotSelection(p) == valid[p]

(* What the validate callback re-reads: the saved storage selection and the   *)
(* conditions of the job.                                                     *)
Valid(p) == valid[p] /\ selection = "old"

Holds(p, s) == slotLock[s] = p
Holders == {p \in Procs : \E s \in Slots : Holds(p, s)}
Occupied == {s \in Slots : slotLock[s] # None}

(* Mistake: the watch is opened after the files were looked at. *)
HintLost == watch

(* Every watcher gets a hint. *)
Hinted == [p \in Procs |-> IF watch[p] = "quiet" THEN "hinted" ELSE watch[p]]

(* Mistakes: tickets deleted without trying their lock, or never reclaimed. *)
ReclaimedBlindly == {}
ReclaimedNever == files

(* The files that survive _reclaim_stale_tickets: somebody holds their lock.  *)
Reclaimed == {t \in files : ticketLock[t] # None}

(* Mistake: a caller without a ticket does not look at the line. *)
PendingForWaiters(p) == IF mine[p] = None THEN {} ELSE files \cap older[mine[p]]

(* _pending_before: tickets with a smaller number, or any ticket at all for a *)
(* caller without one.                                                        *)
Pending(p) == IF mine[p] = None THEN files ELSE files \cap older[mine[p]]

(* Mistake: an off-by-one in the comparison with the limit. *)
NoRoomOffByOne(p) ==
    \/ MaxSlots - Cardinality(free) > Limit[p]
    \/ Pending(p) # {}

(* _attempt finds no room: too many slots were busy when probed, or somebody  *)
(* is ahead.                                                                  *)
NoRoom(p) ==
    \/ MaxSlots - Cardinality(free) >= Limit[p]
    \/ Pending(p) # {}

(* The sequence order once only the ticket files in kept are left. *)
Order(kept) == [t \in Tickets |-> IF t \in kept THEN older[t] \cap kept ELSE {}]

DropSlots(p) == [s \in Slots |-> IF slotLock[s] = p THEN None ELSE slotLock[s]]
DropTicket(p) ==
    [t \in Tickets |-> IF ticketLock[t] = p THEN None ELSE ticketLock[t]]

(* The allocator holder is through with its probe. *)
LeaveProbe ==
    /\ allocator' = None
    /\ scan' = 0
    /\ free' = {}

(* The next call of p starts afresh. *)
Over(p) ==
    /\ result' = [result EXCEPT ![p] = "none"]
    /\ valid' = [valid EXCEPT ![p] = TRUE]
    /\ expired' = [expired EXCEPT ![p] = FALSE]

(* The call raises; its finally clause comes next. *)
Fail(p, why) ==
    /\ pc' = [pc EXCEPT ![p] = "cleanup"]
    /\ result' = [result EXCEPT ![p] = why]

(* No slot this time: a caller with wait=False is refused.  A waiting caller  *)
(* parks unless its deadline has passed, or on_wait finds its assignment gone *)
(* when it records the queue state.                                           *)
Park(p, where) ==
    IF p \notin Waiters THEN Fail(p, "busy")
    ELSE \/ ~valid[p] /\ Fail(p, "invalid")
         \/ expired[p] /\ Fail(p, "timeout")
         \/ ~expired[p] /\ pc' = [pc EXCEPT ![p] = where] /\ UNCHANGED result

-----------------------------------------------------------------------------
(* The caller: worker_slots.acquire under worker_admission.acquire. *)

(* A call starts: arguments checked, directory and watch opened. *)
Arrive(p) ==
    /\ pc[p] = "idle"
    /\ pc' = [pc EXCEPT ![p] = "check"]
    /\ watch' = [watch EXCEPT ![p] = IF p \in Watched THEN "quiet" ELSE "off"]
    /\ UNCHANGED <<result, mine, env, allocator, slotLock, queue, probe, root>>

(* Top of the loop: the deadline, then validate. *)
Check(p) ==
    /\ pc[p] = "check"
    /\ IF expired[p] THEN Fail(p, "timeout")
       ELSE IF ~Valid(p) THEN Fail(p, "invalid")
       ELSE /\ pc' = [pc EXCEPT ![p] = IF p \in Waiters /\ mine[p] = None
                                       THEN "enqueue" ELSE "attempt"]
            /\ UNCHANGED result
    /\ UNCHANGED <<mine, watch, env, allocator, slotLock, queue, probe, root>>

(* The allocator lock is taken: BlockingIOError, handled as a busy pool. *)
Contended(p) ==
    /\ pc[p] \in {"enqueue", "attempt"}
    /\ allocator # None
    /\ Park(p, "deferred")
    /\ UNCHANGED <<mine, watch, env, allocator, slotLock, queue, probe, root>>

(* validate raises under the allocator lock, which is released again. *)
RefusedEntry(p) ==
    /\ pc[p] \in {"enqueue", "attempt"}
    /\ allocator = None
    /\ ~Valid(p)
    /\ Fail(p, "invalid")
    /\ UNCHANGED <<mine, watch, env, allocator, slotLock, queue, probe, root>>

(* _enqueue, first half: stale tickets are dropped and a ticket file with a   *)
(* number above every remaining one is created.                               *)
CreateTicket(p) ==
    /\ pc[p] = "enqueue"
    /\ allocator = None
    /\ Valid(p)
    /\ \E t \in Tickets :
          /\ t \notin Reclaimed
          /\ ticketLock[t] = None
          /\ mine' = [mine EXCEPT ![p] = t]
          /\ files' = Reclaimed \cup {t}
          /\ older' = [Order(Reclaimed) EXCEPT ![t] = Reclaimed]
    /\ watch' = IF Reclaimed # files THEN Hinted ELSE watch
    /\ allocator' = p
    /\ pc' = [pc EXCEPT ![p] = "stamp"]
    /\ UNCHANGED <<result, env, slotLock, ticketLock, probe, root>>

(* _enqueue, second half: the new file is locked and the allocator released.  *)
(* If somebody else got the lock first the directory is declared unsafe and   *)
(* the file is left behind.                                                   *)
LockTicket(p) ==
    /\ pc[p] = "stamp"
    /\ IF ticketLock[mine[p]] = None
       THEN /\ ticketLock' = [ticketLock EXCEPT ![mine[p]] = p]
            /\ pc' = [pc EXCEPT ![p] = "attempt"]
            /\ UNCHANGED <<result, mine>>
       ELSE /\ mine' = [mine EXCEPT ![p] = None]
            /\ Fail(p, "unsafe")
            /\ UNCHANGED ticketLock
    /\ allocator' = None
    /\ UNCHANGED <<watch, env, slotLock, files, older, probe, root>>

(* _attempt begins: allocator taken, validate passed, stale tickets dropped.  *)
BeginAttempt(p) ==
    /\ pc[p] = "attempt"
    /\ allocator = None
    /\ Valid(p)
    /\ files' = Reclaimed
    /\ older' = Order(Reclaimed)
    /\ watch' = IF Reclaimed # files THEN Hinted ELSE watch
    /\ allocator' = p
    /\ pc' = [pc EXCEPT ![p] = "probe"]
    /\ UNCHANGED <<result, mine, env, slotLock, ticketLock, probe, root>>

(* _probe_slots looks at one more slot file. *)
ProbeSlot(p) ==
    /\ pc[p] = "probe"
    /\ scan < MaxSlots
    /\ free' = IF slotLock[scan] = None THEN free \cup {scan} ELSE free
    /\ scan' = scan + 1
    /\ UNCHANGED <<call, env, allocator, slotLock, queue, root>>

(* All slots probed, no room. *)
TurnedAway(p) ==
    /\ pc[p] = "probe"
    /\ scan = MaxSlots
    /\ NoRoom(p)
    /\ Park(p, "waiting")
    /\ LeaveProbe
    /\ UNCHANGED <<mine, watch, env, slotLock, queue, root>>

(* Room, but the second validate of _attempt raises. *)
RefusedSlot(p) ==
    /\ pc[p] = "probe"
    /\ scan = MaxSlots
    /\ ~NoRoom(p)
    /\ ~Valid(p)
    /\ Fail(p, "invalid")
    /\ LeaveProbe
    /\ UNCHANGED <<mine, watch, env, slotLock, queue, root>>

(* _allocate_slot: the first free slot that can still be locked. *)
Grant(p) ==
    /\ pc[p] = "probe"
    /\ scan = MaxSlots
    /\ ~NoRoom(p)
    /\ Valid(p)
    /\ \E s \in free :
          /\ slotLock[s] = None
          /\ \A r \in free : r < s => slotLock[r] # None
          /\ slotLock' = [slotLock EXCEPT ![s] = p]
    /\ pc' = [pc EXCEPT ![p] = "cleanup"]
    /\ result' = [result EXCEPT ![p] = "slot"]
    /\ LeaveProbe
    /\ UNCHANGED <<mine, watch, env, queue, root>>

(* _allocate_slot finds every free slot locked after all: 75, even for a      *)
(* caller that waits without a deadline.                                      *)
NothingLeft(p) ==
    /\ pc[p] = "probe"
    /\ scan = MaxSlots
    /\ ~NoRoom(p)
    /\ Valid(p)
    /\ \A s \in free : slotLock[s] # None
    /\ Fail(p, "busy")
    /\ LeaveProbe
    /\ UNCHANGED <<mine, watch, env, slotLock, queue, root>>

(* A queued hint ends the wait and is consumed. *)
HintWake(p) ==
    /\ pc[p] \in Parked
    /\ watch[p] = "hinted"
    /\ watch' = [watch EXCEPT ![p] = "quiet"]
    /\ pc' = [pc EXCEPT ![p] = "check"]
    /\ UNCHANGED <<result, mine, env, allocator, slotLock, queue, probe, root>>

(* The revalidation interval, or the deadline, ends the wait. *)
TimerWake(p) ==
    /\ pc[p] \in Parked
    /\ watch[p] # "hinted"
    /\ pc' = [pc EXCEPT ![p] = "check"]
    /\ UNCHANGED <<result, mine, watch, env, allocator, slotLock, queue, probe,
                   root>>

(* An overflow or an ignored watch: hints were lost, so the wait ends and the *)
(* notifier is not used again.                                                *)
WatchBreaks(p) ==
    /\ pc[p] \in Parked
    /\ watch[p] # "off"
    /\ watch' = [watch EXCEPT ![p] = "off"]
    /\ pc' = [pc EXCEPT ![p] = "check"]
    /\ UNCHANGED <<result, mine, env, allocator, slotLock, queue, probe, root>>

(* The finally clause: watch closed, own ticket unlinked and its lock         *)
(* dropped.  The deletion is a hint to the others.                            *)
Cleanup(p) ==
    /\ pc[p] = "cleanup"
    /\ files' = files \ {mine[p]}
    /\ ticketLock' = DropTicket(p)
    /\ mine' = [mine EXCEPT ![p] = None]
    /\ watch' = [(IF mine[p] \in files THEN Hinted ELSE watch) EXCEPT ![p] = "off"]
    /\ older' = Order(files \ {mine[p]})
    /\ IF result[p] = "slot"
       THEN pc' = [pc EXCEPT ![p] = "granted"] /\ UNCHANGED <<result, env>>
       ELSE pc' = [pc EXCEPT ![p] = "idle"] /\ Over(p)
    /\ UNCHANGED <<allocator, slotLock, probe, root>>

(* worker_admission validates once more before the job uses the slot. *)
Confirm(p) ==
    /\ pc[p] = "granted"
    /\ Valid(p)
    /\ ~expired[p]
    /\ pc' = [pc EXCEPT ![p] = "running"]
    /\ UNCHANGED <<result, mine, watch, env, allocator, slotLock, queue, probe,
                   root>>

(* The slot is given back: the last validate failed, or the job is over.      *)
GiveBack(p) ==
    /\ \/ pc[p] = "granted" /\ (~Valid(p) \/ expired[p])
       \/ pc[p] = "running"
    /\ slotLock' = DropSlots(p)
    /\ watch' = Hinted
    /\ pc' = [pc EXCEPT ![p] = "idle"]
    /\ Over(p)
    /\ UNCHANGED <<mine, allocator, queue, probe, root>>

(* The process dies: the kernel drops its locks, its ticket file stays. *)
Crash(p) ==
    /\ pc[p] # "idle"
    /\ slotLock' = DropSlots(p)
    /\ ticketLock' = DropTicket(p)
    /\ IF allocator = p THEN LeaveProbe ELSE UNCHANGED <<allocator, probe>>
    /\ watch' = [(IF p \in Holders THEN Hinted ELSE watch) EXCEPT ![p] = "off"]
    /\ mine' = [mine EXCEPT ![p] = None]
    /\ pc' = [pc EXCEPT ![p] = "idle"]
    /\ Over(p)
    /\ UNCHANGED <<files, older, root>>

-----------------------------------------------------------------------------
(* What the callers do not control. *)

(* The deadline of a call passes. *)
Expire(p) ==
    /\ p \in Timed
    /\ pc[p] \notin {"idle", "running"}
    /\ ~expired[p]
    /\ expired' = [expired EXCEPT ![p] = TRUE]
    /\ UNCHANGED <<call, valid, allocator, slotLock, queue, probe, root>>

(* Delegation disabled, access revoked, HEAD moved, assignment abandoned. *)
Invalidate(p) ==
    /\ pc[p] # "idle"
    /\ valid[p]
    /\ valid' = [valid EXCEPT ![p] = FALSE]
    /\ UNCHANGED <<call, expired, allocator, slotLock, queue, probe, root>>

(* workspace_gc._legacy_admission_active tries one slot or ticket lock at a   *)
(* time, without the allocator lock.                                          *)
CollectorHolds == \/ \E s \in Slots : slotLock[s] = Collector
                  \/ \E t \in Tickets : ticketLock[t] = Collector

CollectorProbesSlot(s) ==
    /\ Collector \in Visitors
    /\ ~CollectorHolds
    /\ slotLock[s] = None
    /\ slotLock' = [slotLock EXCEPT ![s] = Collector]
    /\ UNCHANGED <<call, env, allocator, queue, probe, root>>

CollectorProbesTicket(t) ==
    /\ Collector \in Visitors
    /\ ~CollectorHolds
    /\ t \in files
    /\ ticketLock[t] = None
    /\ ticketLock' = [ticketLock EXCEPT ![t] = Collector]
    /\ UNCHANGED <<call, env, allocator, slotLock, files, older, probe, root>>

(* Mistake: the collector opens the slot files for reading only. *)
CollectorClosesUnseen ==
    /\ CollectorHolds
    /\ slotLock' = DropSlots(Collector)
    /\ ticketLock' = DropTicket(Collector)
    /\ UNCHANGED <<call, env, allocator, files, older, probe, root>>

(* It closes the file again: a slot file was open for writing, which is a     *)
(* hint, and the closing of a ticket is not.                                  *)
CollectorCloses ==
    /\ CollectorHolds
    /\ watch' = IF \E s \in Slots : Holds(Collector, s) THEN Hinted ELSE watch
    /\ slotLock' = DropSlots(Collector)
    /\ ticketLock' = DropTicket(Collector)
    /\ UNCHANGED <<pc, result, mine, env, allocator, files, older, probe, root>>

(* prepare_storage finds the selected root unusable and takes its allocator   *)
(* (idle_state).                                                              *)
ChooserLocks ==
    /\ Chooser \in Visitors
    /\ chooser = "idle"
    /\ selection = "old"
    /\ allocator = None
    /\ allocator' = Chooser
    /\ chooser' = "proving"
    /\ UNCHANGED <<call, env, slotLock, queue, probe, selection>>

(* No slot and no ticket is locked by anybody. *)
Quiescent == /\ Occupied = {}
             /\ Reclaimed = {}

ChooserProves ==
    /\ chooser = "proving"
    /\ Quiescent
    /\ chooser' = "proved"
    /\ UNCHANGED <<call, env, allocator, slotLock, queue, probe, selection>>

(* The replacement is published while the allocator is still held. *)
ChooserPublishes ==
    /\ chooser = "proved"
    /\ selection' = "new"
    /\ allocator' = None
    /\ chooser' = "idle"
    /\ UNCHANGED <<call, env, slotLock, queue, probe>>

(* The old root is not idle, the replacement fails, or the process dies. *)
ChooserStops ==
    /\ chooser # "idle"
    /\ allocator' = None
    /\ chooser' = "idle"
    /\ UNCHANGED <<call, env, slotLock, queue, probe, selection>>

-----------------------------------------------------------------------------
Init ==
    /\ pc = [p \in Procs |-> "idle"]
    /\ result = [p \in Procs |-> "none"]
    /\ mine = [p \in Procs |-> None]
    /\ watch = [p \in Procs |-> "off"]
    /\ valid = [p \in Procs |-> TRUE]
    /\ expired = [p \in Procs |-> FALSE]
    /\ allocator = None
    /\ slotLock = [s \in Slots |-> None]
    /\ files = {}
    /\ ticketLock = [t \in Tickets |-> None]
    /\ older = [t \in Tickets |-> {}]
    /\ scan = 0
    /\ free = {}
    /\ chooser = "idle"
    /\ selection = "old"

(* The steps a call takes by itself once it has started. *)
Advance(p) ==
    \/ Check(p) \/ Contended(p) \/ RefusedEntry(p)
    \/ CreateTicket(p) \/ LockTicket(p)
    \/ BeginAttempt(p) \/ ProbeSlot(p) \/ TurnedAway(p) \/ RefusedSlot(p)
    \/ Grant(p) \/ NothingLeft(p)
    \/ HintWake(p) \/ TimerWake(p)
    \/ Cleanup(p) \/ Confirm(p) \/ GiveBack(p)

Disturb(p) == Arrive(p) \/ WatchBreaks(p) \/ Crash(p) \/ Expire(p) \/ Invalidate(p)

Choose == ChooserProves \/ ChooserPublishes \/ ChooserStops

Next ==
    \/ \E p \in Procs : Advance(p) \/ Disturb(p)
    \/ \E s \in Slots : CollectorProbesSlot(s)
    \/ \E t \in Tickets : CollectorProbesTicket(t)
    \/ CollectorCloses
    \/ ChooserLocks
    \/ Choose

Spec == Init /\ [][Next]_vars

(* Processes are scheduled, the jobs they run end, and a lock taken by a      *)
(* collector or a storage choice is given back.  The allocator lock is only   *)
(* tried, never waited for, so progress also needs a caller that keeps trying *)
(* not to find it taken every time, and collectors that stop coming.          *)
NotAlwaysContended(p) ==
    ([]<>(pc[p] = "attempt")) => []<>(pc[p] = "attempt" /\ allocator = None)

Fairness ==
    /\ \A p \in Procs : WF_vars(Advance(p))
    /\ \A p \in Procs : SF_vars(BeginAttempt(p))
    /\ \A p \in Procs : NotAlwaysContended(p)
    /\ WF_vars(CollectorCloses)
    /\ WF_vars(Choose)
    /\ <>[]~CollectorHolds

FairSpec == Spec /\ Fairness

-----------------------------------------------------------------------------
(* Properties. *)

(* The values the state can take; the free list of the probe in progress      *)
(* names slots already probed.                                                *)
TypeOK ==
    /\ pc \in [Procs -> Steps]
    /\ result \in [Procs -> Results]
    /\ mine \in [Procs -> Tickets \cup {None}]
    /\ watch \in [Procs -> {"off", "quiet", "hinted"}]
    /\ valid \in [Procs -> BOOLEAN]
    /\ expired \in [Procs -> BOOLEAN]
    /\ allocator \in Procs \cup {Chooser, None}
    /\ slotLock \in [Slots -> Procs \cup {Collector, None}]
    /\ files \subseteq Tickets
    /\ ticketLock \in [Tickets -> Procs \cup {Collector, None}]
    /\ older \in [Tickets -> SUBSET Tickets]
    /\ scan \in 0 .. MaxSlots
    /\ free \subseteq 0 .. scan - 1
    /\ chooser \in {"idle", "proving", "proved"}
    /\ selection \in {"old", "new"}

(* Who is inside the allocator's critical section. *)
AllocatorInv ==
    /\ \A p \in Procs : pc[p] \in {"stamp", "probe"} <=> allocator = p
    /\ chooser # "idle" <=> allocator = Chooser

(* A process that holds a slot lock holds one, and only between admission and *)
(* release; a slot counted free by a probe in progress is still not running   *)
(* a job when the probe ends.                                                 *)
SlotInv ==
    /\ \A p \in Procs, s \in Slots :
          slotLock[s] = p => /\ pc[p] \in {"cleanup", "granted", "running"}
                             /\ pc[p] = "cleanup" => result[p] = "slot"
    /\ \A p \in Procs, r, s \in Slots :
          slotLock[r] = p /\ slotLock[s] = p => r = s
    /\ \A s \in free : slotLock[s] \notin Procs

(* A live caller's ticket file is there and locked by that caller alone, from *)
(* the moment the allocator is released until its finally clause.             *)
TicketInv ==
    /\ \A p \in Procs :
          mine[p] # None => /\ pc[p] \notin {"idle", "granted", "running"}
                            /\ mine[p] \in files
                            /\ pc[p] # "stamp" => ticketLock[mine[p]] = p
    /\ \A p \in Procs : /\ pc[p] = "stamp" => mine[p] # None
                        /\ pc[p] = "enqueue" => mine[p] = None
    /\ \A p \in Procs, t \in Tickets :
          ticketLock[t] = p => mine[p] = t /\ pc[p] # "stamp"
    /\ \A p, q \in Procs : p # q /\ mine[p] # None => mine[p] # mine[q]

(* The ticket files are in one order, and a ticket being made is the last.    *)
OrderInv ==
    /\ \A t \in Tickets : older[t] \subseteq files \ {t}
    /\ \A t, u \in files : t # u => (t \in older[u] <=> u \notin older[t])
    /\ \A p \in Procs : pc[p] = "stamp" => older[mine[p]] = files \ {mine[p]}

(* From the proof of idleness on, nobody is admitted or queued in the root.   *)
ClosedInv ==
    chooser = "proved" \/ selection = "new" =>
        /\ \A s \in Slots : slotLock[s] \notin Procs
        /\ \A t \in Tickets : ticketLock[t] \notin Procs
        /\ \A p \in Procs : pc[p] # "stamp"

(* The inductive invariant: live callers, their tickets, their slots and the  *)
(* allocator lock agree in every reachable state.                             *)
IInv == TypeOK /\ AllocatorInv /\ SlotInv /\ TicketInv /\ OrderInv /\ ClosedInv

Admitted(p) == p \notin Holders /\ p \in Holders'
InLine(p) == mine[p] # None /\ pc[p] \notin {"stamp", "idle"} /\ p \notin Holders

(* Whoever is admitted, at most the limit it asked for run at once, although  *)
(* the busy slots were counted one by one while jobs ended and died           *)
(* (worker_slots._attempt, _probe_slots).                                     *)
AdmissionWithinLimit ==
    [][\A p \in Procs : Admitted(p) => Cardinality(Holders') <= Limit[p]]_vars

(* Nobody is admitted past a live caller that was in line before it, whatever *)
(* crashes, timeouts and collector probes happened in between; a caller that  *)
(* does not wait is admitted only past an empty line (worker_slots._enqueue,  *)
(* _pending_before, _reclaim_stale_tickets).                                  *)
FirstComeFirstServed ==
    [][\A p, q \in Procs :
          Admitted(p) /\ p # q /\ InLine(q)
             => mine[p] # None /\ mine[p] \in older[mine[q]]]_vars

(* Once a replacement root is saved nobody runs in the old one, or ever will  *)
(* again: the proof of idleness and the publication cannot miss an admission  *)
(* (worker_slots.idle_state, worker_admission.validate).                      *)
NoStrandedWorker == selection = "new" => Holders = {}

(* A waiting caller that sleeps without a queued hint has nothing to be woken *)
(* for: the slots were and are taken, or a ticket file is ahead of it.  Only  *)
(* a caller turned away by the allocator lock relies on the timer             *)
(* (slot_notifications: the watch is created before probing).                 *)
NoHintMissed ==
    \A p \in Procs :
        pc[p] = "waiting" /\ watch[p] = "quiet"
            => Cardinality(Occupied) >= Limit[p] \/ Pending(p) # {}

(* The allocator implements the admission queue: callers with a live ticket   *)
(* stand in line, in ticket order, until they hold a slot.  Probes, stale     *)
(* tickets, hints and collectors are invisible.                               *)
Line == {p \in Procs : InLine(p)}
Ahead == [p \in Procs |->
             IF InLine(p) THEN {q \in Line : mine[q] \in older[mine[p]]} ELSE {}]

Queue == INSTANCE AdmissionQueue
            WITH Callers <- Procs, inside <- Holders, line <- Line,
                 ahead <- Ahead, open <- (selection = "old")

(* Every behaviour of the allocator is one of AdmissionQueue.                 *)
ImplementsQueue == Queue!Spec

(* Every caller in line is served, refused or times out, even if those ahead  *)
(* of it die and leave their tickets (worker_slots.acquire).                  *)
EveryWaiterLeaves == \A p \in Procs : mine[p] # None ~> mine[p] = None

(* Doc: "78 - the state directory or a runtime file is unsafe".  The files    *)
(* here are never unsafe.                                                     *)
UnsafeMeansUnsafe == \A p \in Procs : result[p] # "unsafe"

(* Doc: "75 - no slot is available and the caller would not wait, or waiting  *)
(* timed out": a caller that waits is never told busy.                        *)
BusyMeansNoWait == \A p \in Waiters : result[p] # "busy"
=============================================================================
