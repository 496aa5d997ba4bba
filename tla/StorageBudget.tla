---------------------------- MODULE StorageBudget ----------------------------
(* Space reservations of storage_budget.py: a pool directory holds budget.lock *)
(* and one record file per reservation, flocked by its owner for as long as    *)
(* the reservation lasts.  An admission takes budget.lock, samples the free    *)
(* space of the target filesystem, adds up the records whose owner still holds *)
(* them and, if its own demand fits, adds a record.                            *)
(*                                                                             *)
(* A demand is the set of blocks its owner is going to write; demands are      *)
(* disjoint, so that a sum of sizes is the cardinality of a union.  Bytes and  *)
(* inodes are checked alike: here there is one quantity.                       *)
EXTENDS Naturals, FiniteSets

CONSTANTS
    Procs,      \* reservation contexts, each one reservation at a time
    Devices,    \* filesystems whose reservations share the pool
    Device,     \* the filesystem each context reserves on
    Blocks,
    Demand,     \* the blocks each context reserves
    Capacity,   \* size of each filesystem
    Minimum,    \* MINIMUM_FREE_BYTES
    Tokens,     \* names of record files
    Inodes,     \* budget.lock is replaced at most Inodes - 1 times
    None

ASSUME DemandAssumption ==
    /\ IsFiniteSet(Blocks)
    /\ Device \in [Procs -> Devices]
    /\ Demand \in [Procs -> SUBSET Blocks]
    /\ \A p, q \in Procs : p # q => Demand[p] \cap Demand[q] = {}
ASSUME SizeAssumption ==
    /\ Capacity \in [Devices -> Nat]
    /\ Minimum \in Nat
    /\ Inodes \in Nat \ {0}
ASSUME NoneAssumption == None \notin Procs \cup Tokens

VARIABLES
    pc,         \* where each context stands
    myLock,     \* the budget.lock inode a context has open
    sample,     \* the free space it sampled
    todo,       \* the listed records it has not looked at
    counted,    \* the blocks of the live records it has looked at
    mine,       \* its record
    rest,       \* the blocks it has reserved and not yet written
    lockFile,   \* the inode now named budget.lock
    holder,     \* who holds the flock of each budget.lock inode
    files,      \* the record files in the pool
    recLock,    \* who holds the flock of each record
    free        \* the free space of each filesystem

count == <<sample, todo, counted>>
own == <<pc, myLock, mine, rest>>
lock == <<lockFile, holder>>
records == <<files, recLock>>
vars == <<own, count, lock, records, free>>

Steps == {"idle", "open", "sample", "count", "create", "stamp", "write",
          "verify", "held", "closing"}

-----------------------------------------------------------------------------
(* Helpers. *)

(* The numbers of an admission are locals: gone once it is decided. *)
ForgetCount(p) ==
    /\ sample' = [sample EXCEPT ![p] = 0]
    /\ todo' = [todo EXCEPT ![p] = {}]
    /\ counted' = [counted EXCEPT ![p] = {}]

(* The next call of p starts with nothing. *)
Finish(p) ==
    /\ pc' = [pc EXCEPT ![p] = "idle"]
    /\ mine' = [mine EXCEPT ![p] = None]
    /\ rest' = [rest EXCEPT ![p] = {}]
    /\ ForgetCount(p)
    /\ UNCHANGED myLock

Unlocked(p) == [i \in 1 .. Inodes |-> IF holder[i] = p THEN None ELSE holder[i]]
Dropped(p) == [t \in Tokens |-> IF recLock[t] = p THEN None ELSE recLock[t]]

(* The demand of p fits into what its sample leaves beside the live records.  *)
(* Mistake kept beside it: the floor is forgotten.                            *)
FitsWithoutFloor(p) ==
    Cardinality(counted[p]) + Cardinality(Demand[p]) <= sample[p]
Fits(p) ==
    Cardinality(counted[p]) + Cardinality(Demand[p]) + Minimum <= sample[p]

(* budget.lock still is the file p has locked.  Mistake: it is not verified.  *)
SameLockUnverified(p) == TRUE
SameLock(p) == lockFile = myLock[p]

-----------------------------------------------------------------------------
(* Admission: _ReservationContext.__enter__. *)

Request(p) ==
    /\ pc[p] = "idle"
    /\ pc' = [pc EXCEPT ![p] = "open"]
    /\ myLock' = [myLock EXCEPT ![p] = lockFile]
    /\ UNCHANGED <<mine, rest, count, lock, records, free>>

(* _acquire_budget_lock waits for the flock, then looks at the name again. *)
EnterLock(p) ==
    /\ pc[p] = "open"
    /\ holder[myLock[p]] = None
    /\ SameLock(p)
    /\ holder' = [holder EXCEPT ![myLock[p]] = p]
    /\ pc' = [pc EXCEPT ![p] = "sample"]
    /\ UNCHANGED <<myLock, mine, rest, count, lockFile, records, free>>

LockWasReplaced(p) ==
    /\ pc[p] = "open"
    /\ holder[myLock[p]] = None
    /\ ~SameLock(p)
    /\ Finish(p)
    /\ UNCHANGED <<lock, records, free>>

(* _filesystem_limits, then the listing of the pool. *)
Sample(p) ==
    /\ pc[p] = "sample"
    /\ sample' = [sample EXCEPT ![p] = free[Device[p]]]
    /\ todo' = [todo EXCEPT ![p] = files]
    /\ pc' = [pc EXCEPT ![p] = "count"]
    /\ UNCHANGED <<myLock, mine, rest, counted, lock, records, free>>

(* _live_usage looks at one record: gone, without an owner (deleted), or      *)
(* flocked by its owner (counted if it is on the same filesystem).  Mistake:  *)
(* records are deleted without trying their lock.                             *)
VisitBlindly(p, t) ==
    /\ t \in todo[p]
    /\ todo' = [todo EXCEPT ![p] = @ \ {t}]
    /\ files' = files \ {t}
    /\ UNCHANGED counted
Visit(p, t) ==
    /\ t \in todo[p]
    /\ todo' = [todo EXCEPT ![p] = @ \ {t}]
    /\ \/ /\ t \in files => recLock[t] = None
          /\ files' = files \ {t}
          /\ UNCHANGED counted
       \/ \E q \in Procs :
             /\ t \in files
             /\ recLock[t] = q
             /\ pc[q] # "write"
             /\ counted' = [counted EXCEPT ![p] =
                               IF Device[q] = Device[p] THEN @ \cup Demand[q] ELSE @]
             /\ UNCHANGED files

VisitRecord(p) ==
    /\ pc[p] = "count"
    /\ \E t \in Tokens : Visit(p, t)
    /\ UNCHANGED <<own, sample, lock, recLock, free>>

(* A record still being written, which only a replaced budget.lock allows, is *)
(* corrupt.                                                                   *)
VisitCorrupt(p) ==
    /\ pc[p] = "count"
    /\ \E t \in todo[p] \cap files, q \in Procs : recLock[t] = q /\ pc[q] = "write"
    /\ holder' = Unlocked(p)
    /\ Finish(p)
    /\ UNCHANGED <<lockFile, records, free>>

Admit(p) ==
    /\ pc[p] = "count"
    /\ todo[p] = {}
    /\ Fits(p)
    /\ pc' = [pc EXCEPT ![p] = "create"]
    /\ ForgetCount(p)
    /\ UNCHANGED <<myLock, mine, rest, lock, records, free>>

Refuse(p) ==
    /\ pc[p] = "count"
    /\ todo[p] = {}
    /\ ~Fits(p)
    /\ holder' = Unlocked(p)
    /\ Finish(p)
    /\ UNCHANGED <<lockFile, records, free>>

(* _create_record: the file appears, is flocked, then written.  Without the   *)
(* flock, an admission under a replaced budget.lock takes it for a dead       *)
(* owner's and deletes it, which the creator finds out.                       *)
CreateRecord(p) ==
    /\ pc[p] = "create"
    /\ \E t \in Tokens \ files :
          /\ recLock[t] = None
          /\ \A q \in Procs : t \notin todo[q] /\ mine[q] # t
          /\ files' = files \cup {t}
          /\ mine' = [mine EXCEPT ![p] = t]
    /\ pc' = [pc EXCEPT ![p] = "stamp"]
    /\ UNCHANGED <<myLock, rest, count, lock, recLock, free>>

LockRecord(p) ==
    /\ pc[p] = "stamp"
    /\ mine[p] \in files
    /\ recLock' = [recLock EXCEPT ![mine[p]] = p]
    /\ pc' = [pc EXCEPT ![p] = "write"]
    /\ UNCHANGED <<myLock, mine, rest, count, lock, files, free>>

RecordWasDeleted(p) ==
    /\ pc[p] = "stamp"
    /\ mine[p] \notin files
    /\ holder' = Unlocked(p)
    /\ Finish(p)
    /\ UNCHANGED <<lockFile, records, free>>

WriteRecord(p) ==
    /\ pc[p] = "write"
    /\ pc' = [pc EXCEPT ![p] = "verify"]
    /\ UNCHANGED <<myLock, mine, rest, count, lock, records, free>>

(* _verify_budget_lock, then the admission mutex is released; the inode stays *)
(* pinned.  Mistake: the descriptor that pins it keeps the flock too.         *)
KeepLocked(p) ==
    /\ pc[p] = "verify"
    /\ SameLock(p)
    /\ rest' = [rest EXCEPT ![p] = Demand[p]]
    /\ pc' = [pc EXCEPT ![p] = "held"]
    /\ UNCHANGED <<myLock, mine, count, lock, records, free>>
Keep(p) ==
    /\ pc[p] = "verify"
    /\ SameLock(p)
    /\ rest' = [rest EXCEPT ![p] = Demand[p]]
    /\ holder' = Unlocked(p)
    /\ pc' = [pc EXCEPT ![p] = "held"]
    /\ UNCHANGED <<myLock, mine, count, lockFile, records, free>>

Renounce(p) ==
    /\ pc[p] = "verify"
    /\ ~SameLock(p)
    /\ files' = files \ {mine[p]}
    /\ recLock' = Dropped(p)
    /\ holder' = Unlocked(p)
    /\ Finish(p)
    /\ UNCHANGED <<lockFile, free>>

-----------------------------------------------------------------------------
(* The reservation: its owner writes, and gives it back. *)

Materialize(p) ==
    /\ pc[p] = "held"
    /\ free[Device[p]] > 0
    /\ \E b \in rest[p] : rest' = [rest EXCEPT ![p] = @ \ {b}]
    /\ free' = [free EXCEPT ![Device[p]] = @ - 1]
    /\ UNCHANGED <<pc, myLock, mine, count, lock, records>>

(* Reservation.close opens budget.lock, and waits for it if it still is the   *)
(* same file.                                                                 *)
Close(p) ==
    /\ pc[p] = "held"
    /\ SameLock(p)
    /\ rest' = [rest EXCEPT ![p] = {}]
    /\ pc' = [pc EXCEPT ![p] = "closing"]
    /\ UNCHANGED <<myLock, mine, count, lock, records, free>>

(* If not, it raises; its finally clause drops the lock of the record.        *)
CloseAfterReplacement(p) ==
    /\ pc[p] = "held"
    /\ ~SameLock(p)
    /\ recLock' = Dropped(p)
    /\ Finish(p)
    /\ UNCHANGED <<lock, files, free>>

(* Under the lock it opened, wherever that is by now, the record is unlinked. *)
RemoveRecord(p) ==
    /\ pc[p] = "closing"
    /\ holder[myLock[p]] = None
    /\ files' = files \ {mine[p]}
    /\ recLock' = Dropped(p)
    /\ Finish(p)
    /\ UNCHANGED <<lock, free>>

(* The owner dies: the kernel drops its locks; its files stay. *)
Crash(p) ==
    /\ pc[p] # "idle"
    /\ holder' = Unlocked(p)
    /\ recLock' = Dropped(p)
    /\ Finish(p)
    /\ UNCHANGED <<lockFile, files, free>>

(* Something outside replaces budget.lock. *)
ReplaceLock ==
    /\ lockFile < Inodes
    /\ lockFile' = lockFile + 1
    /\ UNCHANGED <<own, count, holder, records, free>>

(* Old copies and caches are deleted. *)
Clean(d) ==
    /\ free[d] < Capacity[d]
    /\ free' = [free EXCEPT ![d] = @ + 1]
    /\ UNCHANGED <<own, count, lock, records>>

-----------------------------------------------------------------------------
Init ==
    /\ pc = [p \in Procs |-> "idle"]
    /\ myLock = [p \in Procs |-> 1]
    /\ sample = [p \in Procs |-> 0]
    /\ todo = [p \in Procs |-> {}]
    /\ counted = [p \in Procs |-> {}]
    /\ mine = [p \in Procs |-> None]
    /\ rest = [p \in Procs |-> {}]
    /\ lockFile = 1
    /\ holder = [i \in 1 .. Inodes |-> None]
    /\ files = {}
    /\ recLock = [t \in Tokens |-> None]
    /\ free = Capacity

(* The steps an admission or a release takes by itself. *)
Enter(p) == EnterLock(p) \/ LockWasReplaced(p)
Proceed(p) ==
    \/ Sample(p) \/ VisitRecord(p) \/ VisitCorrupt(p) \/ Admit(p) \/ Refuse(p)
    \/ CreateRecord(p) \/ LockRecord(p) \/ RecordWasDeleted(p) \/ WriteRecord(p)
    \/ Keep(p) \/ Renounce(p)

Use(p) == Request(p) \/ Materialize(p) \/ Close(p) \/ CloseAfterReplacement(p)

Next ==
    \/ \E p \in Procs :
          Enter(p) \/ Proceed(p) \/ RemoveRecord(p) \/ Use(p) \/ Crash(p)
    \/ ReplaceLock
    \/ \E d \in Devices : Clean(d)

Spec == Init /\ [][Next]_vars

(* The kernel hands budget.lock to everyone who waits for it. *)
Fairness ==
    \A p \in Procs : SF_vars(Enter(p)) /\ WF_vars(Proceed(p)) /\ SF_vars(RemoveRecord(p))

FairSpec == Spec /\ Fairness

(* No owner of a live record dies, or closes it under a replaced lock, while  *)
(* an admission under the present lock is adding up the records: the steps    *)
(* the sum does not survive (see NoOvercommit).                               *)
Steady ==
    \A p \in Procs : pc[p] = "count" /\ lockFile = myLock[p] =>
        \A t \in Tokens : recLock[t] # None => recLock'[t] = recLock[t]

SteadySpec == Init /\ [][Next /\ Steady]_vars

-----------------------------------------------------------------------------
(* Properties. *)

(* The values the state can take. *)
TypeOK ==
    /\ pc \in [Procs -> Steps]
    /\ myLock \in [Procs -> 1 .. Inodes]
    /\ sample \in [Procs -> Nat]
    /\ todo \in [Procs -> SUBSET Tokens]
    /\ counted \in [Procs -> SUBSET Blocks]
    /\ mine \in [Procs -> Tokens \cup {None}]
    /\ rest \in [Procs -> SUBSET Blocks]
    /\ lockFile \in 1 .. Inodes
    /\ holder \in [1 .. Inodes -> Procs \cup {None}]
    /\ files \subseteq Tokens
    /\ recLock \in [Tokens -> Procs \cup {None}]
    /\ free \in [Devices -> Nat]

(* The contexts whose reservation stands, and what they may still write. *)
Live(d) == {p \in Procs : Device[p] = d /\ pc[p] \in {"held", "closing"}}
Outstanding(d) == UNION {rest[p] : p \in Live(d)}

(* "These reservations prevent concurrent known allocations from all spending *)
(* the same free-space sample" (execution_allocation.py): whatever has been   *)
(* reserved and not yet written still fits, and leaves the minimum free.      *)
NoOvercommit ==
    \A d \in Devices :
        Outstanding(d) # {} => Cardinality(Outstanding(d)) + Minimum <= free[d]

(* The record of a live reservation is in the pool, flocked by its owner: no  *)
(* admission or release, under the present lock or a replaced one, deletes it *)
(* (_unlink_pinned, _live_usage).                                             *)
LiveRecordKept ==
    \A p \in Procs : pc[p] \in {"held", "closing"} =>
        mine[p] \in files /\ recLock[mine[p]] = p

(* Who is in the critical section of which budget.lock. *)
Critical == {"sample", "count", "create", "stamp", "write", "verify"}
LockInv ==
    /\ \A p \in Procs : pc[p] \in Critical => holder[myLock[p]] = p
    /\ \A i \in 1 .. Inodes, p \in Procs :
          holder[i] = p => myLock[p] = i /\ pc[p] \in Critical
    /\ \A p \in Procs : myLock[p] <= lockFile

(* Records and owners belong together. *)
Recorded == {"write", "verify", "held", "closing"}
RecordInv ==
    /\ \A p \in Procs : mine[p] # None <=> pc[p] \in Recorded \cup {"stamp"}
    /\ \A p \in Procs : pc[p] \in Recorded =>
          mine[p] \in files /\ recLock[mine[p]] = p
    /\ \A t \in Tokens, p \in Procs :
          recLock[t] = p => mine[p] = t /\ pc[p] \in Recorded
    /\ \A p, q \in Procs : p # q /\ mine[p] # None => mine[p] # mine[q]

(* Only a reservation that stands has blocks left to write. *)
RestInv ==
    \A p \in Procs : /\ rest[p] \subseteq Demand[p]
                     /\ rest[p] # {} => pc[p] = "held"

(* While an admission counts, each live reservation is counted in full or     *)
(* still on the list, and what has been written since the sample was taken is *)
(* part of what live reservations have written.                               *)
Spent(d) == UNION {Demand[q] \ rest[q] : q \in Live(d)}
CountInv ==
    \A p \in Procs : pc[p] = "count" /\ SameLock(p) =>
        /\ \A q \in Live(Device[p]) : mine[q] \in todo[p] \/ Demand[q] \subseteq counted[p]
        /\ sample[p] <= free[Device[p]] + Cardinality(Spent(Device[p]))

(* An admission that was decided can be kept. *)
PromiseInv ==
    \A p \in Procs :
        pc[p] \in {"create", "stamp", "write", "verify"} /\ SameLock(p) =>
            Cardinality(Outstanding(Device[p]) \cup Demand[p]) + Minimum
                <= free[Device[p]]

(* What holds in any case, and the inductive invariant of SteadySpec: files   *)
(* and locks agree, and an admission in progress knows enough.                *)
BaseInv == TypeOK /\ LockInv /\ RecordInv /\ RestInv
IInv == BaseInv /\ CountInv /\ PromiseInv /\ NoOvercommit

(* Every admission comes to a decision and every release to an end: waiting   *)
(* for budget.lock has no timeout and needs none.                             *)
EveryCallReturns ==
    \A p \in Procs :
        pc[p] \notin {"idle", "held"} ~> pc[p] \in {"idle", "held"}
=============================================================================
