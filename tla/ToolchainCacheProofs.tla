------------------------- MODULE ToolchainCacheProofs -------------------------
(* What the runs check of the shared cache on a small instance, proved for any *)
(* commands, contents, sizes and limits: who holds the lock, that readers and  *)
(* batches see whole entries, and that the room made for a batch is enough.    *)
EXTENDS ToolchainCache, TLAPS, FiniteSetTheorems

OpState == [step : Steps, kind : Kinds, want : SUBSET Digests,
            todo : SUBSET Digests, fresh : SUBSET Digests,
            kept : SUBSET Digests, cap : Nat,
            at : Digests \cup {None}, ok : BOOLEAN]

DiskOK ==
    /\ entry \subseteq Digests /\ manifest \subseteq Digests
    /\ staged \subseteq Digests /\ purged \subseteq Digests
    /\ OrderOf(older, manifest)

-----------------------------------------------------------------------------
(* The inductive invariant. *)

Working == Steps \ {"idle", "wait", "reading"}

(* The lock is held by those who are at work on the cache, and by no other.    *)
LockOK ==
    /\ \A p \in Procs : op[p].step \in Working <=> writer = p
    /\ \A p \in Procs : op[p].step = "reading" <=> p \in readers
    /\ writer # None => readers = {}

(* What the calls ask for, and that only sources asked for are new. *)
Asked(o) ==
    /\ o.kind = "snapshot" => \A d, e \in o.want : d = e
    /\ o.kind = "collect" => o.want = {}
    /\ o.fresh \subseteq o.want
    /\ o.step \notin Working => o.fresh = {} /\ o.kept = {}

(* Nothing of the batch is in the cache yet, and what it keeps is whole. *)
Before(o) ==
    /\ staged = o.fresh
    /\ o.fresh \cap (entry \cup manifest) = {}
    /\ o.kept \ o.fresh \subseteq Valid

Staging(o) ==
    /\ o.step = "protect" =>
          o.kind = "save" /\ o.fresh = {} /\ o.kept = {} /\ o.todo = o.want
    /\ o.step = "stage" =>
          /\ o.kind \in {"save", "snapshot"} /\ o.todo \subseteq o.want
          /\ o.want \ o.todo \subseteq Valid \cup o.fresh
          /\ o.kind = "save" => o.want \ o.todo \subseteq o.kept
    /\ o.step \in {"protect", "stage", "room"} => Before(o) /\ purged = {}

MakingRoom(o) ==
    /\ o.step \in {"room", "purge"} => o.want \subseteq o.fresh \cup o.kept
    /\ o.step = "purge" => Before(o) /\ purged = {o.at} /\ o.at \notin entry \cup o.kept

(* What is left to publish is in staging; all else that is wanted is whole.    *)
Publishing(o) ==
    /\ o.step \in {"publish", "manifest"} =>
          /\ o.todo \subseteq o.fresh
          /\ o.want \ o.todo \subseteq Valid
    /\ o.step = "publish" => staged = o.todo /\ o.todo \cap (entry \cup manifest) = {}
    /\ o.step = "manifest" =>
          /\ o.at \in o.todo /\ o.at \in entry \ manifest
          /\ staged = o.todo \ {o.at} /\ staged \cap (entry \cup manifest) = {}
    /\ o.step \in {"publish", "manifest"} \/ (o.step = "touch" /\ o.kind = "save") =>
          purged = {} /\ Sum(entry) + Sum(staged) <= o.cap
    /\ o.step = "touch" => staged = {} /\ o.want \subseteq Valid

Ending(o) ==
    /\ o.step = "undo" => o.fresh \cap (entry \cup manifest) \subseteq o.todo
    /\ o.step = "unmanifest" =>
          /\ o.at \notin entry
          /\ o.fresh \cap (entry \cup manifest) \subseteq o.todo \cup {o.at}
    /\ o.step = "stored" => o.ok
    /\ o.step \in {"stored", "leave"} /\ o.ok => o.want \subseteq Valid
    /\ o.step = "leave" /\ ~o.ok => o.fresh \cap (entry \cup manifest) = {}

Batch(o) == Asked(o) /\ Staging(o) /\ MakingRoom(o) /\ Publishing(o) /\ Ending(o)

CacheInv == CacheTypeOK /\ LockOK /\ ReadersSeeWhole /\ \A p \in Procs : Batch(op[p])

-----------------------------------------------------------------------------
(* Sizes.  The blocks of a set of contents are finitely many, ... *)
LEMMA SumIsNat ==
  ASSUME NEW S \in SUBSET Digests
  PROVE  /\ IsFiniteSet(UNION {Blocks(d) : d \in S})
         /\ Sum(S) \in Nat
<1> DEFINE f == [d \in S |-> Blocks(d)]
           T == {Blocks(d) : d \in S}
<1>1. IsFiniteSet(S) BY SizeAssumption, FS_Subset
<1>2. f \in Surjection(S, T) BY DEF Surjection
<1>3. IsFiniteSet(T) BY <1>1, <1>2, FS_Surjection
<1>4. ASSUME NEW d \in S PROVE IsFiniteSet(Blocks(d))
  <2>1. Size[d] \in Int BY SizeAssumption
  <2>2. IsFiniteSet(1 .. Size[d]) BY <2>1, FS_Interval
  <2>3. IsFiniteSet({d}) BY FS_Singleton
  <2>4. QED BY <2>2, <2>3, FS_Product DEF Blocks
<1>5. IsFiniteSet(UNION T)
  <2>1. \A B \in T : IsFiniteSet(B) BY <1>4
  <2>2. QED BY <1>3, <2>1, FS_UNION
<1>6. QED BY <1>5, FS_CardinalityType DEF Sum

(* ... so that what disjoint sets take adds up, ... *)
LEMMA SumOfDisjoint ==
  ASSUME NEW S \in SUBSET Digests, NEW T \in SUBSET Digests, S \cap T = {}
  PROVE  Sum(S \cup T) = Sum(S) + Sum(T)
<1> DEFINE A == UNION {Blocks(d) : d \in S}
           B == UNION {Blocks(d) : d \in T}
           C == UNION {Blocks(d) : d \in S \cup T}
<1>1. IsFiniteSet(A) /\ IsFiniteSet(B) BY SumIsNat
<1>2. C = A \cup B OBVIOUS
<1>3. A \cap B = {}
  <2>1. SUFFICES ASSUME NEW c \in A, c \in B PROVE FALSE OBVIOUS
  <2>2. PICK d \in S : c \in Blocks(d) OBVIOUS
  <2>3. PICK e \in T : c \in Blocks(e) BY <2>1
  <2>4. c[1] = d /\ c[1] = e BY <2>2, <2>3 DEF Blocks
  <2>5. QED BY <2>4
<1>4. Cardinality(A \cup B) = Cardinality(A) + Cardinality(B) - Cardinality(A \cap B)
  <2> HIDE DEF A, B
  <2>1. QED BY <1>1, FS_Union
<1>5. Cardinality(A \cap B) = 0 BY <1>3, FS_EmptySet
<1>6. Cardinality(A) \in Nat /\ Cardinality(B) \in Nat BY <1>1, FS_CardinalityType
<1>7. Cardinality(C) = Cardinality(A) + Cardinality(B)
  <2> HIDE DEF A, B, C
  <2>1. QED BY <1>2, <1>4, <1>5, <1>6
<1>8. QED BY <1>7 DEF Sum

(* ... and an entry that is renamed into place takes as much as it did before. *)
LEMMA SumOfMoved ==
  ASSUME NEW S \in SUBSET Digests, NEW T \in SUBSET Digests, NEW d \in T, d \notin S
  PROVE  Sum(S \cup {d}) + Sum(T \ {d}) = Sum(S) + Sum(T)
<1>1. {d} \in SUBSET Digests /\ T \ {d} \in SUBSET Digests /\ T = (T \ {d}) \cup {d}
  OBVIOUS
<1>2. Sum(S \cup {d}) = Sum(S) + Sum({d})
  <2>1. S \cap {d} = {} OBVIOUS
  <2>2. QED BY <1>1, <2>1, SumOfDisjoint
<1>3. Sum(T) = Sum(T \ {d}) + Sum({d})
  <2>1. (T \ {d}) \cap {d} = {} OBVIOUS
  <2>2. QED BY <1>1, <2>1, SumOfDisjoint
<1>4. Sum(S) \in Nat /\ Sum({d}) \in Nat /\ Sum(T \ {d}) \in Nat BY <1>1, SumIsNat
<1>5. QED BY <1>2, <1>3, <1>4

LEMMA SumOfNone == Sum({}) = 0
<1>1. UNION {Blocks(d) : d \in {}} = {} OBVIOUS
<1>2. QED BY <1>1, FS_EmptySet DEF Sum

-----------------------------------------------------------------------------
(* The order of use stays one when a content leaves, ... *)
LEMMA OrderWithout ==
  ASSUME NEW S, NEW R, OrderOf(R, S), NEW T \in SUBSET S
  PROVE  OrderOf(R \cap (T \X T), T)
BY DEF OrderOf

(* ... comes in last ... *)
LEMMA OrderWith ==
  ASSUME NEW S, NEW R, OrderOf(R, S), NEW d, d \notin S
  PROVE  OrderOf(R \cup (S \X {d}), S \cup {d})
<1> DEFINE Q == R \cup (S \X {d})
<1>1. Q \subseteq (S \cup {d}) \X (S \cup {d}) BY DEF OrderOf
<1>2. ASSUME NEW a \in S \cup {d}, NEW b \in S \cup {d}
      PROVE  <<a, b>> \in Q <=> <<a, b>> \in R \/ (a \in S /\ b = d)
  OBVIOUS
<1>3. \A a, b : <<a, b>> \in R => a \in S /\ b \in S BY DEF OrderOf
<1> HIDE DEF Q
<1>4. \A a, b \in S \cup {d} : a # b => (<<a, b>> \in Q <=> <<b, a>> \notin Q)
  BY <1>2, <1>3 DEF OrderOf
<1>5. \A a \in S \cup {d} : <<a, a>> \notin Q BY <1>2, <1>3 DEF OrderOf
<1>6. \A a, b, c \in S \cup {d} : <<a, b>> \in Q /\ <<b, c>> \in Q => <<a, c>> \in Q
  BY <1>2, <1>3 DEF OrderOf
<1>7. QED BY <1>1, <1>4, <1>5, <1>6 DEF OrderOf, Q

(* ... or is used again. *)
LEMMA OrderRenewed ==
  ASSUME NEW S, NEW R, OrderOf(R, S), NEW T \in SUBSET S
  PROVE  OrderOf((R \ (T \X (S \ T))) \cup ((S \ T) \X T), S)
<1> DEFINE A == T \X (S \ T)
           B == (S \ T) \X T
           Q == (R \ A) \cup B
<1>1. Q \subseteq S \X S BY DEF OrderOf
<1>2. ASSUME NEW a \in S, NEW b \in S
      PROVE  <<a, b>> \in Q
               <=> (<<a, b>> \in R /\ (a \in T => b \in T)) \/ (a \notin T /\ b \in T)
  <2>1. <<a, b>> \in A <=> a \in T /\ b \notin T OBVIOUS
  <2>2. <<a, b>> \in B <=> a \notin T /\ b \in T OBVIOUS
  <2> HIDE DEF A, B
  <2>3. QED BY <2>1, <2>2
<1> HIDE DEF Q
<1>3. ASSUME NEW a \in S, NEW b \in S, a # b
      PROVE  <<a, b>> \in Q <=> <<b, a>> \notin Q
  <2>1. <<a, b>> \in R <=> <<b, a>> \notin R BY <1>3 DEF OrderOf
  <2>2. QED BY <1>2, <2>1
<1>4. \A a \in S : <<a, a>> \notin Q BY <1>2 DEF OrderOf
<1>5. \A a, b, c \in S : <<a, b>> \in Q /\ <<b, c>> \in Q => <<a, c>> \in Q
  BY <1>2 DEF OrderOf
<1>6. QED BY <1>1, <1>3, <1>4, <1>5 DEF OrderOf, Q

-----------------------------------------------------------------------------
(* Types, spelled out. *)
LEMMA Fields ==
  ASSUME NEW o \in OpState
  PROVE  /\ o.step \in Steps /\ o.kind \in Kinds /\ o.want \subseteq Digests
         /\ o.todo \subseteq Digests /\ o.fresh \subseteq Digests
         /\ o.kept \subseteq Digests /\ o.cap \in Nat
         /\ o.at \in Digests \cup {None} /\ o.ok \in BOOLEAN
BY DEF OpState

LEMMA TypeParts ==
  CacheTypeOK <=> /\ DiskOK /\ op \in [Procs -> OpState]
                  /\ writer \in Procs \cup {None} /\ readers \subseteq Procs
                  /\ faults \in 0 .. MaxFaults
BY DEF CacheTypeOK, DiskOK, OpState

LEMMA IdleTyped == Idle \in OpState /\ Asked(Idle) /\ Idle.step = "idle"
BY DEF Idle, OpState, Steps, Kinds, Asked, Working

(* What is known of a command at work. *)
LEMMA AtWork ==
  ASSUME CacheInv, NEW p \in Procs
  PROVE  op[p] \in OpState /\ Batch(op[p]) /\ DiskOK /\ faults \in 0 .. MaxFaults
BY TypeParts DEF CacheInv

(* An operation that is not at work says nothing of the disk. *)
LEMMA OffWork ==
  ASSUME NEW o, o.step \notin Working, Asked(o)
  PROVE  Batch(o) /\ Batch(o)'
BY DEF Working, Steps, Batch, Staging, MakingRoom, Publishing, Ending

(* A step of the command at work: the others do not look.                      *)
LEMMA WorkStep ==
  ASSUME CacheInv, NEW p \in Procs, NEW n \in OpState,
         op[p].step \in Working, n.step \in Working,
         op' = [op EXCEPT ![p] = n], UNCHANGED lock, faults' \in 0 .. MaxFaults,
         DiskOK', Batch(n)'
  PROVE  CacheInv'
<1>1. op \in [Procs -> OpState] BY TypeParts DEF CacheInv
<1>2. op'[p] = n /\ \A q \in Procs \ {p} : op'[q] = op[q] BY <1>1
<1>3. op' \in [Procs -> OpState] BY <1>1
<1>4. CacheTypeOK' BY <1>3, TypeParts DEF CacheInv, lock, CacheTypeOK, DiskOK, OpState
<1>5. writer = p /\ readers = {} /\ p # None BY NoneAssumption DEF CacheInv, LockOK
<1>6. \A q \in Procs \ {p} : op[q].step \notin Working BY <1>5 DEF CacheInv, LockOK
<1>7. n.step # "reading" BY DEF Working
<1>8. LockOK' BY <1>2, <1>5, <1>6, <1>7 DEF CacheInv, LockOK, lock
<1>9. ReadersSeeWhole' BY <1>5, <1>8 DEF ReadersSeeWhole, LockOK, lock
<1>10. ASSUME NEW q \in Procs PROVE Batch(op[q])'
  <2>1. CASE q = p BY <1>2, <2>1
  <2>2. CASE q # p
    <3>1. PICK o : o = op[q] OBVIOUS
    <3>2. o.step \notin Working /\ Asked(o) BY <1>6, <2>2, <3>1 DEF CacheInv, Batch
    <3>3. Batch(o)' BY <3>2, OffWork
    <3>4. QED BY <1>2, <2>2, <3>1, <3>3
  <2>3. QED BY <2>1, <2>2
<1>11. QED BY <1>4, <1>8, <1>9, <1>10 DEF CacheInv

(* A step after which a command holds no lock. *)
LEMMA OffStep ==
  ASSUME CacheInv, NEW p \in Procs, NEW n \in OpState,
         n.step \in {"idle", "wait"}, Asked(n),
         op' = [op EXCEPT ![p] = n], UNCHANGED disk, faults' \in 0 .. MaxFaults,
         writer' = (IF writer = p THEN None ELSE writer), readers' = readers \ {p}
  PROVE  CacheInv'
<1>1. op \in [Procs -> OpState] BY TypeParts DEF CacheInv
<1>2. op'[p] = n /\ \A q \in Procs \ {p} : op'[q] = op[q] BY <1>1
<1>3. op' \in [Procs -> OpState] BY <1>1
<1>4. CacheTypeOK' BY <1>3, TypeParts DEF CacheInv, disk, CacheTypeOK, DiskOK, OpState
<1>5. n.step \notin Working /\ n.step # "reading" BY DEF Working
<1>6. LockOK' BY <1>2, <1>5, NoneAssumption DEF CacheInv, LockOK
<1>7. ReadersSeeWhole' BY <1>2, <1>5 DEF CacheInv, ReadersSeeWhole, Valid, disk
<1>8. ASSUME NEW q \in Procs PROVE Batch(op[q])'
  <2>1. CASE q = p BY <1>2, <1>5, <2>1, OffWork
  <2>2. CASE q # p
    <3>1. PICK o : o = op[q] OBVIOUS
    <3>2. Batch(o)' 
      BY <3>1 DEF CacheInv, disk, Batch, Asked, Staging, Before, MakingRoom, Publishing,
                  Ending, Valid
    <3>3. QED BY <1>2, <2>2, <3>1, <3>2
  <2>3. QED BY <2>1, <2>2
<1>9. QED BY <1>4, <1>6, <1>7, <1>8 DEF CacheInv

-----------------------------------------------------------------------------
(* The steps that take and leave the lock. *)
LEMMA AskStep ==
  ASSUME CacheInv, NEW p \in Procs, NEW kind \in Kinds, NEW want \in SUBSET Digests,
         NEW cap \in Nat, Ask(p, kind, want, cap),
         kind = "snapshot" => \A d, e \in want : d = e,
         kind = "collect" => want = {}
  PROVE  CacheInv'
<1>1. PICK n : n = [Idle EXCEPT !.step = "wait", !.kind = kind, !.want = want, !.cap = cap]
  OBVIOUS
<1>2. n \in OpState /\ n.step = "wait" /\ Asked(n)
  BY <1>1 DEF Idle, OpState, Steps, Asked, Working
<1>3. op[p].step = "idle" /\ op' = [op EXCEPT ![p] = n] /\ UNCHANGED <<disk, lock, faults>>
  BY <1>1 DEF Ask
<1>4. writer # p /\ p \notin readers BY <1>3 DEF CacheInv, LockOK, Working
<1>5. QED BY <1>2, <1>3, <1>4, AtWork, OffStep DEF lock

LEMMA ToIdle ==
  ASSUME CacheInv, NEW p \in Procs, op' = [op EXCEPT ![p] = Idle],
         UNCHANGED disk, faults' \in 0 .. MaxFaults,
         writer' = (IF writer = p THEN None ELSE writer), readers' = readers \ {p}
  PROVE  CacheInv'
<1>1. PICK n : n = Idle OBVIOUS
<1>2. n \in OpState /\ n.step = "idle" /\ Asked(n) BY <1>1, IdleTyped
<1>3. QED BY <1>1, <1>2, OffStep

LEMMA UnsafeStep ==
  ASSUME CacheInv, NEW p \in Procs, Unsafe(p)
  PROVE  CacheInv'
<1>1. writer # p /\ p \notin readers BY DEF Unsafe, CacheInv, LockOK, Working
<1>2. QED BY <1>1, AtWork, ToIdle DEF Unsafe, lock

LEMMA EndReadStep ==
  ASSUME CacheInv, NEW p \in Procs, EndRead(p)
  PROVE  CacheInv'
<1>1. writer # p BY DEF EndRead, CacheInv, LockOK, Working
<1>2. QED BY <1>1, AtWork, ToIdle DEF EndRead

LEMMA LeaveStep ==
  ASSUME CacheInv, NEW p \in Procs, Leave(p)
  PROVE  CacheInv'
<1>1. writer = p /\ p \notin readers
  BY DEF Leave, CacheInv, LockOK, Working, Steps
<1>2. QED BY <1>1, AtWork, ToIdle DEF Leave, Release

LEMMA DieStep ==
  ASSUME CacheInv, NEW p \in Procs, Die(p)
  PROVE  CacheInv'
<1>1. faults' \in 0 .. MaxFaults BY AtWork, CapsAssumption DEF Die
<1>2. QED BY <1>1, ToIdle DEF Die

LEMMA LockExclusiveStep ==
  ASSUME CacheInv, NEW p \in Procs, LockExclusive(p)
  PROVE  CacheInv'
<1>1. PICK o : o = op[p] OBVIOUS
<1>2. o \in OpState /\ Asked(o) /\ DiskOK BY <1>1, AtWork DEF Batch
<1>3. PICK n : n = [o EXCEPT !.step = FirstStep(o.kind), !.todo = o.want] OBVIOUS
<1>4. o.step = "wait" /\ o.kind # "read" /\ writer = None /\ readers = {}
      /\ writer' = p /\ purged' = {} /\ staged' = {} /\ op' = [op EXCEPT ![p] = n]
      /\ UNCHANGED <<entry, manifest, older, readers, faults>>
  BY <1>1, <1>3 DEF LockExclusive, MayWrite
<1>5. FirstStep(o.kind) = IF o.kind = "save" THEN "protect"
                          ELSE IF o.kind = "snapshot" THEN "stage" ELSE "room"
  BY DEF FirstStep
<1>6. /\ n \in OpState /\ n.todo = o.want /\ n.want = o.want /\ n.fresh = o.fresh
      /\ n.kept = o.kept /\ n.kind = o.kind /\ n.step = FirstStep(o.kind)
  BY <1>2, <1>3, <1>5 DEF OpState, Steps
<1>7. n.fresh = {} /\ n.kept = {} /\ n.step \in Working /\ n.step \in {"protect", "stage", "room"}
  BY <1>2, <1>4, <1>5, <1>6 DEF Asked, Working, Steps
<1>8. Asked(n)' BY <1>2, <1>6, <1>7 DEF Asked
<1>9. Before(n)' BY <1>4, <1>7 DEF Before
<1>10. Staging(n)' BY <1>4, <1>5, <1>6, <1>7, <1>9 DEF Staging, Kinds
<1>11. n.step = "room" => n.want = {}
  BY <1>2, <1>4, <1>5, <1>6, Fields DEF Asked, Kinds
<1>12. MakingRoom(n)' /\ Publishing(n)' /\ Ending(n)'
  BY <1>7, <1>11 DEF MakingRoom, Publishing, Ending
<1>13. Batch(n)' BY <1>8, <1>10, <1>12 DEF Batch
<1>14. op \in [Procs -> OpState] BY TypeParts DEF CacheInv
<1>15. op'[p] = n /\ \A q \in Procs \ {p} : op'[q] = op[q] BY <1>4, <1>14
<1>16. op' \in [Procs -> OpState] BY <1>4, <1>6, <1>14
<1>17. CacheTypeOK'
  BY <1>2, <1>4, <1>16, TypeParts DEF CacheInv, CacheTypeOK, DiskOK, OpState
<1>18. \A q \in Procs : op[q].step \notin Working
  BY <1>4, NoneAssumption DEF CacheInv, LockOK
<1>19. \A q \in Procs : op'[q].step # "reading"
  BY <1>4, <1>7, <1>15 DEF CacheInv, LockOK
<1>20. LockOK' BY <1>4, <1>7, <1>15, <1>18, <1>19, NoneAssumption DEF LockOK
<1>21. ReadersSeeWhole' BY <1>19 DEF ReadersSeeWhole
<1>22. ASSUME NEW q \in Procs PROVE Batch(op[q])'
  <2>1. CASE q = p BY <1>13, <1>15, <2>1
  <2>2. CASE q # p
    <3>1. PICK r : r = op[q] OBVIOUS
    <3>2. r.step \notin Working /\ Asked(r) BY <1>18, <3>1 DEF CacheInv, Batch
    <3>3. QED BY <1>15, <2>2, <3>1, <3>2, OffWork
  <2>3. QED BY <2>1, <2>2
<1>23. QED BY <1>17, <1>20, <1>21, <1>22 DEF CacheInv

LEMMA LockSharedStep ==
  ASSUME CacheInv, NEW p \in Procs, LockShared(p)
  PROVE  CacheInv'
<1>1. op[p].step = "wait" /\ writer = None /\ UNCHANGED <<disk, writer, faults>>
  BY DEF LockShared, MayRead
<1>2. CASE ~(op[p].want \subseteq Valid)
  <2>1. op' = [op EXCEPT ![p] = Idle] /\ readers' = readers BY <1>2 DEF LockShared
  <2>2. p \notin readers BY <1>1 DEF CacheInv, LockOK
  <2>3. QED BY <1>1, <2>1, <2>2, AtWork, ToIdle
<1>3. CASE op[p].want \subseteq Valid
  <2>1. PICK o : o = op[p] OBVIOUS
  <2>2. PICK n : n = [o EXCEPT !.step = "reading"] OBVIOUS
  <2>3. op' = [op EXCEPT ![p] = n] /\ readers' = readers \cup {p}
    BY <1>3, <2>1, <2>2 DEF LockShared, Goto
  <2>4. o \in OpState /\ Asked(o) BY <2>1, AtWork DEF Batch
  <2>5. n \in OpState /\ n.step = "reading" /\ n.want = o.want /\ n.kind = o.kind
        /\ n.fresh = o.fresh /\ n.kept = o.kept
    BY <2>2, <2>4 DEF OpState, Steps
  <2>6. Asked(n) BY <1>1, <2>1, <2>4, <2>5 DEF Asked, Working
  <2>7. op \in [Procs -> OpState] BY TypeParts DEF CacheInv
  <2>8. op'[p] = n /\ \A q \in Procs \ {p} : op'[q] = op[q] BY <2>3, <2>7
  <2>9. op' \in [Procs -> OpState] BY <2>3, <2>5, <2>7
  <2>10. CacheTypeOK'
    BY <1>1, <2>3, <2>9, TypeParts DEF CacheInv, CacheTypeOK, DiskOK, OpState, disk
  <2>11. n.step \notin Working BY <2>5 DEF Working
  <2>12. LockOK' BY <1>1, <2>3, <2>5, <2>8, <2>11, NoneAssumption DEF CacheInv, LockOK
  <2>13. ReadersSeeWhole'
    BY <1>1, <1>3, <2>1, <2>5, <2>8 DEF CacheInv, ReadersSeeWhole, Valid, disk
  <2>14. ASSUME NEW q \in Procs PROVE Batch(op[q])'
    <3>1. CASE q = p BY <2>6, <2>8, <2>11, <3>1, OffWork
    <3>2. CASE q # p
      <4>1. PICK r : r = op[q] OBVIOUS
      <4>2. r.step \notin Working /\ Asked(r)
        BY <1>1, <4>1, NoneAssumption DEF CacheInv, LockOK, Batch
      <4>3. QED BY <2>8, <3>2, <4>1, <4>2, OffWork
    <3>3. QED BY <3>1, <3>2
  <2>15. QED BY <2>10, <2>12, <2>13, <2>14 DEF CacheInv
<1>4. QED BY <1>2, <1>3

-----------------------------------------------------------------------------
(* The steps of the command at work: staging, ... *)
LEMMA FailStep ==
  ASSUME CacheInv, NEW p \in Procs, op[p].step \in Working, Fail(p),
         op[p].fresh \cap (entry \cup manifest) = {},
         UNCHANGED <<entry, manifest, older, purged, lock>>, faults' \in 0 .. MaxFaults
  PROVE  CacheInv'
<1>1. PICK o : o = op[p] OBVIOUS
<1>2. o \in OpState /\ Asked(o) /\ DiskOK BY <1>1, AtWork DEF Batch
<1>3. PICK n : n = [o EXCEPT !.step = "leave", !.ok = FALSE] OBVIOUS
<1>4. op' = [op EXCEPT ![p] = n] /\ staged' = staged \ o.fresh BY <1>1, <1>3 DEF Fail
<1>5. n \in OpState /\ n.step = "leave" /\ n.ok = FALSE /\ n.fresh = o.fresh
      /\ n.want = o.want /\ n.kind = o.kind
  BY <1>2, <1>3 DEF OpState, Steps
<1>6. n.step \in Working BY <1>5 DEF Working, Steps
<1>7. Asked(n) BY <1>2, <1>5, <1>6 DEF Asked
<1>8. Batch(n)'
  BY <1>1, <1>5, <1>7 DEF Batch, Staging, MakingRoom, Publishing, Ending
<1>9. DiskOK' BY <1>2, <1>4 DEF DiskOK
<1>10. QED BY <1>4, <1>5, <1>6, <1>8, <1>9, WorkStep

LEMMA ProtectStep ==
  ASSUME CacheInv, NEW p \in Procs, NEW previous, Protect(p, previous)
  PROVE  CacheInv'
<1>1. PICK o : o = op[p] OBVIOUS
<1>2. o \in OpState /\ Batch(o) /\ DiskOK /\ faults \in 0 .. MaxFaults BY <1>1, AtWork
<1>3. PICK n : n = [o EXCEPT !.step = "stage", !.kept = previous \cap Valid] OBVIOUS
<1>4. o.step = "protect" /\ op' = [op EXCEPT ![p] = n] /\ UNCHANGED <<disk, lock, faults>>
  BY <1>1, <1>3 DEF Protect
<1>5. previous \cap Valid \in SUBSET Digests BY <1>2 DEF DiskOK, Valid
<1>6. n \in OpState /\ n.step = "stage" /\ n.kept = previous \cap Valid /\ n.kind = o.kind
      /\ n.want = o.want /\ n.todo = o.todo /\ n.fresh = o.fresh
  BY <1>2, <1>3, <1>5 DEF OpState, Steps
<1>7. o.step \in Working /\ n.step \in Working BY <1>4, <1>6 DEF Working, Steps
<1>8. Asked(n) BY <1>2, <1>4, <1>6, <1>7 DEF Batch, Asked
<1>9. Staging(n)'
  BY <1>2, <1>4, <1>6 DEF Batch, Staging, Before, Valid, disk
<1>10. Batch(n)' BY <1>6, <1>8, <1>9 DEF Batch, MakingRoom, Publishing, Ending
<1>11. DiskOK' BY <1>2, <1>4 DEF DiskOK, disk
<1>12. QED BY <1>1, <1>2, <1>4, <1>6, <1>7, <1>10, <1>11, WorkStep

LEMMA StageStep ==
  ASSUME CacheInv, NEW p \in Procs, NEW d \in Digests, Stage(p, d)
  PROVE  CacheInv'
<1>1. PICK o : o = op[p] OBVIOUS
<1>2. o \in OpState /\ Batch(o) /\ DiskOK /\ faults \in 0 .. MaxFaults BY <1>1, AtWork
<1>3. PICK new : new = NewContent(d) OBVIOUS
<1>4. PICK kept : kept = IF o.kind = "save" THEN o.kept \cup {d} ELSE o.kept OBVIOUS
<1>5. PICK n : n = [o EXCEPT !.todo = o.todo \ {d}, !.fresh = o.fresh \cup new, !.kept = kept]
  OBVIOUS
<1>6. /\ o.step = "stage" /\ d \in o.todo /\ d \notin Torn
      /\ staged' = staged \cup new /\ op' = [op EXCEPT ![p] = n]
      /\ UNCHANGED <<entry, manifest, older, purged, lock, faults>>
  BY <1>1, <1>3, <1>4, <1>5 DEF Stage, Selected
<1>7. new \subseteq {d} /\ (d \in Valid <=> new = {}) /\ new \in SUBSET Digests
  BY <1>3 DEF NewContent
<1>8. kept \in SUBSET Digests /\ o.kept \subseteq kept /\ kept \subseteq o.kept \cup {d}
      /\ (o.kind = "save" => d \in kept)
  BY <1>2, <1>4, Fields
<1>9. o.fresh \cup new \in SUBSET Digests /\ o.todo \ {d} \in SUBSET Digests
  BY <1>2, <1>7, Fields
<1>10. n \in OpState /\ n.step = "stage" /\ n.kept = kept /\ n.kind = o.kind
       /\ n.want = o.want /\ n.todo = o.todo \ {d} /\ n.fresh = o.fresh \cup new
  BY <1>2, <1>5, <1>6, <1>8, <1>9 DEF OpState, Steps
<1>11. o.step \in Working /\ n.step \in Working BY <1>6, <1>10 DEF Working, Steps
<1>12. Before(o) /\ purged = {} /\ o.kind \in {"save", "snapshot"} /\ o.todo \subseteq o.want
       /\ o.want \ o.todo \subseteq Valid \cup o.fresh
       /\ (o.kind = "save" => o.want \ o.todo \subseteq o.kept)
  BY <1>2, <1>6 DEF Batch, Staging
<1>13. Asked(n)
  <2>1. Asked(o) BY <1>2 DEF Batch
  <2>2. n.fresh \subseteq n.want BY <1>6, <1>7, <1>10, <1>12, <2>1 DEF Asked
  <2>3. QED BY <1>10, <1>11, <2>1, <2>2 DEF Asked
<1>14. new \cap (entry \cup manifest) = {}
  BY <1>6, <1>7 DEF Valid, Torn
<1>15. Before(n)'
  <2>1. staged' = n.fresh BY <1>6, <1>10, <1>12 DEF Before
  <2>2. n.fresh \cap (entry \cup manifest) = {} BY <1>10, <1>12, <1>14 DEF Before
  <2>3. n.kept \ n.fresh \subseteq Valid BY <1>7, <1>8, <1>10, <1>12 DEF Before
  <2>4. QED BY <1>6, <2>1, <2>2, <2>3 DEF Before, Valid
<1>16. n.todo \subseteq n.want /\ n.want \ n.todo \subseteq Valid \cup n.fresh
       /\ (n.kind = "save" => n.want \ n.todo \subseteq n.kept)
  BY <1>7, <1>8, <1>10, <1>12
<1>17. Batch(n)'
  BY <1>6, <1>10, <1>12, <1>13, <1>15, <1>16
     DEF Batch, Staging, MakingRoom, Publishing, Ending, Valid
<1>18. DiskOK' BY <1>2, <1>6, <1>7 DEF DiskOK
<1>19. QED BY <1>1, <1>2, <1>6, <1>10, <1>11, <1>17, <1>18, WorkStep

LEMMA StageFailsStep ==
  ASSUME CacheInv, NEW p \in Procs,
         \/ StageFails(p)
         \/ RefuseIncomplete(p)
  PROVE  CacheInv'
<1>1. /\ op[p].step = "stage" /\ Fail(p)
      /\ UNCHANGED <<entry, manifest, older, purged, lock, faults>>
  BY DEF StageFails, RefuseIncomplete, Incomplete
<1>2. op[p].fresh \cap (entry \cup manifest) = {}
  BY <1>1, AtWork DEF Batch, Staging, Before
<1>3. op[p].step \in Working BY <1>1 DEF Working, Steps
<1>4. QED BY <1>1, <1>2, <1>3, AtWork, FailStep

LEMMA StagedAllStep ==
  ASSUME CacheInv, NEW p \in Procs, StagedAll(p)
  PROVE  CacheInv'
<1>1. PICK o : o = op[p] OBVIOUS
<1>2. o \in OpState /\ Batch(o) /\ DiskOK /\ faults \in 0 .. MaxFaults BY <1>1, AtWork
<1>3. PICK step : step = IF o.kind = "snapshot" /\ o.fresh = {} THEN "touch" ELSE "room"
  OBVIOUS
<1>4. PICK n : n = [o EXCEPT !.step = step] OBVIOUS
<1>5. o.step = "stage" /\ o.todo = {} /\ op' = [op EXCEPT ![p] = n]
      /\ UNCHANGED <<disk, lock, faults>>
  BY <1>1, <1>3, <1>4 DEF StagedAll, Goto
<1>6. n \in OpState /\ n.step = step /\ n.kept = o.kept /\ n.kind = o.kind
      /\ n.want = o.want /\ n.fresh = o.fresh
  BY <1>2, <1>3, <1>4 DEF OpState, Steps
<1>7. o.step \in Working /\ n.step \in Working BY <1>3, <1>5, <1>6 DEF Working, Steps
<1>8. Before(o) /\ purged = {} /\ o.kind \in {"save", "snapshot"} /\ o.fresh \subseteq o.want
      /\ o.want \subseteq Valid \cup o.fresh /\ (o.kind = "save" => o.want \subseteq o.kept)
      /\ (o.kind = "snapshot" => \A d, e \in o.want : d = e)
  BY <1>2, <1>5 DEF Batch, Staging, Asked
<1>9. Asked(n) BY <1>2, <1>6, <1>7 DEF Batch, Asked
<1>10. CASE step = "touch"
  <2>1. o.fresh = {} /\ o.kind = "snapshot" BY <1>3, <1>10
  <2>2. staged = {} /\ o.want \subseteq Valid BY <1>8, <2>1 DEF Before
  <2>3. Batch(n)'
    BY <1>5, <1>6, <1>9, <1>10, <2>1, <2>2
       DEF Batch, Staging, MakingRoom, Publishing, Ending, Valid, disk
  <2>4. DiskOK' BY <1>2, <1>5 DEF DiskOK, disk
  <2>5. QED BY <1>1, <1>2, <1>5, <1>6, <1>7, <2>3, <2>4, WorkStep
<1>11. CASE step = "room"
  <2>1. o.want \subseteq o.fresh \cup o.kept BY <1>3, <1>8, <1>11
  <2>2. Before(n)' BY <1>5, <1>6, <1>8 DEF Before, Valid, disk
  <2>3. Batch(n)'
    BY <1>5, <1>6, <1>8, <1>9, <1>11, <2>1, <2>2
       DEF Batch, Staging, MakingRoom, Publishing, Ending, disk
  <2>4. DiskOK' BY <1>2, <1>5 DEF DiskOK, disk
  <2>5. QED BY <1>1, <1>2, <1>5, <1>6, <1>7, <2>3, <2>4, WorkStep
<1>12. QED BY <1>3, <1>10, <1>11

(* ... making room, ... *)
LEMMA RoomFoundStep ==
  ASSUME CacheInv, NEW p \in Procs, RoomFound(p)
  PROVE  CacheInv'
<1>1. PICK o : o = op[p] OBVIOUS
<1>2. o \in OpState /\ Batch(o) /\ DiskOK /\ faults \in 0 .. MaxFaults BY <1>1, AtWork
<1>3. PICK n : n = [o EXCEPT !.step = "publish", !.todo = o.fresh] OBVIOUS
<1>4. o.step = "room" /\ Fits(p) /\ op' = [op EXCEPT ![p] = n]
      /\ UNCHANGED <<disk, lock, faults>>
  BY <1>1, <1>3 DEF RoomFound
<1>5. n \in OpState /\ n.step = "publish" /\ n.kind = o.kind /\ n.want = o.want
      /\ n.fresh = o.fresh /\ n.todo = o.fresh /\ n.cap = o.cap
  BY <1>2, <1>3 DEF OpState, Steps
<1>6. o.step \in Working /\ n.step \in Working BY <1>4, <1>5 DEF Working, Steps
<1>7. Asked(n) BY <1>2, <1>5, <1>6 DEF Batch, Asked
<1>8. staged = o.fresh /\ o.fresh \cap (entry \cup manifest) = {}
      /\ o.kept \ o.fresh \subseteq Valid /\ purged = {} /\ o.want \subseteq o.fresh \cup o.kept
  BY <1>2, <1>4 DEF Batch, Staging, MakingRoom, Before
<1>9. Sum(entry) + Sum(staged) <= o.cap
  <2>1. Sum(entry) \in Nat /\ Sum(staged) \in Nat /\ Sum(purged) = 0
    BY <1>2, <1>8, SumIsNat, SumOfNone DEF DiskOK
  <2>2. (Usage - Sum(staged)) + Sum(staged) <= o.cap BY <1>1, <1>4, <1>8 DEF Fits, Needed
  <2>3. Usage = Sum(entry) + Sum(staged) BY <2>1 DEF Usage
  <2>4. o.cap \in Nat BY <1>2, Fields
  <2>5. QED BY <2>1, <2>2, <2>3, <2>4
<1>10. Publishing(n)'
  <2>1. n.want \ n.todo \subseteq Valid BY <1>5, <1>8
  <2>2. UNCHANGED <<entry, manifest, staged, purged>> BY <1>4 DEF disk
  <2>3. (Sum(entry) + Sum(staged))' = Sum(entry) + Sum(staged) BY <2>2 DEF Sum
  <2>4. QED BY <1>5, <1>8, <1>9, <2>1, <2>2, <2>3 DEF Publishing, Valid
<1>11. Batch(n)' BY <1>5, <1>7, <1>10 DEF Batch, Staging, MakingRoom, Ending
<1>12. DiskOK' BY <1>2, <1>4 DEF DiskOK, disk
<1>13. QED BY <1>1, <1>2, <1>4, <1>5, <1>6, <1>11, <1>12, WorkStep

LEMMA RoomRefusedStep ==
  ASSUME CacheInv, NEW p \in Procs, RoomRefused(p)
  PROVE  CacheInv'
<1>1. /\ op[p].step = "room" /\ Fail(p)
      /\ UNCHANGED <<entry, manifest, older, purged, lock, faults>>
  BY DEF RoomRefused
<1>2. op[p].fresh \cap (entry \cup manifest) = {}
  BY <1>1, AtWork DEF Batch, Staging, Before
<1>3. op[p].step \in Working BY <1>1 DEF Working, Steps
<1>4. QED BY <1>1, <1>2, <1>3, AtWork, FailStep

LEMMA EvictFailsStep ==
  ASSUME CacheInv, NEW p \in Procs, EvictFails(p)
  PROVE  CacheInv'
<1>1. /\ op[p].step \in {"room", "purge"} /\ Fail(p) /\ faults' = faults + 1 /\ faults < MaxFaults
      /\ UNCHANGED <<entry, manifest, older, purged, lock>>
  BY DEF EvictFails
<1>2. op[p].fresh \cap (entry \cup manifest) = {}
  BY <1>1, AtWork DEF Batch, Staging, MakingRoom, Before
<1>3. op[p].step \in Working BY <1>1 DEF Working, Steps
<1>4. faults' \in 0 .. MaxFaults BY <1>1, AtWork, CapsAssumption
<1>5. QED BY <1>1, <1>2, <1>3, <1>4, FailStep

LEMMA CollectedStep ==
  ASSUME CacheInv, NEW p \in Procs, Collected(p)
  PROVE  CacheInv'
<1>1. PICK o : o = op[p] OBVIOUS
<1>2. o \in OpState /\ Batch(o) /\ DiskOK /\ faults \in 0 .. MaxFaults BY <1>1, AtWork
<1>3. PICK n : n = [o EXCEPT !.step = "leave", !.ok = TRUE] OBVIOUS
<1>4. o.step = "room" /\ o.kind = "collect" /\ op' = [op EXCEPT ![p] = n]
      /\ UNCHANGED <<disk, lock, faults>>
  BY <1>1, <1>3 DEF Collected
<1>5. n \in OpState /\ n.step = "leave" /\ n.kind = o.kind /\ n.want = o.want
      /\ n.fresh = o.fresh /\ n.ok = TRUE
  BY <1>2, <1>3 DEF OpState, Steps
<1>6. o.step \in Working /\ n.step \in Working BY <1>4, <1>5 DEF Working, Steps
<1>7. Asked(n) /\ n.want = {} BY <1>2, <1>4, <1>5, <1>6 DEF Batch, Asked
<1>8. Batch(n)' BY <1>5, <1>7 DEF Batch, Staging, MakingRoom, Publishing, Ending
<1>9. DiskOK' BY <1>2, <1>4 DEF DiskOK, disk
<1>10. QED BY <1>1, <1>2, <1>4, <1>5, <1>6, <1>8, <1>9, WorkStep

LEMMA EvictStep ==
  ASSUME CacheInv, NEW p \in Procs, Evict(p)
  PROVE  CacheInv'
<1>1. PICK o : o = op[p] OBVIOUS
<1>2. o \in OpState /\ Batch(o) /\ DiskOK /\ faults \in 0 .. MaxFaults BY <1>1, AtWork
<1>3. PICK d \in Oldest(Removable(p)) :
        /\ entry' = entry \ {d} /\ purged' = purged \cup {d}
        /\ op' = [op EXCEPT ![p] = [op[p] EXCEPT !.step = "purge", !.at = d]]
  BY DEF Evict
<1>4. o.step = "room" /\ UNCHANGED <<manifest, older, staged, lock, faults>>
  BY <1>1 DEF Evict
<1>5. d \in entry /\ d \in manifest /\ d \notin o.kept BY <1>1 DEF Oldest, Removable, Valid
<1>6. d \in Digests BY <1>2, <1>5 DEF DiskOK
<1>7. PICK n : n = [o EXCEPT !.step = "purge", !.at = d] OBVIOUS
<1>8. op' = [op EXCEPT ![p] = n] BY <1>1, <1>3, <1>7
<1>9. n \in OpState /\ n.step = "purge" /\ n.kind = o.kind /\ n.want = o.want
      /\ n.fresh = o.fresh /\ n.kept = o.kept /\ n.at = d
  BY <1>2, <1>6, <1>7 DEF OpState, Steps
<1>10. o.step \in Working /\ n.step \in Working BY <1>4, <1>9 DEF Working, Steps
<1>11. Asked(n) BY <1>2, <1>9, <1>10 DEF Batch, Asked
<1>12. Before(o) /\ purged = {} /\ o.want \subseteq o.fresh \cup o.kept
  BY <1>2, <1>4 DEF Batch, Staging, MakingRoom
<1>13. Before(n)' BY <1>3, <1>4, <1>5, <1>9, <1>12 DEF Before, Valid
<1>14. Batch(n)'
  BY <1>3, <1>5, <1>9, <1>11, <1>12, <1>13 DEF Batch, Staging, MakingRoom, Publishing, Ending
<1>15. DiskOK' BY <1>2, <1>3, <1>4, <1>6 DEF DiskOK
<1>16. QED BY <1>1, <1>2, <1>4, <1>8, <1>9, <1>10, <1>14, <1>15, WorkStep

(* ... with what a removal leaves of the disk, ... *)
LEMMA DropIs ==
  ASSUME DiskOK, NEW p \in Procs, NEW step, Drop(p, step), UNCHANGED <<entry, staged>>
  PROVE  DiskOK' /\ purged' = purged \ {op[p].at} /\ manifest' = manifest \ {op[p].at}
<1>1. purged' = purged \ {op[p].at} /\ manifest' = manifest \ {op[p].at}
      /\ older' = older \cap (manifest' \X manifest')
  BY DEF Drop
<1>2. OrderOf(older', manifest') BY <1>1, OrderWithout DEF DiskOK
<1>3. QED BY <1>1, <1>2 DEF DiskOK

LEMMA EvictManifestStep ==
  ASSUME CacheInv, NEW p \in Procs, EvictManifest(p)
  PROVE  CacheInv'
<1>1. PICK o : o = op[p] OBVIOUS
<1>2. o \in OpState /\ Batch(o) /\ DiskOK /\ faults \in 0 .. MaxFaults BY <1>1, AtWork
<1>3. PICK n : n = [o EXCEPT !.step = "room", !.at = None] OBVIOUS
<1>4. o.step = "purge" /\ op' = [op EXCEPT ![p] = n] /\ UNCHANGED <<entry, staged, lock, faults>>
  BY <1>1, <1>3 DEF EvictManifest, Drop
<1>5. DiskOK' /\ purged' = purged \ {o.at} /\ manifest' = manifest \ {o.at}
  BY <1>1, <1>2, <1>4, DropIs DEF EvictManifest
<1>6. n \in OpState /\ n.step = "room" /\ n.kind = o.kind /\ n.want = o.want
      /\ n.fresh = o.fresh /\ n.kept = o.kept
  BY <1>2, <1>3 DEF OpState, Steps
<1>7. o.step \in Working /\ n.step \in Working BY <1>4, <1>6 DEF Working, Steps
<1>8. Asked(n) BY <1>2, <1>6, <1>7 DEF Batch, Asked
<1>9. Before(o) /\ purged = {o.at} /\ o.at \notin o.kept /\ o.want \subseteq o.fresh \cup o.kept
  BY <1>2, <1>4 DEF Batch, MakingRoom
<1>10. Before(n)' BY <1>4, <1>5, <1>6, <1>9 DEF Before, Valid
<1>11. Batch(n)'
  BY <1>5, <1>6, <1>8, <1>9, <1>10 DEF Batch, Staging, MakingRoom, Publishing, Ending
<1>12. QED BY <1>1, <1>2, <1>4, <1>5, <1>6, <1>7, <1>11, WorkStep

(* ... publishing, ... *)
LEMMA PublishEntryStep ==
  ASSUME CacheInv, NEW p \in Procs, NEW d \in Digests, PublishEntry(p, d)
  PROVE  CacheInv'
<1>1. PICK o : o = op[p] OBVIOUS
<1>2. o \in OpState /\ Batch(o) /\ DiskOK /\ faults \in 0 .. MaxFaults BY <1>1, AtWork
<1>3. PICK n : n = [o EXCEPT !.step = "manifest", !.at = d] OBVIOUS
<1>4. /\ o.step = "publish" /\ d \in o.todo /\ op' = [op EXCEPT ![p] = n]
      /\ entry' = entry \cup {d} /\ staged' = staged \ {d}
      /\ UNCHANGED <<manifest, older, purged, lock, faults>>
  BY <1>1, <1>3 DEF PublishEntry
<1>5. n \in OpState /\ n.step = "manifest" /\ n.kind = o.kind /\ n.want = o.want
      /\ n.fresh = o.fresh /\ n.todo = o.todo /\ n.cap = o.cap /\ n.at = d
  BY <1>2, <1>3 DEF OpState, Steps
<1>6. o.step \in Working /\ n.step \in Working BY <1>4, <1>5 DEF Working, Steps
<1>7. Asked(n) BY <1>2, <1>5, <1>6 DEF Batch, Asked
<1>8. /\ o.todo \subseteq o.fresh /\ o.want \ o.todo \subseteq Valid /\ staged = o.todo
      /\ o.todo \cap (entry \cup manifest) = {} /\ purged = {}
      /\ Sum(entry) + Sum(staged) <= o.cap
  BY <1>2, <1>4 DEF Batch, Publishing
<1>9. Sum(entry \cup {d}) + Sum(staged \ {d}) = Sum(entry) + Sum(staged)
  <2>1. d \in staged /\ d \notin entry BY <1>4, <1>8
  <2>2. QED BY <1>2, <2>1, SumOfMoved DEF DiskOK
<1>10. Sum(entry)' = Sum(entry \cup {d}) /\ Sum(staged)' = Sum(staged \ {d})
  BY <1>4 DEF Sum
<1>11. n.want \ n.todo \subseteq Valid' BY <1>4, <1>5, <1>8 DEF Valid
<1>12. /\ n.at \in n.todo /\ n.at \in entry' \ manifest' /\ staged' = n.todo \ {n.at}
       /\ staged' \cap (entry' \cup manifest') = {}
  BY <1>4, <1>5, <1>8
<1>13. Publishing(n)' BY <1>4, <1>5, <1>8, <1>9, <1>10, <1>11, <1>12 DEF Publishing
<1>14. Batch(n)' BY <1>5, <1>7, <1>13 DEF Batch, Staging, MakingRoom, Ending
<1>15. DiskOK' BY <1>2, <1>4 DEF DiskOK
<1>16. QED BY <1>1, <1>2, <1>4, <1>5, <1>6, <1>14, <1>15, WorkStep

LEMMA PublishManifestStep ==
  ASSUME CacheInv, NEW p \in Procs, PublishManifest(p)
  PROVE  CacheInv'
<1>1. PICK o : o = op[p] OBVIOUS
<1>2. o \in OpState /\ Batch(o) /\ DiskOK /\ faults \in 0 .. MaxFaults BY <1>1, AtWork
<1>3. PICK n : n = [o EXCEPT !.step = "publish", !.at = None, !.todo = o.todo \ {o.at}]
  OBVIOUS
<1>4. /\ o.step = "manifest" /\ op' = [op EXCEPT ![p] = n]
      /\ manifest' = manifest \cup {o.at} /\ older' = older \cup (manifest \X {o.at})
      /\ UNCHANGED <<entry, staged, purged, lock, faults>>
  BY <1>1, <1>3 DEF PublishManifest
<1>5. n \in OpState /\ n.step = "publish" /\ n.kind = o.kind /\ n.want = o.want
      /\ n.fresh = o.fresh /\ n.todo = o.todo \ {o.at} /\ n.cap = o.cap
  BY <1>2, <1>3 DEF OpState, Steps
<1>6. o.step \in Working /\ n.step \in Working BY <1>4, <1>5 DEF Working, Steps
<1>7. Asked(n) BY <1>2, <1>5, <1>6 DEF Batch, Asked
<1>8. /\ o.todo \subseteq o.fresh /\ o.want \ o.todo \subseteq Valid
      /\ o.at \in o.todo /\ o.at \in entry \ manifest
      /\ staged = o.todo \ {o.at} /\ staged \cap (entry \cup manifest) = {}
      /\ purged = {} /\ Sum(entry) + Sum(staged) <= o.cap
  BY <1>2, <1>4 DEF Batch, Publishing
<1>9. Sum(entry)' = Sum(entry) /\ Sum(staged)' = Sum(staged) BY <1>4 DEF Sum
<1>10. n.todo \subseteq n.fresh /\ n.want \ n.todo \subseteq Valid'
  BY <1>4, <1>5, <1>8 DEF Valid
<1>11. staged' = n.todo /\ n.todo \cap (entry' \cup manifest') = {} BY <1>4, <1>5, <1>8
<1>12. Publishing(n)' BY <1>4, <1>5, <1>8, <1>9, <1>10, <1>11 DEF Publishing
<1>13. Batch(n)' BY <1>5, <1>7, <1>12 DEF Batch, Staging, MakingRoom, Ending
<1>14. OrderOf(older', manifest') BY <1>2, <1>4, <1>8, OrderWith DEF DiskOK
<1>15. DiskOK' BY <1>2, <1>4, <1>8, <1>14, Fields DEF DiskOK
<1>16. QED BY <1>1, <1>2, <1>4, <1>5, <1>6, <1>13, <1>15, WorkStep

LEMMA PublishFailsStep ==
  ASSUME CacheInv, NEW p \in Procs, PublishFails(p)
  PROVE  CacheInv'
<1>1. PICK o : o = op[p] OBVIOUS
<1>2. o \in OpState /\ Batch(o) /\ DiskOK /\ faults \in 0 .. MaxFaults BY <1>1, AtWork
<1>3. PICK n : n = [o EXCEPT !.step = "undo", !.todo = o.fresh \cap entry, !.at = None]
  OBVIOUS
<1>4. o.step \in {"publish", "manifest"} /\ op' = [op EXCEPT ![p] = n]
      /\ UNCHANGED <<disk, lock, faults>>
  BY <1>1, <1>3 DEF PublishFails, PublishedSoFar
<1>5. o.fresh \cap entry \in SUBSET Digests BY <1>2, Fields
<1>6. n \in OpState /\ n.step = "undo" /\ n.kind = o.kind /\ n.want = o.want
      /\ n.fresh = o.fresh /\ n.todo = o.fresh \cap entry
  BY <1>2, <1>3, <1>5 DEF OpState, Steps
<1>7. o.step \in Working /\ n.step \in Working BY <1>4, <1>6 DEF Working, Steps
<1>8. Asked(n) BY <1>2, <1>6, <1>7 DEF Batch, Asked
<1>9. o.fresh \cap manifest \subseteq entry
  BY <1>2, <1>4 DEF Batch, Asked, Publishing, Valid
<1>10. Batch(n)'
  BY <1>4, <1>6, <1>8, <1>9 DEF Batch, Staging, MakingRoom, Publishing, Ending, disk
<1>11. DiskOK' BY <1>2, <1>4 DEF DiskOK, disk
<1>12. QED BY <1>1, <1>2, <1>4, <1>6, <1>7, <1>10, <1>11, WorkStep

LEMMA PublishedAllStep ==
  ASSUME CacheInv, NEW p \in Procs, PublishedAll(p)
  PROVE  CacheInv'
<1>1. PICK o : o = op[p] OBVIOUS
<1>2. o \in OpState /\ Batch(o) /\ DiskOK /\ faults \in 0 .. MaxFaults BY <1>1, AtWork
<1>3. PICK n : n = [o EXCEPT !.step = "touch"] OBVIOUS
<1>4. o.step = "publish" /\ o.todo = {} /\ op' = [op EXCEPT ![p] = n]
      /\ UNCHANGED <<disk, lock, faults>>
  BY <1>1, <1>3 DEF PublishedAll, Goto
<1>5. n \in OpState /\ n.step = "touch" /\ n.kind = o.kind /\ n.want = o.want
      /\ n.fresh = o.fresh /\ n.cap = o.cap
  BY <1>2, <1>3 DEF OpState, Steps
<1>6. o.step \in Working /\ n.step \in Working BY <1>4, <1>5 DEF Working, Steps
<1>7. Asked(n) BY <1>2, <1>5, <1>6 DEF Batch, Asked
<1>8. o.want \subseteq Valid /\ staged = {} /\ purged = {} /\ Sum(entry) + Sum(staged) <= o.cap
  BY <1>2, <1>4 DEF Batch, Publishing
<1>9. Sum(entry)' = Sum(entry) /\ Sum(staged)' = Sum(staged) BY <1>4 DEF Sum, disk
<1>10. Publishing(n)' BY <1>4, <1>5, <1>8, <1>9 DEF Publishing, Valid, disk
<1>11. Batch(n)' BY <1>5, <1>7, <1>10 DEF Batch, Staging, MakingRoom, Ending
<1>12. DiskOK' BY <1>2, <1>4 DEF DiskOK, disk
<1>13. QED BY <1>1, <1>2, <1>4, <1>5, <1>6, <1>11, <1>12, WorkStep

LEMMA TouchStep ==
  ASSUME CacheInv, NEW p \in Procs, Touch(p)
  PROVE  CacheInv'
<1>1. PICK o : o = op[p] OBVIOUS
<1>2. o \in OpState /\ Batch(o) /\ DiskOK /\ faults \in 0 .. MaxFaults BY <1>1, AtWork
<1>3. o.step = "touch" /\ older' = Renewed(p)
      /\ UNCHANGED <<entry, manifest, staged, purged, lock, faults>>
  BY <1>1 DEF Touch
<1>4. o.want \subseteq Valid /\ o.fresh \subseteq o.want
  BY <1>2, <1>3 DEF Batch, Asked, Publishing
<1>5. DiskOK'
  <2>1. OrderOf(older, manifest) BY <1>2 DEF DiskOK
  <2>2. Touched(p) \in SUBSET manifest BY DEF Touched
  <2>3. OrderOf(Renewed(p), manifest) BY <2>1, <2>2, OrderRenewed DEF Renewed, Rest
  <2>4. QED BY <1>2, <1>3, <2>3 DEF DiskOK
<1>6. CASE o.kind = "save" /\ Usage > o.cap
  <2>1. PICK n : n = [o EXCEPT !.step = "undo", !.todo = o.fresh \cap entry] OBVIOUS
  <2>2. op' = [op EXCEPT ![p] = n] BY <1>1, <1>6, <2>1 DEF Touch, PublishedSoFar
  <2>3. o.fresh \cap entry \in SUBSET Digests BY <1>2, Fields
  <2>4. n \in OpState /\ n.step = "undo" /\ n.kind = o.kind /\ n.want = o.want
        /\ n.fresh = o.fresh /\ n.todo = o.fresh \cap entry
    BY <1>2, <2>1, <2>3 DEF OpState, Steps
  <2>5. o.step \in Working /\ n.step \in Working BY <1>3, <2>4 DEF Working, Steps
  <2>6. Asked(n) BY <1>2, <2>4, <2>5 DEF Batch, Asked
  <2>7. Batch(n)'
    BY <1>3, <1>4, <2>4, <2>6 DEF Batch, Staging, MakingRoom, Publishing, Ending, Valid
  <2>8. QED BY <1>1, <1>2, <1>3, <1>5, <2>2, <2>4, <2>5, <2>7, WorkStep
<1>7. CASE ~(o.kind = "save" /\ Usage > o.cap)
  <2>1. PICK n : n = [o EXCEPT !.step = "stored", !.ok = TRUE] OBVIOUS
  <2>2. op' = [op EXCEPT ![p] = n] BY <1>1, <1>7, <2>1 DEF Touch
  <2>3. n \in OpState /\ n.step = "stored" /\ n.kind = o.kind /\ n.want = o.want
        /\ n.fresh = o.fresh /\ n.ok
    BY <1>2, <2>1 DEF OpState, Steps
  <2>4. o.step \in Working /\ n.step \in Working BY <1>3, <2>3 DEF Working, Steps
  <2>5. Asked(n) BY <1>2, <2>3, <2>4 DEF Batch, Asked
  <2>6. Batch(n)'
    BY <1>3, <1>4, <2>3, <2>5 DEF Batch, Staging, MakingRoom, Publishing, Ending, Valid
  <2>7. QED BY <1>1, <1>2, <1>3, <1>5, <2>2, <2>3, <2>4, <2>6, WorkStep
<1>8. QED BY <1>6, <1>7

LEMMA CloseStep ==
  ASSUME CacheInv, NEW p \in Procs, Close(p)
  PROVE  CacheInv'
<1>1. PICK o : o = op[p] OBVIOUS
<1>2. o \in OpState /\ Batch(o) /\ DiskOK /\ faults \in 0 .. MaxFaults BY <1>1, AtWork
<1>3. PICK n : n = [o EXCEPT !.step = "leave"] OBVIOUS
<1>4. o.step = "stored" /\ op' = [op EXCEPT ![p] = n] /\ UNCHANGED <<disk, lock, faults>>
  BY <1>1, <1>3 DEF Close, Goto
<1>5. n \in OpState /\ n.step = "leave" /\ n.kind = o.kind /\ n.want = o.want
      /\ n.fresh = o.fresh /\ n.ok = o.ok
  BY <1>2, <1>3 DEF OpState, Steps
<1>6. o.step \in Working /\ n.step \in Working BY <1>4, <1>5 DEF Working, Steps
<1>7. Asked(n) BY <1>2, <1>5, <1>6 DEF Batch, Asked
<1>8. o.ok /\ o.want \subseteq Valid BY <1>2, <1>4 DEF Batch, Ending
<1>9. Batch(n)'
  BY <1>4, <1>5, <1>7, <1>8 DEF Batch, Staging, MakingRoom, Publishing, Ending, Valid, disk
<1>10. DiskOK' BY <1>2, <1>4 DEF DiskOK, disk
<1>11. QED BY <1>1, <1>2, <1>4, <1>5, <1>6, <1>9, <1>10, WorkStep

(* ... and taking back. *)
LEMMA UndoStep ==
  ASSUME CacheInv, NEW p \in Procs, NEW d \in Digests, Undo(p, d)
  PROVE  CacheInv'
<1>1. PICK o : o = op[p] OBVIOUS
<1>2. o \in OpState /\ Batch(o) /\ DiskOK /\ faults \in 0 .. MaxFaults BY <1>1, AtWork
<1>3. PICK n : n = [o EXCEPT !.step = "unmanifest", !.at = d, !.todo = o.todo \ {d}] OBVIOUS
<1>4. /\ o.step = "undo" /\ d \in o.todo /\ op' = [op EXCEPT ![p] = n]
      /\ entry' = entry \ {d} /\ purged' = purged \cup {d}
      /\ UNCHANGED <<manifest, older, staged, lock, faults>>
  BY <1>1, <1>3 DEF Undo
<1>5. n \in OpState /\ n.step = "unmanifest" /\ n.kind = o.kind /\ n.want = o.want
      /\ n.fresh = o.fresh /\ n.todo = o.todo \ {d} /\ n.at = d
  BY <1>2, <1>3 DEF OpState, Steps
<1>6. o.step \in Working /\ n.step \in Working BY <1>4, <1>5 DEF Working, Steps
<1>7. Asked(n) BY <1>2, <1>5, <1>6 DEF Batch, Asked
<1>8. o.fresh \cap (entry \cup manifest) \subseteq o.todo BY <1>2, <1>4 DEF Batch, Ending
<1>9. Batch(n)'
  BY <1>4, <1>5, <1>7, <1>8 DEF Batch, Staging, MakingRoom, Publishing, Ending
<1>10. DiskOK' BY <1>2, <1>4 DEF DiskOK
<1>11. QED BY <1>1, <1>2, <1>4, <1>5, <1>6, <1>9, <1>10, WorkStep

LEMMA UndoManifestStep ==
  ASSUME CacheInv, NEW p \in Procs, UndoManifest(p)
  PROVE  CacheInv'
<1>1. PICK o : o = op[p] OBVIOUS
<1>2. o \in OpState /\ Batch(o) /\ DiskOK /\ faults \in 0 .. MaxFaults BY <1>1, AtWork
<1>3. PICK n : n = [o EXCEPT !.step = "undo", !.at = None] OBVIOUS
<1>4. o.step = "unmanifest" /\ op' = [op EXCEPT ![p] = n]
      /\ UNCHANGED <<entry, staged, lock, faults>>
  BY <1>1, <1>3 DEF UndoManifest, Drop
<1>5. DiskOK' /\ manifest' = manifest \ {o.at}
  BY <1>1, <1>2, <1>4, DropIs DEF UndoManifest
<1>6. n \in OpState /\ n.step = "undo" /\ n.kind = o.kind /\ n.want = o.want
      /\ n.fresh = o.fresh /\ n.todo = o.todo
  BY <1>2, <1>3 DEF OpState, Steps
<1>7. o.step \in Working /\ n.step \in Working BY <1>4, <1>6 DEF Working, Steps
<1>8. Asked(n) BY <1>2, <1>6, <1>7 DEF Batch, Asked
<1>9. o.at \notin entry /\ o.fresh \cap (entry \cup manifest) \subseteq o.todo \cup {o.at}
  BY <1>2, <1>4 DEF Batch, Ending
<1>10. Batch(n)'
  BY <1>4, <1>5, <1>6, <1>8, <1>9 DEF Batch, Staging, MakingRoom, Publishing, Ending
<1>11. QED BY <1>1, <1>2, <1>4, <1>5, <1>6, <1>7, <1>10, WorkStep

LEMMA UndoFailsStep ==
  ASSUME CacheInv, NEW p \in Procs, NEW d \in Digests, UndoFails(p, d)
  PROVE  CacheInv'
<1>1. PICK o : o = op[p] OBVIOUS
<1>2. o \in OpState /\ Batch(o) /\ DiskOK /\ faults \in 0 .. MaxFaults BY <1>1, AtWork
<1>3. PICK n : n = [o EXCEPT !.step = "undo", !.todo = o.todo \ {d}, !.at = None,
                             !.fresh = o.fresh \ {d}]
  OBVIOUS
<1>4. /\ o.step = "undo" \/ (o.step = "unmanifest" /\ d = o.at)
      /\ op' = [op EXCEPT ![p] = n] /\ UNCHANGED <<disk, lock>>
      /\ faults < MaxFaults /\ faults' = faults + 1
  BY <1>1, <1>3 DEF UndoFails
<1>5. o.todo \ {d} \in SUBSET Digests /\ o.fresh \ {d} \in SUBSET Digests BY <1>2, Fields
<1>6. n \in OpState /\ n.step = "undo" /\ n.kind = o.kind /\ n.want = o.want
      /\ n.fresh = o.fresh \ {d} /\ n.todo = o.todo \ {d}
  BY <1>2, <1>3, <1>5 DEF OpState, Steps
<1>7. o.step \in Working /\ n.step \in Working BY <1>4, <1>6 DEF Working, Steps
<1>8. Asked(n) BY <1>2, <1>6, <1>7 DEF Batch, Asked
<1>9. (o.fresh \ {d}) \cap (entry \cup manifest) \subseteq o.todo \ {d}
  BY <1>2, <1>4 DEF Batch, Ending
<1>10. Batch(n)'
  BY <1>4, <1>6, <1>8, <1>9 DEF Batch, Staging, MakingRoom, Publishing, Ending, disk
<1>11. DiskOK' BY <1>2, <1>4 DEF DiskOK, disk
<1>12. faults' \in 0 .. MaxFaults BY <1>2, <1>4, CapsAssumption
<1>13. QED BY <1>1, <1>2, <1>4, <1>6, <1>7, <1>10, <1>11, <1>12, WorkStep

LEMMA UndoneAllStep ==
  ASSUME CacheInv, NEW p \in Procs, UndoneAll(p)
  PROVE  CacheInv'
<1>1. /\ op[p].step = "undo" /\ op[p].todo = {} /\ Fail(p)
      /\ UNCHANGED <<entry, manifest, older, purged, lock, faults>>
  BY DEF UndoneAll
<1>2. op[p].fresh \cap (entry \cup manifest) = {} BY <1>1, AtWork DEF Batch, Ending
<1>3. op[p].step \in Working BY <1>1 DEF Working, Steps
<1>4. QED BY <1>1, <1>2, <1>3, AtWork, FailStep

-----------------------------------------------------------------------------
(* Every step. *)
LEMMA CacheInitHolds == CacheInit => CacheInv
<1>1. SUFFICES ASSUME CacheInit PROVE CacheInv OBVIOUS
<1>2. \A p \in Procs : op[p] = Idle BY <1>1 DEF CacheInit
<1>3. Idle.step \notin Working BY IdleTyped DEF Working
<1>4. OrderOf({}, {}) BY DEF OrderOf
<1>5. CacheTypeOK
  <2>1. DiskOK BY <1>1, <1>4 DEF CacheInit, DiskOK
  <2>2. op \in [Procs -> OpState] BY <1>1, IdleTyped DEF CacheInit
  <2>3. faults \in 0 .. MaxFaults BY <1>1, CapsAssumption DEF CacheInit
  <2>4. QED BY <1>1, <2>1, <2>2, <2>3, TypeParts DEF CacheInit
<1>6. LockOK
  BY <1>1, <1>2, <1>3, IdleTyped, NoneAssumption DEF CacheInit, LockOK
<1>7. ReadersSeeWhole BY <1>2, IdleTyped DEF ReadersSeeWhole
<1>8. \A p \in Procs : Batch(op[p]) BY <1>2, <1>3, IdleTyped, OffWork
<1>9. QED BY <1>5, <1>6, <1>7, <1>8 DEF CacheInv

LEMMA WorkHolds ==
  ASSUME CacheInv, NEW p \in Procs, Work(p)
  PROVE  CacheInv'
<1>1. CASE LockExclusive(p) BY <1>1, LockExclusiveStep
<1>2. CASE \E d \in Digests : Stage(p, d) \/ Undo(p, d) \/ UndoFails(p, d)
  BY <1>2, StageStep, UndoStep, UndoFailsStep
<1>3. CASE StageFails(p) \/ RefuseIncomplete(p) BY <1>3, StageFailsStep
<1>4. CASE StagedAll(p) BY <1>4, StagedAllStep
<1>5. CASE RoomFound(p) BY <1>5, RoomFoundStep
<1>6. CASE RoomRefused(p) BY <1>6, RoomRefusedStep
<1>7. CASE Collected(p) BY <1>7, CollectedStep
<1>8. CASE Evict(p) BY <1>8, EvictStep
<1>9. CASE EvictManifest(p) BY <1>9, EvictManifestStep
<1>10. CASE EvictFails(p) BY <1>10, EvictFailsStep
<1>11. CASE PublishManifest(p) BY <1>11, PublishManifestStep
<1>12. CASE PublishFails(p) BY <1>12, PublishFailsStep
<1>13. CASE PublishedAll(p) BY <1>13, PublishedAllStep
<1>14. CASE Touch(p) BY <1>14, TouchStep
<1>15. CASE UndoManifest(p) BY <1>15, UndoManifestStep
<1>16. CASE UndoneAll(p) BY <1>16, UndoneAllStep
<1>17. QED
  BY <1>1, <1>2, <1>3, <1>4, <1>5, <1>6, <1>7, <1>8, <1>9, <1>10, <1>11, <1>12, <1>13,
     <1>14, <1>15, <1>16
     DEF Work

LEMMA CallHolds ==
  ASSUME CacheInv, NEW p \in Procs, Call(p)
  PROVE  CacheInv'
<1>1. {} \in SUBSET Digests /\ \A d \in Digests : {d} \in SUBSET Digests OBVIOUS
<1>2. "save" \in Kinds /\ "snapshot" \in Kinds /\ "collect" \in Kinds /\ "read" \in Kinds
  BY DEF Kinds
<1>3. Caps \subseteq Nat /\ 0 \in Nat BY CapsAssumption
<1>4. CASE \E cap \in Caps, want \in SUBSET Digests \ {{}} : Ask(p, "save", want, cap)
  <2>1. PICK cap \in Nat, want \in SUBSET Digests : Ask(p, "save", want, cap) BY <1>3, <1>4
  <2>2. QED BY <1>2, <2>1, AskStep
<1>5. CASE \E cap \in Caps, d \in Digests : Ask(p, "snapshot", {d}, cap)
  <2>1. PICK cap \in Nat, d \in Digests : Ask(p, "snapshot", {d}, cap) BY <1>3, <1>5
  <2>2. \A a, b \in {d} : a = b OBVIOUS
  <2>3. QED BY <1>1, <1>2, <2>1, <2>2, AskStep
<1>6. CASE \E cap \in Caps : Ask(p, "collect", {}, cap)
  <2>1. PICK cap \in Nat : Ask(p, "collect", {}, cap) BY <1>3, <1>6
  <2>2. QED BY <1>1, <1>2, <2>1, AskStep
<1>7. CASE \E d \in Digests : Ask(p, "read", {d}, 0)
  <2>1. PICK d \in Digests : Ask(p, "read", {d}, 0) BY <1>7
  <2>2. QED BY <1>1, <1>2, <1>3, <2>1, AskStep
<1>8. QED BY <1>4, <1>5, <1>6, <1>7 DEF Call

(* Nothing happens in the cache. *)
LEMMA CacheRests ==
  ASSUME CacheInv, UNCHANGED <<disk, lock, op>>, faults' \in 0 .. MaxFaults
  PROVE  CacheInv'
<1>1. UNCHANGED <<entry, manifest, older, staged, purged, writer, readers, op>>
  BY DEF disk, lock
<1>2. CacheTypeOK' BY <1>1 DEF CacheInv, CacheTypeOK
<1>3. LockOK' BY <1>1 DEF CacheInv, LockOK
<1>4. ReadersSeeWhole' BY <1>1 DEF CacheInv, ReadersSeeWhole, Valid
<1>5. ASSUME NEW p \in Procs PROVE Batch(op[p])'
  <2>1. PICK o : o = op[p] OBVIOUS
  <2>2. Batch(o) BY <2>1 DEF CacheInv
  <2>3. Publishing(o)' BY <1>1, <2>2 DEF Batch, Publishing, Valid, Sum
  <2>4. Batch(o)'
    BY <1>1, <2>2, <2>3 DEF Batch, Asked, Staging, Before, MakingRoom, Ending, Valid
  <2>5. QED BY <1>1, <2>1, <2>4
<1>6. QED BY <1>2, <1>3, <1>4, <1>5 DEF CacheInv

LEMMA CacheNextHolds == CacheInv /\ [CacheNext]_cacheVars => CacheInv'
<1>1. SUFFICES ASSUME CacheInv, [CacheNext]_cacheVars PROVE CacheInv' OBVIOUS
<1>2. CASE UNCHANGED cacheVars
  <2>1. faults' \in 0 .. MaxFaults BY <1>1, <1>2 DEF cacheVars, CacheInv, CacheTypeOK
  <2>2. QED BY <1>1, <1>2, <2>1, CacheRests DEF cacheVars
<1>3. CASE CacheNext
  <2>1. PICK p \in Procs : Call(p) \/ Unsafe(p) \/ Proceed(p) \/ Die(p) BY <1>3 DEF CacheNext
  <2>2. CASE Call(p) BY <1>1, <2>2, CallHolds
  <2>3. CASE Unsafe(p) BY <1>1, <2>3, UnsafeStep
  <2>4. CASE Die(p) BY <1>1, <2>4, DieStep
  <2>5. CASE Proceed(p)
    <3>1. CASE Work(p) BY <1>1, <3>1, WorkHolds
    <3>2. CASE LockShared(p) BY <1>1, <3>2, LockSharedStep
    <3>3. CASE EndRead(p) BY <1>1, <3>3, EndReadStep
    <3>4. CASE Close(p) BY <1>1, <3>4, CloseStep
    <3>5. CASE Leave(p) BY <1>1, <3>5, LeaveStep
    <3>6. CASE \E d \in Digests : PublishEntry(p, d) BY <1>1, <3>6, PublishEntryStep
    <3>7. CASE \E previous \in SUBSET Digests : Protect(p, previous)
      BY <1>1, <3>7, ProtectStep
    <3>8. QED BY <2>5, <3>1, <3>2, <3>3, <3>4, <3>5, <3>6, <3>7 DEF Proceed
  <2>6. QED BY <2>1, <2>2, <2>3, <2>4, <2>5
<1>4. QED BY <1>1, <1>2, <1>3

(* What the invariant says of a batch that ends, and of one that is stored. *)
LEMMA InvMeans == CacheInv => CacheTypeOK /\ ReadersSeeWhole /\ AllOrNothing /\ RoomIsEnough
<1>1. SUFFICES ASSUME CacheInv PROVE AllOrNothing /\ RoomIsEnough BY DEF CacheInv
<1>2. AllOrNothing
  <2>1. \A p \in Procs : Ending(op[p]) BY <1>1, AtWork DEF Batch
  <2>2. QED BY <2>1 DEF Ending, AllOrNothing
<1>3. ASSUME NEW p \in Procs, op[p].step = "touch", op[p].kind = "save"
      PROVE  Usage <= op[p].cap
  <2>1. purged = {} /\ Sum(entry) + Sum(staged) <= op[p].cap
    BY <1>1, <1>3, AtWork DEF Batch, Publishing
  <2>2. Sum(entry) \in Nat /\ Sum(staged) \in Nat
    BY <1>1, <1>3, AtWork, SumIsNat DEF DiskOK
  <2>3. QED BY <2>1, <2>2, SumOfNone DEF Usage
<1>4. QED BY <1>2, <1>3 DEF RoomIsEnough

-----------------------------------------------------------------------------
(* The cache is always in a state its invariant describes: whoever works holds *)
(* the lock alone, and staging, quarantine and entries are those of its step.  *)
THEOREM CacheInvariant == CacheSpec => []CacheInv
<1>1. QED BY CacheInitHolds, CacheNextHolds, PTL DEF CacheSpec

(* Names, order of use, lock and operations stay what the code takes them for. *)
THEOREM CacheTyped == CacheSpec => []CacheTypeOK
BY CacheInvariant, InvMeans, PTL

(* An entry that a reader has validated stays whole until its copy ends.       *)
THEOREM ReadersProtected == CacheSpec => []ReadersSeeWhole
BY CacheInvariant, InvMeans, PTL

(* A batch that succeeds leaves all it wanted whole, one that fails nothing    *)
(* new, whoever crashed before and whatever was evicted for it.                *)
THEOREM BatchesAtomic == CacheSpec => []AllOrNothing
BY CacheInvariant, InvMeans, PTL

(* _make_room leaves enough room: a stored batch never exceeds its limit.      *)
THEOREM RoomMade == CacheSpec => []RoomIsEnough
BY CacheInvariant, InvMeans, PTL

=============================================================================
