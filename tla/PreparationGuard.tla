--------------------------- MODULE PreparationGuard ---------------------------
(* The memory of failed preparations, preparation_guard.py: one small record   *)
(* per fingerprint of the conditions an attempt was made under.  Every access  *)
(* is one critical section of the directory's lock, and a record is renamed    *)
(* into place, so that each operation is one step.                             *)
EXTENDS FiniteSets, Naturals

CONSTANTS
    MaxRecords,  \* MAX_RECORDS
    Unknown      \* the fingerprint of conditions that could not be observed

ASSUME RecordsAssumption == MaxRecords \in Nat \ {0}

VARIABLE records  \* each [fp, category, by]: conditions, kind of failure, copy

GuardInit == records = {}

(* lookup: the record of exactly these conditions, if they are known. *)
Hits(fp) == {r \in records : r.fp = fp /\ fp # Unknown}

(* record_failure: the first failure of these conditions is kept, whatever     *)
(* follows; a full directory takes no new one.  Mistake: the last is kept.     *)
Record(fp, category, by) == [fp |-> fp, category |-> category, by |-> by]

RecordedLast(fp, category, by) ==
    IF fp = Unknown \/ (Cardinality(records) >= MaxRecords /\ Hits(fp) = {})
      THEN records
      ELSE (records \ Hits(fp)) \cup {Record(fp, category, by)}
Recorded(fp, category, by) ==
    IF fp = Unknown \/ Hits(fp) # {} \/ Cardinality(records) >= MaxRecords
      THEN records
      ELSE records \cup {Record(fp, category, by)}

RecordFailure(fp, category, by) == records' = Recorded(fp, category, by)

(* clear: a success removes the record of exactly its own conditions. *)
Clear(fp) == records' = records \ Hits(fp)
=============================================================================
