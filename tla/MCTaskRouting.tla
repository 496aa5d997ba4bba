---------------------------- MODULE MCTaskRouting ----------------------------
(* Instances of TaskRouting: an automatic assignment and a manual one of the   *)
(* same family in one task.                                                    *)
EXTENDS TaskRouting

CONSTANTS a, m, t1, f

OneTask == [o \in Owners |-> t1]
OneFamily == [o \in Owners |-> f]
MCAttempts == [o \in Owners |-> IF o = a THEN 2 ELSE 1]
MCDefinitions == [o \in Owners |-> IF o = a THEN {1, 2} ELSE {1}]
MCRequested == [o \in Owners |-> IF o = a THEN "auto" ELSE "worker"]
=============================================================================
