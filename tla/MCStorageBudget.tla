--------------------------- MODULE MCStorageBudget ---------------------------
(* Instances of StorageBudget: two contexts on one filesystem, demanding one  *)
(* and two blocks, and a third on another filesystem.                         *)
EXTENDS StorageBudget, TLC

CONSTANTS p1, p2, p3, d1, d2

MCDevice == [p \in Procs |-> IF p = p3 THEN d2 ELSE d1]
MCBlocks == 1 .. 4
MCDemand == [p \in Procs |-> IF p = p1 THEN {1} ELSE IF p = p2 THEN {2, 3} ELSE {4}]
MCCapacity == [d \in Devices |-> IF d = d1 THEN 4 ELSE 2]
MCSymmetry == Permutations(Tokens)
=============================================================================
