---------------------------- MODULE MCWorkerSlots ----------------------------
(* Instances of WorkerSlots: two callers that wait, one of them with a        *)
(* deadline and a lower limit, and one that does not wait.                    *)
EXTENDS WorkerSlots, TLC

CONSTANTS p1, p2, p3

MCLimit == [p \in Procs |-> IF p = p2 THEN 1 ELSE MaxSlots]
MCSymmetry == Permutations(Tickets)
=============================================================================
