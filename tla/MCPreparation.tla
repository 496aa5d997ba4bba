---------------------------- MODULE MCPreparation ----------------------------
(* Instances of Preparation: two sources, the one twice as large as the other. *)
EXTENDS Preparation, TLC

CONSTANTS x, z, v, w

MCSize == [d \in Digests |-> IF d = z THEN 2 ELSE 1]
MCWants == {{x}, {z}}
MCSymmetry == Permutations(Procs)

(* When the last call has ended, only the host can still change.  Of crashes,   *)
(* refused deletions and changes of the host there are two in all.             *)
MCBound ==
    /\ calls < MaxCalls \/ \E p \in Procs : prep[p].step # "idle" \/ op[p].step # "idle"
    /\ faults + events <= 2
=============================================================================
