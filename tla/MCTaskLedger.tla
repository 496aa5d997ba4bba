---------------------------- MODULE MCTaskLedger ----------------------------
(* Instances of TaskLedger: a first task whose plans differ, and a second one  *)
(* that is never planned.                                                      *)
EXTENDS TaskLedger, TLC

CONSTANTS t1, t2, a, b, p, q

Nothing == [executor |-> "none", scope |-> {}]
Coordinator(path) == [executor |-> "coordinator", scope |-> {path}]
Native(path) == [executor |-> "native-agent", scope |-> {path}]
Worker(path) == [executor |-> "worker", scope |-> {path}]

(* A deliverable passes from the coordinator to native agents, beside a worker *)
(* that comes and goes; the second task stays a draft.                         *)
LedgerPlans ==
    t1 :> {a :> Coordinator(p) @@ b :> Nothing,
           a :> Coordinator(p) @@ b :> Worker(q),
           a :> Nothing @@ b :> Native(p), a :> Native(p) @@ b :> Nothing}
    @@ t2 :> {}

(* One task whose second plan drops the deliverable of the first. *)
RevisedPlans ==
    t1 :> {a :> Coordinator(p) @@ b :> Nothing, a :> Nothing @@ b :> Coordinator(q)}
    @@ t2 :> {}

Symmetric == Permutations(Hooks) \cup Permutations(Tools)
=============================================================================
