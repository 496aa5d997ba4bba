--------------------------- MODULE MCJobLifecycle ---------------------------
(* Two processes of two coordinators around one job.                          *)
EXTENDS JobLifecycle, TLC

CONSTANTS p1, p2, c1, c2
MCProcs == {p1, p2}
MCCoordinators == {c1, c2}
MCBoss == p1 :> c1 @@ p2 :> c2
MCSymmetry == {f \in Permutations({p1, p2, c1, c2}) :
                  f[p1] \in {p1, p2} /\ f[c1] \in {c1, c2} /\ (f[p1] = p1 <=> f[c1] = c1)}

(* Bound: once the last attempt is taken no coordinator has gone.  A takeover  *)
(* is followed through a first attempt, a second attempt among the living.     *)
MCBound == Known = MaxAttempts => alive = Coordinators
=============================================================================
