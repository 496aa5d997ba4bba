---------------------------- MODULE MCVerification ----------------------------
(* Instances of Verification: two commands; a tree whose checks pass, and   *)
(* one on which the second passes with other tools only.                        *)
EXTENDS Verification

good == <<"ok", "ok">>
broken == <<"ok", "bad">>

MCOutcomes == {[t \in Tools |-> good], [t \in Tools |-> IF t = 0 THEN broken ELSE good]}

(* Four moments are two executions that change the tree and a disturbance, or *)
(* one, and a file that comes and goes.                                       *)
MCBound == Len(trees) <= 4
=============================================================================
