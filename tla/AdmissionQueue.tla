--------------------------- MODULE AdmissionQueue ---------------------------
(* What worker_slots.py promises to its callers, without files or locks: a    *)
(* counted resource handed out first come, first served.  A caller that       *)
(* waits stands in a line; one that does not wait is admitted only past an    *)
(* empty line.  A caller may leave the line, or give back its place, at any   *)
(* moment (a timeout, a refused validation, a crash).  The whole pool may be  *)
(* closed, once nobody is in line or inside.                                  *)
EXTENDS Naturals, FiniteSets

CONSTANTS
    Callers,    \* the callers of acquire
    Limit       \* the capacity each caller asks for

VARIABLES
    inside,     \* the callers that hold a slot
    line,       \* the callers that wait
    ahead,      \* for each waiting caller, those that were in line before it
    open        \* FALSE once the pool has been given up for another one

vars == <<inside, line, ahead, open>>

Init ==
    /\ inside = {}
    /\ line = {}
    /\ ahead = [c \in Callers |-> {}]
    /\ open = TRUE

Without(c) == [d \in Callers |-> IF d = c THEN {} ELSE ahead[d] \ {c}]

(* A caller takes the last place in line. *)
Join(c) ==
    /\ open
    /\ c \notin line \cup inside
    /\ line' = line \cup {c}
    /\ ahead' = [ahead EXCEPT ![c] = line]
    /\ UNCHANGED <<inside, open>>

(* The first in line, or a newcomer when there is no line, gets a slot while  *)
(* fewer than its limit are taken.                                            *)
Admit(c) ==
    /\ open
    /\ c \notin inside
    /\ Cardinality(inside) < Limit[c]
    /\ IF c \in line THEN ahead[c] = {} ELSE line = {}
    /\ inside' = inside \cup {c}
    /\ line' = line \ {c}
    /\ ahead' = Without(c)
    /\ UNCHANGED open

(* A waiting caller gives up. *)
Leave(c) ==
    /\ c \in line
    /\ line' = line \ {c}
    /\ ahead' = Without(c)
    /\ UNCHANGED <<inside, open>>

(* A caller gives its slot back. *)
Release(c) ==
    /\ c \in inside
    /\ inside' = inside \ {c}
    /\ UNCHANGED <<line, ahead, open>>

(* The pool is given up: nobody may be inside or in line. *)
Close ==
    /\ inside = {}
    /\ line = {}
    /\ open' = FALSE
    /\ UNCHANGED <<inside, line, ahead>>

Next ==
    \/ \E c \in Callers : Join(c) \/ Admit(c) \/ Leave(c) \/ Release(c)
    \/ Close

Spec == Init /\ [][Next]_vars
=============================================================================
