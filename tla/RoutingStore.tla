----------------------------- MODULE RoutingStore -----------------------------
(* The routing database of a project (routing.py, routing_store.py,             *)
(* routing_admission.py): the recorded decisions, the observed outcomes and the *)
(* pause of a family of tasks after failures.  Each operation is one            *)
(* transaction under routing.lock: it is committed whole or not at all.         *)
EXTENDS Integers, Sequences, FiniteSets, FiniteSetsExt

CONSTANTS
    Owners,       \* deliverables whose outcomes are observed: one case each
    Requested,    \* executor the plan asks for: "auto", "worker", "coordinator"
    Family,       \* family of tasks (FAMILY_FIELDS) a deliverable belongs to
    ReworkLimit,  \* REWORK_LIMIT
    Window,       \* failure_cooldown_seconds
    MaxTime,      \* bound on the clock
    Lost          \* a decision identity that no database holds

ASSUME StoreAssumption ==
    /\ Requested \in [Owners -> {"auto", "worker", "coordinator"}]
    /\ DOMAIN Family = Owners
    /\ ReworkLimit \in Nat /\ Window \in Nat /\ MaxTime \in Nat

(* Identities of decisions: of the n-th definition or of the n-th start. *)
Keys == [owner : Owners, of : {"plan", "start"}, n : Nat]

ASSUME LostAssumption == Lost \notin Keys

VARIABLES
    now,        \* time.time(), the wall clock
    decisions,  \* table decisions, each with its binding or its start as key
    observed,   \* table observations
    pause       \* cooldown_until of each family

storeVars == <<now, decisions, observed, pause>>

Families == {Family[o] : o \in Owners}
Labelled == {"accepted", "rework", "rejected"}
Outcomes == Labelled \cup {"infrastructure", "cancelled", "unknown"}

(* "major" stands for the grades that count as a failure, "met" for the other  *)
(* scored ones and "neutral" for an assessment that is not scored.             *)
Grades == {"none", "met", "major", "neutral"}

-----------------------------------------------------------------------------
(* Decisions. *)

(* The decision of a plan is bound to task, deliverable and definition; the one *)
(* a manual start asks for is not bound.                                        *)
PlanKey(o, definition) == [owner |-> o, of |-> "plan", n |-> definition]
StartKey(o, attempt) == [owner |-> o, of |-> "start", n |-> attempt]

Known(key) == \E d \in decisions : d.key = key
Recorded(key) == CHOOSE d \in decisions : d.key = key

Cooling(o) == pause[Family[o]] > now

(* predict: what else speaks against a worker (eligibility, settings, measured *)
(* economics, learned quality) is in veto.  A bound decision is returned again. *)
(* What a decision advises is looked at for automatic work only.                *)
Predict(key, veto) ==
    IF Known(key) THEN Recorded(key)
    ELSE [key |-> key,
          action |-> IF Requested[key.owner] = "auto" /\ (veto \/ Cooling(key.owner))
                     THEN "coordinator" ELSE "worker"]

(* validate_start of a new automatic start. *)
MayStart(key) ==
    Known(key) /\ Recorded(key).action = "worker" /\ ~Cooling(key.owner)

-----------------------------------------------------------------------------
(* Observations. *)

CaseOf(o, rows) == {r \in rows : r.owner = o /\ r.outcome \in Labelled}

(* case_substantive: the lowest scored grade decides; without any assessment a *)
(* rework or a rejection counts.                                               *)
Substantive(o, rows) ==
    LET given == {r.grade : r \in CaseOf(o, rows)} \ {"none"}
    IN IF given \cap {"met", "major"} # {} THEN "major" \in given
       ELSE given = {} /\ \E r \in CaseOf(o, rows) : r.outcome # "accepted"

(* The cases of the family whose rework lies in the window that ends with r. *)
ReworkCases(r, rows) ==
    {o \in Owners :
        /\ Family[o] = Family[r.owner] /\ Substantive(o, rows)
        /\ \E q \in CaseOf(o, rows) : /\ q.by = "worker" /\ q.outcome = "rework"
                                      /\ q.at \in (r.at - Window) .. r.at}

(* record_outcome: is the family paused because of r? *)
Pauses(r, rows) ==
    /\ r.by = "worker" /\ r.outcome \in {"rework", "rejected"}
    /\ Substantive(r.owner, rows)
    /\ r.outcome = "rejected" \/ Cardinality(ReworkCases(r, rows)) >= ReworkLimit

SameId(q, r) == q.owner = r.owner /\ q.index = r.index

(* observe: what the database takes.  Outcomes of a case come in order of time, *)
(* and a decision belongs to one case.  That none precedes its decision follows *)
(* from a clock that is never set back.  Mistake: two of one moment are refused. *)
InOrderStrict(r) == \A q \in observed : q.owner = r.owner /\ q.by = r.by => q.at < r.at
InOrder(r) == \A q \in observed : q.owner = r.owner /\ q.by = r.by => q.at <= r.at
Accepts(r) ==
    IF \E q \in observed : SameId(q, r) THEN r \in observed
    ELSE /\ Known(r.decision)
         /\ \A q \in observed : q.decision = r.decision => q.owner = r.owner
         /\ InOrder(r)

(* _start_cooldown.  Mistake: the last observation decides. *)
LaterOnly(f, until) == [pause EXCEPT ![f] = until]
Later(f, until) == [pause EXCEPT ![f] = Max({@, until})]

Observe(r) ==
    /\ Accepts(r)
    /\ observed' = observed \cup {r}
    /\ pause' = IF r \notin observed /\ Pauses(r, observed')
                THEN Later(Family[r.owner], r.at + Window) ELSE pause

-----------------------------------------------------------------------------
(* The wall clock of the machine; it is never set back. *)

Tick == now < MaxTime /\ now' = now + 1 /\ UNCHANGED <<decisions, observed, pause>>

StoreInit ==
    /\ now = 0
    /\ decisions = {} /\ observed = {}
    /\ pause = [f \in Families |-> 0]
=============================================================================
