-------------------------- MODULE VerificationProofs --------------------------
(* For any number of checks, trees, calls and attempts: a success that is       *)
(* returned again is true, unless something changed unnoticed, and was not      *)
(* refuted, unless its revocation was cut off; an attempt succeeds by checks of *)
(* its own result, and every verification reaches its attempt once.             *)
(*                                                                              *)
(* CheckInv is about the one call of the checks and the retained successes, and *)
(* holds whoever calls; JobInv is about the job, the ledger and the copy.       *)
EXTENDS Verification, SequenceTheorems, FiniteSetTheorems, WellFoundedInduction, TLAPS

Results == {"ok", "bad", "environment"}
Keys == [tree : Nat, tools : Tools]
CallState == [step : Steps, attest : BOOLEAN, force : BOOLEAN, late : BOOLEAN,
              key : Keys, rows : Seq(Results), ev : Nat, reused : BOOLEAN,
              seen : SUBSET Nat, swaps : Nat, returns : Nat, looked : Nat]
EntryState == [key : Keys, ev : Nat, seen : SUBSET Nat, swaps : Nat, returns : Nat]
Moments == [id : Nat, does : Outcomes, base : Nat]

CheckTyped ==
    /\ trees \in Seq(Moments) /\ Len(trees) >= 1 /\ tools \in Tools
    /\ events \in 0 .. MaxEvents /\ faults \in 0 .. MaxFaults
    /\ runs \in 0 .. MaxRuns /\ intact \subseteq 1 .. runs
    /\ call \in CallState
    /\ entries \subseteq EntryState /\ IsFiniteSet(entries)
    /\ Cardinality(entries) <= MaxEntries
    /\ \A e, f \in entries : e.key = f.key => e = f

-----------------------------------------------------------------------------
(* The inductive invariant: the checks. *)

(* A tree has the number of the moment when it was first there.                *)
TreesOK ==
    \A m \in 1 .. Len(trees) :
       /\ trees[m].id \in 1 .. m /\ trees[m].base \in 0 .. m - 1
       /\ trees[trees[m].id].id = trees[m].id
       /\ trees[trees[m].id].does = trees[m].does

(* What was executed, if no earlier tree returned, was executed on the tree    *)
(* the identity names when that is there.                                      *)
SeenOK(c) ==
    /\ c.seen \subseteq 1 .. Len(trees)
    /\ c.key # Unattested /\ c.returns = 0 /\ c.key.tree = Tree.id =>
          \A m \in c.seen : trees[m].id = c.key.tree

(* How the tools changed since, and what the rows then say. *)
ToolsOK(c) ==
    c.key # Unattested =>
       /\ c.key.tree \in 1 .. Len(trees)
       /\ c.swaps = 0 => tools = c.key.tools
       /\ c.swaps = 1 => tools # c.key.tools
       /\ c.swaps = 0 /\ c.returns = 0 /\ c.key.tree = Tree.id /\ ~c.reused =>
             \A i \in 1 .. Len(c.rows) :
                c.rows[i] \in {trees[c.key.tree].does[c.key.tools][i], "environment"}

(* How far the call has come. *)
Early == {"identify", "lookup", "confirm", "again"}

(* The tree has been there since. *)
Since(moment, tree) ==
    \E m \in 1 .. Len(trees) : m >= moment /\ trees[m].id = tree

StepOK(c) ==
    /\ c.step # "none" => c.ev \in 1 .. runs
    /\ c.step \in {"none", "identify"} => c.key = Unattested
    /\ c.step \in Early \cup {"none"} => c.rows = <<>> /\ c.seen = {}
    /\ c.step \in {"lookup", "confirm", "again"} \/ c.reused => c.key # Unattested
    /\ c.reused => c.step = "done"
    /\ c.step = "confirm" => c.looked <= Len(trees)
    /\ c.step = "again" \/ c.reused => Since(c.looked, c.key.tree)
    /\ c.step = "execute" => Len(c.rows) < Checks
    /\ c.step \in {"settle", "done"} /\ ~c.reused => Ended(c.rows) /\ Len(c.rows) <= Checks

CallOK(c) == SeenOK(c) /\ ToolsOK(c) /\ StepOK(c)

(* A retained success is one. *)
EntryOK(e) ==
    /\ e.key # Unattested /\ e.key.tree \in 1 .. Len(trees)
    /\ e.seen \subseteq 1 .. Len(trees)
    /\ \/ Unnoticed(e)
       \/ /\ \A m \in e.seen : trees[m].id = e.key.tree
          /\ Good(trees[e.key.tree].does[e.key.tools])

(* One that was refuted is about to be revoked, or that was cut off.           *)
Revoking(key) == call.step = "settle" /\ Bad(call.rows) /\ key \in Refuted

RevokedOK == \A e \in entries : e.key \in refuted \ lost => Revoking(e.key)

CheckInv ==
    /\ CheckTyped /\ TreesOK /\ CallOK(call)
    /\ \A e \in entries : EntryOK(e)
    /\ RevokedOK
    /\ call.reused => \E e \in entries : e.key = call.key

-----------------------------------------------------------------------------
(* The inductive invariant: the job and its verifications. *)

Statuses == {"planned", "running", "succeeded", "failed"}
Terminal == {"succeeded", "failed"}
Stages == {"none", "baseline", "work", "post", "replay", "replayed", "publish",
           "published", "verify"}
Verified == [run : Nat, attempt : 1 .. MaxAttempts]

JobTyped ==
    /\ task \in [kind : {"idle", "job", "verify"}, stage : Stages, attest : BOOLEAN,
                 force : BOOLEAN, from : Nat, attempt : 0 .. MaxAttempts]
    /\ row \in [status : Statuses, attempt : 0 .. MaxAttempts]
    /\ ended \subseteq 1 .. MaxAttempts
    /\ ledger \in [1 .. MaxAttempts -> Seq(Nat)]
    /\ own \subseteq Verified /\ IsFiniteSet(own)
    /\ pending \in Seq(Verified) /\ Len(pending) <= 1

(* Who holds the copy's lock, and what the row says meanwhile. *)
StageOK ==
    /\ call.step # "none" => Checking
    /\ task.stage = "baseline" => row.attempt < MaxAttempts /\ row.status # "succeeded"
    /\ task.stage \in {"work", "post"} => row.status = "running"
    /\ row.status # "planned" => row.attempt >= 1
    /\ task.stage = "verify" =>
          /\ task.attempt = row.attempt /\ row.status \in Terminal /\ pending = <<>>
    /\ task.stage \in {"replayed", "published"} =>
          /\ pending # <<>>
          /\ pending[1].run \in ToSet(ledger[pending[1].attempt])

(* The checks of the result see no tree before it. *)
PostOK ==
    /\ task.from <= Len(trees)
    /\ task.stage = "post" =>
          /\ \A v \in call.seen : v >= task.from
          /\ call.key # Unattested => Since(task.from, call.key.tree)

(* Every verification has a number of its own, and the ledger has each once.   *)
OwnOK ==
    /\ \A v \in own : v.run \in 1 .. Cardinality(own)
    /\ \A v, w \in own : v.run = w.run => v = w

Distinct(s) == \A i, j \in 1 .. Len(s) : s[i] = s[j] => i = j

LedgerOK ==
    /\ \A a \in 1 .. MaxAttempts : \A i \in 1 .. Len(ledger[a]) :
          \E v \in own : v.run = ledger[a][i] /\ v.attempt = a
    /\ \A a \in 1 .. MaxAttempts : Distinct(ledger[a])

PendingOK ==
    /\ pending # <<>> => pending[1] \in own /\ Available(pending[1])
    /\ \A v \in own : \/ pending # <<>> /\ v = pending[1]
                      \/ v.run \in ToSet(ledger[v.attempt])

JobInv == JobTyped /\ StageOK /\ PostOK /\ OwnOK /\ LedgerOK /\ PendingOK

VerInv == CheckInv /\ JobInv

-----------------------------------------------------------------------------
(* The first state. *)

LEMMA NoCallOK == NoCall \in CallState /\ CallOK(NoCall)
  BY DEF NoCall, CallState, CallOK, SeenOK, ToolsOK, StepOK, Keys, Unattested, Tools,
         Steps, Early, Results

(* The first tree is the only one. *)
LEMMA InitTrees ==
  ASSUME CheckInit
  PROVE  /\ trees \in Seq(Moments) /\ Len(trees) = 1 /\ TreesOK
<1>1. PICK o \in Outcomes : trees = <<[id |-> 1, does |-> o, base |-> 0]>> BY DEF CheckInit
<1>2. PICK t : t = [id |-> 1, does |-> o, base |-> 0] OBVIOUS
<1>3. t \in Moments /\ t.id = 1 /\ t.base = 0 BY <1>2 DEF Moments
<1>4. trees = <<t>> BY <1>1, <1>2
<1>5. trees \in Seq(Moments) /\ Len(trees) = 1 /\ trees[1] = t BY <1>3, <1>4
<1> QED BY <1>3, <1>5 DEF TreesOK

LEMMA InitChecks == CheckInit => CheckInv
<1> SUFFICES ASSUME CheckInit PROVE CheckInv OBVIOUS
<1>1. IsFiniteSet(entries) /\ Cardinality(entries) = 0 BY FS_EmptySet DEF CheckInit
<1>2. call \in CallState /\ CallOK(call) /\ ~call.reused
  BY NoCallOK DEF CheckInit, NoCall
<1>3. CheckTyped
  BY <1>1, <1>2, InitTrees, EventsAssumption, EntriesAssumption
  DEF CheckTyped, CheckInit, Tools
<1>4. entries = {} BY DEF CheckInit
<1> QED BY <1>2, <1>3, <1>4, InitTrees DEF CheckInv, RevokedOK

LEMMA InitJob == Init => JobInv
<1> SUFFICES ASSUME Init PROVE JobInv OBVIOUS
<1>1. JobTyped
  BY FS_EmptySet, AttemptsAssumption DEF Init, JobTyped, Idle, Stages, Statuses, Verified
<1>2. StageOK BY DEF Init, CheckInit, StageOK, Idle, NoCall, Checking
<1>3. Len(trees) = 1 BY InitTrees DEF Init
<1>4. PostOK BY <1>3 DEF Init, PostOK, Idle
<1>5. OwnOK /\ LedgerOK /\ PendingOK
  BY DEF Init, OwnOK, LedgerOK, PendingOK, Distinct
<1> QED BY <1>1, <1>2, <1>4, <1>5 DEF JobInv

THEOREM InitVerification == Init => VerInv
  BY InitChecks, InitJob DEF Init, VerInv

-----------------------------------------------------------------------------
(* One step of the call. *)

(* A step that changes the call alone, and what is charged for it.             *)
LEMMA CallStep ==
  ASSUME CheckInv, NEW n \in CallState, call' = n,
         UNCHANGED <<world, runs, entries>>,
         intact' \subseteq 1 .. runs, faults' \in 0 .. MaxFaults,
         CallOK(n), n.reused => \E e \in entries : e.key = n.key, RevokedOK'
  PROVE  CheckInv'
<1>1. UNCHANGED <<trees, tools, events>> BY DEF world
<1>2. CallOK(call)'
  BY <1>1 DEF CallOK, SeenOK, ToolsOK, StepOK, Since, Tree
<1>3. CheckTyped' BY <1>1 DEF CheckInv, CheckTyped
<1>4. \A e \in entries : EntryOK(e)' BY <1>1 DEF CheckInv, EntryOK, Good, Unnoticed
<1>5. TreesOK' BY <1>1 DEF CheckInv, TreesOK
<1> QED BY <1>2, <1>3, <1>4, <1>5 DEF CheckInv

(* Nothing refuted is retained but while a failed call settles. *)
LEMMA NotSettling ==
  ASSUME CheckInv, UNCHANGED <<entries, failures>>, call.step # "settle"
  PROVE  RevokedOK'
  BY DEF CheckInv, RevokedOK, Revoking, failures

LEMMA StillSettling ==
  ASSUME CheckInv, UNCHANGED <<entries, failures>>,
         call'.step = call.step, call'.rows = call.rows, call'.key = call.key
  PROVE  RevokedOK'
<1>1. Refuted' = Refuted /\ Bad(call.rows)' = Bad(call.rows) BY DEF Refuted, Bad
<1> QED BY <1>1 DEF CheckInv, RevokedOK, Revoking, failures

LEMMA CallFacts ==
  ASSUME CheckInv
  PROVE  /\ call \in CallState /\ SeenOK(call) /\ ToolsOK(call) /\ StepOK(call)
         /\ trees \in Seq(Moments) /\ Len(trees) \in Nat \ {0} /\ tools \in Tools
         /\ runs \in Nat /\ intact \subseteq 1 .. runs /\ faults \in 0 .. MaxFaults
  BY LenProperties, EventsAssumption DEF CheckInv, CheckTyped, CallOK

LEMMA TreeFacts ==
  ASSUME CheckInv
  PROVE  /\ Tree = trees[Len(trees)] /\ Tree.id \in 1 .. Len(trees)
         /\ Tree.base \in 0 .. Len(trees) - 1
         /\ trees[Tree.id].id = Tree.id /\ trees[Tree.id].does = Tree.does
         /\ \A m \in 1 .. Len(trees) :
               /\ trees[m] \in Moments /\ trees[m].id \in 1 .. Len(trees)
               /\ trees[m].does \in [Tools -> [1 .. Checks -> {"ok", "bad"}]]
<1>1. Tree = trees[Len(trees)] BY DEF Tree, Last
<1>2. \A m \in 1 .. Len(trees) : trees[m] \in Moments BY CallFacts
<1>3. Len(trees) \in 1 .. Len(trees) BY CallFacts
<1>4. /\ Tree.id \in 1 .. Len(trees) /\ Tree.base \in 0 .. Len(trees) - 1
      /\ trees[Tree.id].id = Tree.id /\ trees[Tree.id].does = Tree.does
  BY <1>1, <1>3 DEF CheckInv, TreesOK
<1>5. ASSUME NEW m \in 1 .. Len(trees)
      PROVE  /\ trees[m].id \in 1 .. Len(trees)
             /\ trees[m].does \in [Tools -> [1 .. Checks -> {"ok", "bad"}]]
  <2>1. trees[m].id \in 1 .. m BY DEF CheckInv, TreesOK
  <2>2. trees[m].does \in Outcomes BY <1>2 DEF Moments
  <2> QED BY <2>1, <2>2, CallFacts, OutcomesAssumption
<1> QED BY <1>1, <1>2, <1>4, <1>5

LEMMA IdentityFacts ==
  ASSUME CheckInv, NEW key \in Identities
  PROVE  /\ key \in Keys
         /\ key # Unattested => key.tree = Tree.id /\ key.tools = tools
  BY CallFacts, TreeFacts DEF Identities, Now, Unattested, Keys, Tools

LEMMA ExpireChecks == CheckInv /\ Expire => CheckInv'
<1> SUFFICES ASSUME CheckInv, Expire PROVE CheckInv' OBVIOUS
<1>1. PICK n : n = [call EXCEPT !.late = TRUE] OBVIOUS
<1>2. n \in CallState BY <1>1, CallFacts DEF CallState
<1>3. /\ n.step = call.step /\ n.key = call.key /\ n.rows = call.rows /\ n.ev = call.ev
      /\ n.reused = call.reused /\ n.seen = call.seen /\ n.swaps = call.swaps
      /\ n.looked = call.looked /\ n.returns = call.returns
  BY <1>1, CallFacts DEF CallState
<1>4. CallOK(n) BY <1>3, CallFacts DEF CallOK, SeenOK, ToolsOK, StepOK
<1>5. n.reused => \E e \in entries : e.key = n.key BY <1>3 DEF CheckInv
<1>6. RevokedOK' BY <1>1, <1>3, StillSettling DEF Expire
<1> QED BY <1>1, <1>2, <1>4, <1>5, <1>6, CallFacts, CallStep DEF Expire

LEMMA IdentifyChecks == CheckInv /\ Identify => CheckInv'
<1> SUFFICES ASSUME CheckInv, Identify PROVE CheckInv' OBVIOUS
<1>1. PICK key \in Identities, step \in {"lookup", "execute"} :
        /\ call' = [call EXCEPT !.key = key, !.swaps = 0, !.returns = 0,
                          !.step = step]
        /\ step = "lookup" => key # Unattested
  BY DEF Identify
<1>2. PICK n : n = [call EXCEPT !.key = key, !.swaps = 0, !.returns = 0,
                          !.step = step] OBVIOUS
<1>3. n \in CallState BY <1>2, CallFacts, IdentityFacts DEF CallState, Steps
<1>4. /\ n.step = step /\ n.key = key /\ n.swaps = 0 /\ n.returns = 0 /\ n.rows = call.rows
      /\ n.ev = call.ev /\ n.reused = call.reused /\ n.seen = call.seen
  BY <1>2, CallFacts DEF CallState
<1>5. call.rows = <<>> /\ call.seen = {} /\ ~call.reused /\ call.ev \in 1 .. runs
  BY CallFacts DEF Identify, StepOK, Early
<1>6. SeenOK(n) BY <1>4, <1>5, CallFacts DEF SeenOK
<1>7. ToolsOK(n) BY <1>4, <1>5, CallFacts, TreeFacts, IdentityFacts DEF ToolsOK
<1>8. StepOK(n) BY <1>1, <1>4, <1>5, OutcomesAssumption DEF StepOK, Early
<1>9. RevokedOK' BY NotSettling DEF Identify
<1> QED BY <1>1, <1>2, <1>3, <1>4, <1>5, <1>6, <1>7, <1>8, <1>9, CallFacts, CallStep
        DEF Identify, CallOK

(* A call that looks at a retained success has executed nothing yet.           *)
LEMMA GoOn ==
  ASSUME CheckInv, call.step \in {"lookup", "confirm", "again"},
         NEW n \in CallState, NEW step \in {"confirm", "again", "execute"},
         NEW looked \in Nat,
         n = [call EXCEPT !.step = step, !.looked = looked], call' = n,
         step = "confirm" => looked <= Len(trees),
         step = "again" => Since(looked, call.key.tree),
         UNCHANGED <<world, intact, runs, entries, failures, faults>>
  PROVE  CheckInv'
<1>1. /\ n.step = step /\ n.key = call.key /\ n.swaps = call.swaps /\ n.rows = call.rows
      /\ n.ev = call.ev /\ n.reused = call.reused /\ n.seen = call.seen
      /\ n.looked = looked /\ n.returns = call.returns
  BY CallFacts DEF CallState
<1>2. /\ call.rows = <<>> /\ call.seen = {} /\ ~call.reused /\ call.ev \in 1 .. runs
      /\ call.key # Unattested
  BY CallFacts DEF StepOK, Early
<1>3. SeenOK(n) BY <1>1, <1>2, CallFacts DEF SeenOK
<1>4. ToolsOK(n) BY <1>1, <1>2, CallFacts DEF ToolsOK
<1>5. StepOK(n) BY <1>1, <1>2, OutcomesAssumption DEF StepOK, Early
<1>6. RevokedOK' BY NotSettling
<1> QED BY <1>1, <1>2, <1>3, <1>4, <1>5, <1>6, CallFacts, CallStep DEF CallOK

LEMMA LookupChecks == CheckInv /\ Lookup => CheckInv'
<1> SUFFICES ASSUME CheckInv, Lookup PROVE CheckInv' OBVIOUS
<1>1. PICK looked \in Nat, step \in {"confirm", "execute"} :
        /\ call' = [call EXCEPT !.step = step, !.looked = looked]
        /\ step = "confirm" => looked = Len(trees)
  <2>1. CASE call' = [call EXCEPT !.step = "confirm", !.looked = Len(trees)]
    BY <2>1, CallFacts
  <2>2. CASE Go("execute")
    <3>1. call' = [call EXCEPT !.step = "execute", !.looked = call.looked]
      BY <2>2, CallFacts DEF Go, CallState
    <3> QED BY <3>1, CallFacts DEF CallState
  <2> QED BY <2>1, <2>2, Zenon DEF Lookup
<1>2. PICK n : n = [call EXCEPT !.step = step, !.looked = looked] OBVIOUS
<1>3. n \in CallState BY <1>2, CallFacts DEF CallState, Steps
<1>4. call.step = "lookup" /\ UNCHANGED <<world, intact, runs, entries, failures, faults>>
  BY DEF Lookup
<1>5. step = "confirm" => looked <= Len(trees) BY <1>1, CallFacts
<1>6. step # "again" BY <1>1
<1> QED BY <1>1, <1>2, <1>3, <1>4, <1>5, <1>6, GoOn

LEMMA ConfirmChecks == CheckInv /\ Confirm => CheckInv'
<1> SUFFICES ASSUME CheckInv, Confirm PROVE CheckInv' OBVIOUS
<1>1. PICK same \in Unchanged, step \in {"again", "execute"} :
        Go(step) /\ (step = "again" => same)
  BY DEF Confirm
<1>2. step = "again" => Since(call.looked, call.key.tree)
  <2>1. call.key # Unattested /\ call.looked <= Len(trees)
    BY CallFacts DEF Confirm, StepOK
  <2>2. step = "again" => call.key.tree = trees[Len(trees)].id
    BY <1>1, <2>1, IdentityFacts, TreeFacts DEF Unchanged
  <2> QED BY <2>1, <2>2, CallFacts DEF Since
<1>3. call' = [call EXCEPT !.step = step, !.looked = call.looked]
  BY <1>1, CallFacts DEF Go, CallState
<1>4. PICK n : n = [call EXCEPT !.step = step, !.looked = call.looked] OBVIOUS
<1>5. n \in CallState /\ call.looked \in Nat BY <1>4, CallFacts DEF CallState, Steps
<1> QED BY <1>2, <1>3, <1>4, <1>5, GoOn DEF Confirm

LEMMA HitChecks == CheckInv /\ Hit => CheckInv'
<1> SUFFICES ASSUME CheckInv, Hit PROVE CheckInv' OBVIOUS
<1>1. CASE Go("execute")
  <2>1. call' = [call EXCEPT !.step = "execute", !.looked = call.looked]
    BY <1>1, CallFacts DEF Go, CallState
  <2>2. PICK n : n = [call EXCEPT !.step = "execute", !.looked = call.looked] OBVIOUS
  <2>3. n \in CallState /\ call.looked \in Nat BY <2>2, CallFacts DEF CallState, Steps
  <2> QED BY <2>1, <2>2, <2>3, GoOn DEF Hit
<1>2. CASE \E e \in Found :
              /\ e.ev \in intact /\ ~call.late
              /\ call' = [call EXCEPT !.step = "done", !.reused = TRUE, !.ev = e.ev,
                                      !.rows = [i \in 1 .. Checks |-> "ok"]]
  <2>1. PICK e \in Found :
              /\ e.ev \in intact
              /\ call' = [call EXCEPT !.step = "done", !.reused = TRUE, !.ev = e.ev,
                                      !.rows = [i \in 1 .. Checks |-> "ok"]]
    BY <1>2
  <2>2. PICK rows : rows = [i \in 1 .. Checks |-> "ok"] OBVIOUS
  <2>3. rows \in Seq(Results) BY <2>2, OutcomesAssumption DEF Results
  <2>4. PICK n : n = [call EXCEPT !.step = "done", !.reused = TRUE, !.ev = e.ev,
                                  !.rows = rows]
    OBVIOUS
  <2>5. e.ev \in 1 .. runs /\ e \in entries /\ e.key = call.key
    BY <2>1, CallFacts DEF Found
  <2>6. n \in CallState
    <3>1. call \in CallState /\ e.ev \in Nat BY <2>5, CallFacts
    <3> QED BY <2>3, <2>4, <3>1 DEF CallState, Steps
  <2>7. /\ n.step = "done" /\ n.key = call.key /\ n.swaps = call.swaps /\ n.rows = rows
        /\ n.ev = e.ev /\ n.reused /\ n.seen = call.seen /\ n.looked = call.looked
        /\ n.returns = call.returns
    BY <2>4, CallFacts DEF CallState
  <2>8. call.key # Unattested /\ Since(call.looked, call.key.tree)
    BY CallFacts DEF Hit, StepOK
  <2>9. SeenOK(n) BY <2>7, CallFacts DEF SeenOK
  <2>10. ToolsOK(n) BY <2>7, CallFacts DEF ToolsOK
  <2>11. StepOK(n) BY <2>5, <2>7, <2>8 DEF StepOK, Early
  <2>12. call' = n /\ UNCHANGED <<world, intact, runs, entries, failures, faults>>
    BY <2>1, <2>2, <2>4 DEF Hit
  <2>13. n.reused => \E f \in entries : f.key = n.key BY <2>5, <2>7
  <2>14. RevokedOK' BY NotSettling DEF Hit
  <2> QED BY <2>6, <2>9, <2>10, <2>11, <2>12, <2>13, <2>14, CallFacts, CallStep DEF CallOK
<1> QED BY <1>1, <1>2, Zenon DEF Hit

-----------------------------------------------------------------------------
(* Checks are executed. *)

(* One more row, of the tree that is there.                                    *)
LEMMA RanKeeps ==
  ASSUME CheckInv, NEW result \in Results, Ran(result),
         call.step = "execute",
         result \in {Tree.does[tools][Len(call.rows) + 1], "environment"},
         UNCHANGED <<world, runs, entries>>,
         intact' \subseteq 1 .. runs, faults' \in 0 .. MaxFaults
  PROVE  CheckInv'
<1>1. PICK rows : rows = Append(call.rows, result) OBVIOUS
<1>2. call.rows \in Seq(Results) /\ call.seen \in SUBSET Nat BY CallFacts DEF CallState
<1>3. /\ rows \in Seq(Results) /\ Len(rows) = Len(call.rows) + 1
      /\ Len(call.rows) \in Nat /\ rows # <<>>
      /\ \A i \in 1 .. Len(rows) :
            rows[i] = IF i <= Len(call.rows) THEN call.rows[i] ELSE result
  BY <1>1, <1>2
<1>4. PICK step \in {"execute", "settle"} :
        /\ call' = [call EXCEPT !.rows = rows, !.seen = call.seen \cup {Len(trees)},
                                !.step = step]
        /\ step = "settle" <=> Ended(rows)
  <2>1. CASE Ended(rows)
    <3>1. call' = [call EXCEPT !.rows = rows, !.seen = call.seen \cup {Len(trees)},
                                !.step = "settle"]
      BY <1>1, <2>1, CallFacts DEF Ran, CallState
    <3> QED BY <2>1, <3>1
  <2>2. CASE ~Ended(rows)
    <3>1. call' = [call EXCEPT !.rows = rows, !.seen = call.seen \cup {Len(trees)},
                                !.step = "execute"]
      BY <1>1, <2>2, CallFacts DEF Ran, CallState
    <3> QED BY <2>2, <3>1
  <2> QED BY <2>1, <2>2
<1>5. PICK n : n = [call EXCEPT !.rows = rows, !.seen = call.seen \cup {Len(trees)},
                                !.step = step]
  OBVIOUS
<1>6. n \in CallState BY <1>2, <1>3, <1>5, CallFacts DEF CallState, Steps
<1>7. /\ n.step = step /\ n.key = call.key /\ n.swaps = call.swaps /\ n.rows = rows
      /\ n.ev = call.ev /\ n.reused = call.reused /\ n.seen = call.seen \cup {Len(trees)}
      /\ n.returns = call.returns
  BY <1>5, CallFacts DEF CallState
<1>8. ~call.reused /\ call.ev \in 1 .. runs /\ Len(call.rows) < Checks
  BY CallFacts DEF StepOK
<1>9. SeenOK(n)
  <2>1. call.seen \cup {Len(trees)} \subseteq 1 .. Len(trees) BY CallFacts DEF SeenOK
  <2>2. trees[Len(trees)].id = Tree.id BY TreeFacts
  <2> QED BY <1>7, <2>1, <2>2, CallFacts DEF SeenOK
<1>10. ToolsOK(n)
  <2> SUFFICES ASSUME n.key # Unattested, n.swaps = 0, n.returns = 0, n.key.tree = Tree.id,
                      NEW i \in 1 .. Len(rows)
               PROVE  rows[i] \in {trees[n.key.tree].does[n.key.tools][i], "environment"}
    BY <1>7, CallFacts DEF ToolsOK
  <2>1. /\ tools = call.key.tools /\ call.key.tree = Tree.id
        /\ trees[call.key.tree].does = Tree.does
        /\ \A j \in 1 .. Len(call.rows) :
              call.rows[j] \in {trees[call.key.tree].does[call.key.tools][j], "environment"}
    BY <1>7, <1>8, CallFacts, TreeFacts DEF ToolsOK
  <2>2. i <= Len(call.rows) \/ i = Len(call.rows) + 1 BY <1>3
  <2>3. CASE i <= Len(call.rows)
    <3>1. i \in 1 .. Len(call.rows) /\ rows[i] = call.rows[i] BY <1>3, <2>3
    <3> QED BY <1>7, <2>1, <3>1
  <2>4. CASE i = Len(call.rows) + 1
    <3>1. rows[i] = result BY <1>3, <2>4
    <3> QED BY <1>7, <2>1, <2>4, <3>1
  <2> QED BY <2>2, <2>3, <2>4
<1>11. StepOK(n)
  BY <1>3, <1>4, <1>7, <1>8, OutcomesAssumption DEF StepOK, Early, Ended
<1>12. RevokedOK'
  <2>1. \A e \in entries : e.key \notin refuted \ lost
    BY DEF CheckInv, RevokedOK, Revoking
  <2>2. CASE result = "ok"
    BY <2>1, <2>2 DEF Ran, RevokedOK, failures
  <2>3. CASE result # "ok"
    <3>1. refuted' = refuted \cup Refuted /\ lost' = lost \ Refuted BY <2>3 DEF Ran
    <3>2. Last(rows) = result /\ Len(rows) \in DOMAIN rows BY <1>3 DEF Last
    <3>3. Ended(rows) /\ Bad(rows) BY <1>3, <2>3, <3>2 DEF Ended, Bad, Last
    <3>4. call'.step = "settle" /\ call'.rows = rows /\ call'.key = call.key
      BY <1>4, <1>5, <1>7, <3>3
    <3>5. Refuted' = Refuted BY <3>4 DEF Refuted
    <3>6. Bad(call.rows)' BY <3>3, <3>4 DEF Bad
    <3> QED BY <2>1, <3>1, <3>4, <3>5, <3>6 DEF RevokedOK, Revoking
  <2> QED BY <2>2, <2>3
<1> QED BY <1>4, <1>5, <1>6, <1>7, <1>8, <1>9, <1>10, <1>11, <1>12, CallStep DEF CallOK

LEMMA ExecuteChecks == CheckInv /\ Execute => CheckInv'
<1> SUFFICES ASSUME CheckInv, Execute PROVE CheckInv' OBVIOUS
<1>1. Len(call.rows) + 1 \in 1 .. Checks
  BY CallFacts, OutcomesAssumption DEF Execute, StepOK, CallState
<1>2. Tree.does \in [Tools -> [1 .. Checks -> {"ok", "bad"}]]
  BY CallFacts, TreeFacts
<1>3. Tree.does[tools][Len(call.rows) + 1] \in Results
  BY <1>1, <1>2, CallFacts DEF Results
<1>4. intact' \subseteq 1 .. runs BY CallFacts DEF Execute, StepOK
<1> QED BY <1>3, <1>4, CallFacts, RanKeeps DEF Execute

LEMMA CannotRunChecks == CheckInv /\ CannotRun => CheckInv'
  BY CallFacts, EventsAssumption, RanKeeps DEF CannotRun, Results

LEMMA TooLateChecks == CheckInv /\ TooLate => CheckInv'
  BY CallFacts, RanKeeps DEF TooLate, Results

-----------------------------------------------------------------------------
(* What is retained. *)

LEMMA OldestExists ==
  ASSUME NEW S, S \subseteq EntryState, S # {}
  PROVE  Oldest(S) # {}
<1>1. PICK T : T = {e.ev : e \in S} OBVIOUS
<1>2. T \subseteq Nat /\ T # {} BY <1>1 DEF EntryState
<1>3. PICK R : R = OpToRel(<, Nat) OBVIOUS
<1>4. IsWellFoundedOn(R, Nat) BY <1>3, NatLessThanWellFounded
<1>5. PICK m \in T : \A k \in T : ~(<<k, m>> \in R) BY <1>2, <1>4, WFMin
<1>6. \A k \in T : ~(k < m) BY <1>2, <1>3, <1>5 DEF OpToRel
<1>7. m \in Nat /\ \A k \in T : k \in Nat BY <1>2, <1>5
<1>8. \A k \in T : m <= k BY <1>6, <1>7
<1>9. PICK e \in S : e.ev = m BY <1>1, <1>5
<1>10. \A f \in S : e.ev <= f.ev BY <1>1, <1>8, <1>9
<1> QED BY <1>9, <1>10 DEF Oldest

(* Fewer are retained than before. *)
LEMMA Fewer ==
  ASSUME CheckInv, NEW S \in SUBSET entries
  PROVE  /\ S \subseteq EntryState /\ IsFiniteSet(S) /\ Cardinality(S) <= MaxEntries
         /\ \A e, f \in S : e.key = f.key => e = f
<1>1. IsFiniteSet(entries) /\ Cardinality(entries) <= MaxEntries BY DEF CheckInv, CheckTyped
<1>2. IsFiniteSet(S) /\ Cardinality(S) <= Cardinality(entries) BY <1>1, FS_Subset
<1>3. Cardinality(S) \in Nat /\ Cardinality(entries) \in Nat
  BY <1>1, <1>2, FS_CardinalityType
<1>4. Cardinality(S) <= MaxEntries BY <1>1, <1>2, <1>3, EntriesAssumption
<1> QED BY <1>2, <1>4 DEF CheckInv, CheckTyped

LEMMA OthersOK == Others \subseteq entries /\ \A e \in Others : e.key # call.key
  BY DEF Others, Found

(* The newest are kept, one of each identity. *)
LEMMA PublishedOK ==
  ASSUME CheckInv
  PROVE  /\ Published \subseteq Others \cup {Entry}
         /\ Published \subseteq EntryState /\ IsFiniteSet(Published)
         /\ Cardinality(Published) <= MaxEntries
         /\ \A e, f \in Published : e.key = f.key => e = f
<1>1. PICK all : all = Others \cup {Entry} OBVIOUS
<1>2. /\ Others \subseteq EntryState /\ IsFiniteSet(Others)
      /\ Cardinality(Others) <= MaxEntries
      /\ \A e, f \in Others : e.key = f.key => e = f
  BY OthersOK, Fewer
<1>3. Entry \in EntryState /\ Entry.key = call.key
  BY CallFacts DEF Entry, EntryState, CallState
<1>4. all \subseteq EntryState /\ \A e, f \in all : e.key = f.key => e = f
  BY <1>1, <1>2, <1>3, OthersOK
<1>5. IsFiniteSet(all) /\ Cardinality(all) \in Nat /\ Cardinality(all) <= MaxEntries + 1
  <2>1. /\ IsFiniteSet(all)
        /\ Cardinality(all) = IF Entry \in Others THEN Cardinality(Others)
                              ELSE Cardinality(Others) + 1
    BY <1>1, <1>2, FS_AddElement
  <2>2. Cardinality(Others) \in Nat BY <1>2, FS_CardinalityType
  <2> QED BY <1>2, <2>1, <2>2, EntriesAssumption
<1>6. CASE Cardinality(all) <= MaxEntries
  <2>1. Published = all BY <1>1, <1>6 DEF Published
  <2> QED BY <1>1, <1>4, <1>5, <1>6, <2>1
<1>7. CASE ~(Cardinality(all) <= MaxEntries)
  <2>1. Published = all \ Oldest(all) BY <1>1, <1>7 DEF Published
  <2>2. Oldest(all) # {} /\ Oldest(all) \subseteq all
    BY <1>1, <1>4, OldestExists DEF Oldest
  <2>3. IsFiniteSet(Published) /\ Cardinality(Published) <= Cardinality(all)
        /\ Cardinality(Published) # Cardinality(all)
    <3>1. Published \in SUBSET all /\ Published # all BY <2>1, <2>2
    <3> QED BY <1>5, <3>1, FS_Subset
  <2>4. Cardinality(Published) \in Nat BY <2>3, FS_CardinalityType
  <2>5. Cardinality(Published) <= MaxEntries BY <1>5, <2>3, <2>4, EntriesAssumption
  <2> QED BY <1>1, <1>4, <2>1, <2>3, <2>5
<1> QED BY <1>6, <1>7

LEMMA RetainStep ==
  ASSUME CheckInv, NEW step \in {"done", "raised"}, Go(step),
         call.step \in {"execute", "settle"},
         step = "done" => Ended(call.rows) /\ Len(call.rows) <= Checks,
         UNCHANGED <<world, intact, runs>>, faults' \in 0 .. MaxFaults,
         entries' \subseteq EntryState, IsFiniteSet(entries'),
         Cardinality(entries') <= MaxEntries,
         \A e, f \in entries' : e.key = f.key => e = f,
         \A e \in entries' : EntryOK(e) /\ e.key \notin refuted' \ lost'
  PROVE  CheckInv'
<1>1. PICK n : n = [call EXCEPT !.step = step] OBVIOUS
<1>2. n \in CallState BY <1>1, CallFacts DEF CallState, Steps
<1>3. /\ n.step = step /\ n.key = call.key /\ n.swaps = call.swaps /\ n.rows = call.rows
      /\ n.ev = call.ev /\ n.reused = call.reused /\ n.seen = call.seen
      /\ n.returns = call.returns
  BY <1>1, CallFacts DEF CallState
<1>4. ~call.reused /\ call.ev \in 1 .. runs BY CallFacts DEF StepOK
<1>5. SeenOK(n) BY <1>3, CallFacts DEF SeenOK
<1>6. ToolsOK(n) BY <1>3, CallFacts DEF ToolsOK
<1>7. StepOK(n) BY <1>3, <1>4 DEF StepOK, Early
<1>8. call' = n /\ UNCHANGED <<trees, tools, events, intact, runs>> BY <1>1 DEF Go, world
<1>9. CallOK(call)'
  BY <1>5, <1>6, <1>7, <1>8 DEF CallOK, SeenOK, ToolsOK, StepOK, Since, Tree
<1>10. CheckTyped' BY <1>2, <1>8 DEF CheckInv, CheckTyped
<1>11. TreesOK' /\ \A e \in entries' : EntryOK(e)'
  BY <1>8 DEF CheckInv, TreesOK, EntryOK, Good, Unnoticed
<1>12. RevokedOK' BY DEF RevokedOK
<1> QED BY <1>3, <1>4, <1>8, <1>9, <1>10, <1>11, <1>12 DEF CheckInv

LEMMA RemainingSubset == Remaining \subseteq entries BY DEF Remaining, Others

LEMMA RemainingNotRefuted == \A e \in Remaining : e.key \notin Refuted
  BY OthersOK DEF Remaining, Refuted

LEMMA EvidenceFailsChecks == CheckInv /\ EvidenceFails => CheckInv'
<1> SUFFICES ASSUME CheckInv, EvidenceFails PROVE CheckInv' OBVIOUS
<1>1. /\ entries' \in SUBSET entries /\ refuted' = refuted \cup Refuted
      /\ \/ entries' = Remaining /\ lost' = lost \ Refuted
         \/ lost' = lost \cup Refuted
  BY RemainingSubset DEF EvidenceFails
<1>2. \A e \in entries : EntryOK(e) /\ e.key \notin refuted \ lost
  BY DEF CheckInv, RevokedOK, Revoking, EvidenceFails
<1>3. \A e \in entries' : EntryOK(e) /\ e.key \notin refuted' \ lost'
  BY <1>1, <1>2, RemainingNotRefuted
<1>4. faults' \in 0 .. MaxFaults BY CallFacts, EventsAssumption DEF EvidenceFails
<1> QED BY <1>1, <1>3, <1>4, Fewer, RetainStep DEF EvidenceFails

(* What the failure of this call refuted is not revoked, the rest had been. *)
LEMMA UnsavedFacts ==
  ASSUME CheckInv, call.step = "settle", Unsaved, UNCHANGED <<entries, refuted>>
  PROVE  \A e \in entries : e.key \notin refuted' \ lost'
<1> SUFFICES ASSUME NEW e \in entries, e.key \in refuted' \ lost' PROVE FALSE OBVIOUS
<1>1. lost \subseteq lost' /\ (Bad(call.rows) => Refuted \subseteq lost') BY DEF Unsaved
<1>2. Revoking(e.key) BY <1>1 DEF CheckInv, RevokedOK
<1> QED BY <1>1, <1>2 DEF Revoking

LEMMA SettleUnsavedChecks == CheckInv /\ SettleUnsaved => CheckInv'
<1> SUFFICES ASSUME CheckInv, SettleUnsaved PROVE CheckInv' OBVIOUS
<1>1. entries' = entries /\ Ended(call.rows) /\ Len(call.rows) <= Checks
  BY CallFacts DEF SettleUnsaved, StepOK
<1>2. \A e \in entries' : EntryOK(e) /\ e.key \notin refuted' \ lost'
  BY <1>1, UnsavedFacts DEF SettleUnsaved, CheckInv
<1>3. faults' \in 0 .. MaxFaults BY CallFacts, EventsAssumption DEF SettleUnsaved
<1> QED BY <1>1, <1>2, <1>3, Fewer, RetainStep DEF SettleUnsaved

(* A complete success under an unchanged identity was observed on the very     *)
(* tree the identity names.                                                    *)
LEMMA NewEntry ==
  ASSUME CheckInv, call.step = "settle", Success, call.key # Unattested,
         call.key \in Identities
  PROVE  Entry.key = call.key /\ EntryOK(Entry)
<1>1. call.key.tree = Tree.id /\ call.key.tools = tools BY IdentityFacts
<1>2. /\ Len(call.rows) = Checks /\ \A i \in 1 .. Checks : call.rows[i] = "ok"
      /\ ~call.reused
  BY CallFacts DEF Success, Good, StepOK, CallState
<1>3. /\ Entry.key = call.key /\ Entry.seen = call.seen /\ Entry.swaps = call.swaps
      /\ Entry.returns = call.returns
  BY DEF Entry
<1>4. call.key.tree \in 1 .. Len(trees) /\ call.seen \subseteq 1 .. Len(trees)
  BY CallFacts DEF SeenOK, ToolsOK
<1>5. call.swaps \in Nat /\ call.returns \in Nat /\ call.swaps # 1
  BY <1>1, CallFacts DEF ToolsOK, CallState
<1>6. CASE call.swaps = 0 /\ call.returns = 0
  <2>1. \A i \in 1 .. Checks : trees[call.key.tree].does[call.key.tools][i] = "ok"
    BY <1>1, <1>2, <1>6, CallFacts DEF ToolsOK
  <2>2. DOMAIN trees[call.key.tree].does[call.key.tools] = 1 .. Checks
    BY <1>1, <1>4, CallFacts, TreeFacts
  <2>3. Good(trees[call.key.tree].does[call.key.tools]) BY <2>1, <2>2 DEF Good
  <2>4. \A m \in call.seen : trees[m].id = call.key.tree
    BY <1>1, <1>6, CallFacts DEF SeenOK
  <2> QED BY <1>3, <1>4, <2>3, <2>4 DEF EntryOK
<1>7. CASE ~(call.swaps = 0 /\ call.returns = 0)
  <2>1. Unnoticed(Entry) BY <1>3, <1>5, <1>7 DEF Unnoticed
  <2> QED BY <1>3, <1>4, <2>1 DEF EntryOK
<1> QED BY <1>3, <1>6, <1>7

LEMMA SettleChecks == CheckInv /\ Settle => CheckInv'
<1> SUFFICES ASSUME CheckInv, Settle PROVE CheckInv' OBVIOUS
<1>1. PICK same \in Unchanged, keep \in BOOLEAN :
        /\ keep <=> call.attest /\ Success /\ call.key # Unattested /\ same
        /\ entries' = CASE keep -> Published
                        [] /\ ~keep
                           /\ ~Success \/ (call.key # Unattested /\ (call.attest \/ call.force))
                             -> Remaining
                        [] OTHER -> entries
        /\ refuted' = IF keep THEN refuted \ {call.key} ELSE refuted
        /\ lost' = IF keep THEN lost \ {call.key} ELSE lost
  BY Zenon DEF Settle
<1>2. /\ call.step = "settle" /\ Go("done") /\ UNCHANGED <<world, intact, runs, faults>>
      /\ Ended(call.rows) /\ Len(call.rows) <= Checks /\ ~call.reused
  BY CallFacts DEF Settle, StepOK
<1>3. \A e \in entries : EntryOK(e) /\ (e.key \in refuted \ lost => Revoking(e.key))
  BY DEF CheckInv, RevokedOK
<1>4. Success => ~Bad(call.rows) BY DEF Success, Good, Bad
<1>5. CASE keep
  <2>1. /\ entries' = Published /\ refuted' = refuted \ {call.key}
        /\ lost' = lost \ {call.key}
    BY <1>1, <1>5
  <2>2. call.key \in Identities /\ Success /\ call.key # Unattested
    BY <1>1, <1>5 DEF Unchanged
  <2>3. ASSUME NEW e \in entries' PROVE EntryOK(e) /\ e.key \notin refuted' \ lost'
    <3>1. e \in Others \/ e = Entry BY <2>1, PublishedOK
    <3>2. CASE e \in Others
      BY <1>3, <1>4, <2>1, <2>2, <3>2, OthersOK DEF Revoking
    <3>3. CASE e = Entry BY <1>2, <2>1, <2>2, <3>3, NewEntry
    <3> QED BY <3>1, <3>2, <3>3
  <2> QED BY <1>2, <2>1, <2>3, CallFacts, PublishedOK, RetainStep
<1>6. CASE ~keep /\ ~Success
  <2>1. entries' = Remaining /\ refuted' = refuted /\ lost' = lost BY <1>1, <1>6
  <2>2. \A e \in entries' : EntryOK(e) /\ e.key \notin refuted' \ lost'
    BY <1>3, <2>1, RemainingSubset, RemainingNotRefuted DEF Revoking
  <2> QED BY <1>2, <2>1, <2>2, CallFacts, Fewer, RemainingSubset, RetainStep
<1>7. CASE ~keep /\ Success
  <2>1. entries' \in SUBSET entries /\ refuted' = refuted /\ lost' = lost
    BY <1>1, <1>7, RemainingSubset
  <2>2. \A e \in entries' : EntryOK(e) /\ e.key \notin refuted' \ lost'
    BY <1>3, <1>4, <1>7, <2>1 DEF Revoking
  <2> QED BY <1>2, <2>1, <2>2, CallFacts, Fewer, RetainStep
<1> QED BY <1>5, <1>6, <1>7

-----------------------------------------------------------------------------
(* What others do, and what is called. *)

LEMMA SeqGrows ==
  ASSUME NEW S, NEW s \in Seq(S), NEW x \in S
  PROVE  /\ Append(s, x) \in Seq(S) /\ Len(Append(s, x)) = Len(s) + 1
         /\ \A i \in 1 .. Len(s) : Append(s, x)[i] = s[i]
         /\ Append(s, x)[Len(s) + 1] = x
  OBVIOUS

(* A new moment: what was seen before stays.  An earlier tree that returns     *)
(* leaves its mark on the call.                                                *)
LEMMA GrownChecks ==
  ASSUME CheckInv, NEW t \in Moments, trees' = Append(trees, t),
         t.id \in 1 .. Len(trees) + 1, t.base \in 0 .. Len(trees),
         t.id = Len(trees) + 1 \/ (trees[t.id].id = t.id /\ trees[t.id].does = t.does),
         NEW returns \in Nat, NEW n, n = [call EXCEPT !.returns = returns], call' = n,
         call.step = "none" \/ t.id = Len(trees) + 1 \/ returns # 0,
         UNCHANGED <<tools, intact, runs, entries, failures, faults>>,
         events' \in 0 .. MaxEvents
  PROVE  CheckInv'
<1>1. /\ trees' \in Seq(Moments) /\ Len(trees') = Len(trees) + 1
      /\ \A i \in 1 .. Len(trees) : trees'[i] = trees[i]
      /\ trees'[Len(trees) + 1] = t
  BY CallFacts, SeqGrows
<1>2. n \in CallState BY CallFacts DEF CallState
<1>3. /\ n.step = call.step /\ n.key = call.key /\ n.swaps = call.swaps /\ n.rows = call.rows
      /\ n.ev = call.ev /\ n.reused = call.reused /\ n.seen = call.seen
      /\ n.looked = call.looked /\ n.returns = returns
  BY CallFacts DEF CallState
<1>4. Tree' = t BY <1>1 DEF Tree, Last
<1>5. ASSUME call.key # Unattested, returns = 0 PROVE call.key.tree # t.id
  <2>1. call.step # "none" /\ call.key.tree \in 1 .. Len(trees)
    BY <1>5, CallFacts DEF StepOK, ToolsOK
  <2> QED BY <1>5, <2>1, CallFacts
<1>6. SeenOK(call)' BY <1>1, <1>3, <1>4, <1>5, CallFacts DEF SeenOK
<1>7. ToolsOK(call)'
  <2> SUFFICES ASSUME n.key # Unattested
               PROVE  /\ n.key.tree \in 1 .. Len(trees) + 1
                      /\ n.swaps = 0 => tools = n.key.tools
                      /\ n.swaps = 1 => tools # n.key.tools
                      /\ ~(n.swaps = 0 /\ n.returns = 0 /\ n.key.tree = t.id)
    BY <1>1, <1>4 DEF ToolsOK
  <2>1. call.key # Unattested BY <1>3
  <2>2. /\ call.key.tree \in 1 .. Len(trees)
        /\ call.swaps = 0 => tools = call.key.tools
        /\ call.swaps = 1 => tools # call.key.tools
    BY <2>1, CallFacts DEF ToolsOK
  <2>3. call.key.tree \in 1 .. Len(trees) + 1 BY <2>2, CallFacts
  <2> QED BY <1>3, <1>5, <2>1, <2>2, <2>3
<1>8. StepOK(call)'
  <2>1. Since(call.looked, call.key.tree) => Since(call.looked, call.key.tree)'
    BY <1>1, <1>3, CallFacts DEF Since
  <2>2. call.step = "confirm" => call.looked <= Len(trees')
    BY <1>1, CallFacts DEF StepOK, CallState
  <2> QED BY <1>3, <2>1, <2>2, CallFacts DEF StepOK
<1>9. TreesOK'
  <2> SUFFICES ASSUME NEW m \in 1 .. Len(trees) + 1
               PROVE  /\ trees'[m].id \in 1 .. m /\ trees'[m].base \in 0 .. m - 1
                      /\ trees'[trees'[m].id].id = trees'[m].id
                      /\ trees'[trees'[m].id].does = trees'[m].does
    BY <1>1 DEF TreesOK
  <2>1. CASE m \in 1 .. Len(trees)
    <3>1. /\ trees[m].id \in 1 .. m /\ trees[m].base \in 0 .. m - 1
          /\ trees[trees[m].id].id = trees[m].id
          /\ trees[trees[m].id].does = trees[m].does
      BY <2>1 DEF CheckInv, TreesOK
    <3>2. trees[m].id \in 1 .. Len(trees) BY <2>1, <3>1, CallFacts
    <3> QED BY <1>1, <2>1, <3>1, <3>2
  <2>2. CASE m = Len(trees) + 1
    <3>1. trees'[m] = t BY <1>1, <2>2
    <3>2. CASE t.id = Len(trees) + 1 BY <1>1, <2>2, <3>1, <3>2, CallFacts
    <3>3. CASE t.id # Len(trees) + 1
      <4>1. t.id \in 1 .. Len(trees) BY <3>3, CallFacts
      <4> QED BY <1>1, <2>2, <3>1, <3>3, <4>1, CallFacts
    <3> QED BY <3>2, <3>3
  <2> QED BY <2>1, <2>2, CallFacts
<1>10. CheckTyped' BY <1>1, <1>2, CallFacts DEF CheckInv, CheckTyped
<1>11. ASSUME NEW e \in entries PROVE EntryOK(e)'
  <2>1. EntryOK(e) BY DEF CheckInv
  <2>2. /\ e.key # Unattested /\ e.key.tree \in 1 .. Len(trees)
        /\ e.seen \subseteq 1 .. Len(trees)
    BY <2>1 DEF EntryOK
  <2>3. /\ e.key.tree \in 1 .. Len(trees') /\ e.seen \subseteq 1 .. Len(trees')
        /\ trees'[e.key.tree] = trees[e.key.tree]
        /\ \A m \in e.seen : trees'[m] = trees[m]
    BY <1>1, <2>2, CallFacts
  <2> QED BY <2>1, <2>2, <2>3 DEF EntryOK, Good, Unnoticed
<1>12. RevokedOK' BY <1>3, StillSettling
<1> QED BY <1>3, <1>6, <1>7, <1>8, <1>9, <1>10, <1>11, <1>12 DEF CheckInv, CallOK

LEMMA EditChecks ==
  ASSUME CheckInv, NEW o \in Outcomes, Edit(o), events' \in 0 .. MaxEvents
  PROVE  CheckInv'
<1>1. PICK t : t = [id |-> Len(trees) + 1, does |-> o, base |-> Len(trees)] OBVIOUS
<1>2. /\ t \in Moments /\ t.id = Len(trees) + 1 /\ t.base = Len(trees)
      /\ t.id \in 1 .. Len(trees) + 1 /\ t.base \in 0 .. Len(trees)
  BY <1>1, CallFacts DEF Moments
<1>3. call.returns \in Nat /\ call = [call EXCEPT !.returns = call.returns]
  BY CallFacts DEF CallState
<1> QED BY <1>1, <1>2, <1>3, GrownChecks DEF Edit

(* The tree that returns has the identity it had.                              *)
LEMMA RemoveFromRootChecks == CheckInv /\ RemoveFromRoot => CheckInv'
<1> SUFFICES ASSUME CheckInv, RemoveFromRoot PROVE CheckInv' OBVIOUS
<1>1. Tree.base \in 1 .. Len(trees) BY TreeFacts, CallFacts DEF RemoveFromRoot
<1>2. PICK t : t = trees[Tree.base] OBVIOUS
<1>3. /\ t \in Moments /\ t.id \in 1 .. Len(trees) /\ t.base \in 0 .. Len(trees)
      /\ trees[t.id].id = t.id /\ trees[t.id].does = t.does
  <2>1. /\ t.base \in 0 .. Tree.base - 1 /\ t.id \in 1 .. Tree.base
        /\ trees[t.id].id = t.id /\ trees[t.id].does = t.does
    BY <1>1, <1>2 DEF CheckInv, TreesOK
  <2>2. t \in Moments BY <1>1, <1>2, TreeFacts
  <2>3. t.base \in 0 .. Len(trees) /\ t.id \in 1 .. Len(trees)
    <3>1. PICK b : b = Tree.base OBVIOUS
    <3> QED BY <1>1, <2>1, <3>1, CallFacts
  <2> QED BY <2>1, <2>2, <2>3
<1>4. t.id \in 1 .. Len(trees) + 1 BY <1>3, CallFacts
<1>5. PICK returns \in Nat : /\ call' = [call EXCEPT !.returns = returns]
                             /\ call.step = "none" \/ returns # 0
  <2>1. CASE call.step = "none"
    <3>1. call' = [call EXCEPT !.returns = 0] BY <2>1, CallFacts DEF RemoveFromRoot, CallState
    <3> QED BY <2>1, <3>1
  <2>2. CASE call.step # "none"
    <3>1. call' = [call EXCEPT !.returns = call.returns + 1]
      BY <2>2, CallFacts DEF RemoveFromRoot, CallState
    <3>2. call.returns + 1 \in Nat /\ call.returns + 1 # 0 BY CallFacts DEF CallState
    <3> QED BY <3>1, <3>2
  <2> QED BY <2>1, <2>2
<1>6. events' \in 0 .. MaxEvents BY DEF RemoveFromRoot, CheckInv, CheckTyped
<1> QED BY <1>2, <1>3, <1>4, <1>5, <1>6, GrownChecks DEF RemoveFromRoot

(* Other tools: an execution that saw them once no longer names its own.       *)
LEMMA ToolsChecks ==
  ASSUME CheckInv, tools' = 1 - tools, events' \in 0 .. MaxEvents,
         call' = [call EXCEPT !.swaps = IF call.step = "none" THEN 0 ELSE @ + 1],
         UNCHANGED <<trees, intact, runs, entries, failures, faults>>
  PROVE  CheckInv'
<1>1. PICK swaps \in Nat : /\ call' = [call EXCEPT !.swaps = swaps]
                           /\ call.step # "none" => swaps = call.swaps + 1
  <2>1. CASE call.step = "none"
    <3>1. call' = [call EXCEPT !.swaps = 0] BY <2>1, CallFacts DEF CallState
    <3> QED BY <2>1, <3>1
  <2>2. CASE call.step # "none"
    <3>1. call' = [call EXCEPT !.swaps = call.swaps + 1] BY <2>2, CallFacts DEF CallState
    <3>2. call.swaps + 1 \in Nat BY CallFacts DEF CallState
    <3> QED BY <2>2, <3>1, <3>2
  <2> QED BY <2>1, <2>2
<1>2. PICK n : n = [call EXCEPT !.swaps = swaps] OBVIOUS
<1>3. n \in CallState BY <1>2, CallFacts DEF CallState
<1>4. /\ n.step = call.step /\ n.key = call.key /\ n.swaps = swaps /\ n.rows = call.rows
      /\ n.ev = call.ev /\ n.reused = call.reused /\ n.seen = call.seen
      /\ n.looked = call.looked /\ n.returns = call.returns
  BY <1>2, CallFacts DEF CallState
<1>5. call' = n /\ UNCHANGED <<trees, intact, runs, entries, failures, faults>>
  BY <1>1, <1>2
<1>6. SeenOK(call)' BY <1>4, <1>5, CallFacts DEF SeenOK, Tree
<1>7. ToolsOK(call)'
  <2> SUFFICES ASSUME n.key # Unattested
               PROVE  /\ n.key.tree \in 1 .. Len(trees) /\ swaps # 0
                      /\ swaps = 1 => 1 - tools # n.key.tools
    BY <1>4, <1>5 DEF ToolsOK
  <2>1. call.step # "none" /\ swaps = call.swaps + 1 /\ call.swaps \in Nat
    BY <1>1, <1>4, CallFacts DEF StepOK, CallState
  <2> QED BY <1>4, <2>1, CallFacts DEF ToolsOK, Tools
<1>8. StepOK(call)' BY <1>4, <1>5, CallFacts DEF StepOK, Since
<1>9. tools' \in Tools BY CallFacts DEF Tools
<1>10. CheckTyped' BY <1>3, <1>5, <1>9 DEF CheckInv, CheckTyped
<1>11. \A e \in entries : EntryOK(e)' BY <1>5 DEF CheckInv, EntryOK, Good, Unnoticed
<1>12. TreesOK' BY <1>5 DEF CheckInv, TreesOK
<1>13. RevokedOK' BY <1>4, <1>5, StillSettling
<1> QED BY <1>4, <1>5, <1>6, <1>7, <1>8, <1>10, <1>11, <1>12, <1>13 DEF CheckInv, CallOK

LEMMA DisturbChecks == CheckInv /\ Disturb => CheckInv'
<1> SUFFICES ASSUME CheckInv, Disturb PROVE CheckInv' OBVIOUS
<1>1. events' \in 0 .. MaxEvents BY EventsAssumption DEF Disturb, CheckInv, CheckTyped
<1>2. CASE \E o \in Outcomes : Edit(o) BY <1>1, <1>2, EditChecks
<1>3. CASE /\ tools' = 1 - tools
           /\ call' = [call EXCEPT !.swaps = IF call.step = "none" THEN 0 ELSE @ + 1]
           /\ UNCHANGED <<trees, intact, runs, entries, failures, faults>>
  BY <1>1, <1>3, ToolsChecks
<1>4. CASE /\ \E ev \in intact : intact' = intact \ {ev}
           /\ UNCHANGED <<trees, tools, runs, entries, call, failures, faults>>
  <2>1. intact' \subseteq 1 .. runs BY <1>4, CallFacts
  <2>2. CheckTyped' BY <1>1, <1>4, <2>1 DEF CheckInv, CheckTyped
  <2>3. CallOK(call)'
    BY <1>4, CallFacts DEF CallOK, SeenOK, ToolsOK, StepOK, Since, Tree
  <2>4. TreesOK' /\ \A e \in entries : EntryOK(e)'
    BY <1>4 DEF CheckInv, TreesOK, EntryOK, Good, Unnoticed
  <2>5. RevokedOK' BY <1>4, StillSettling
  <2> QED BY <1>4, <2>2, <2>3, <2>4, <2>5 DEF CheckInv
<1> QED BY <1>2, <1>3, <1>4 DEF Disturb

LEMMA CallChecks1 ==
  ASSUME CheckInv, NEW attest \in BOOLEAN, NEW force \in BOOLEAN, NEW late \in BOOLEAN,
         Call(attest, force, late), call.step = "none"
  PROVE  CheckInv'
<1>1. PICK step \in {"identify", "execute"} : step = IF late THEN "execute" ELSE "identify"
  OBVIOUS
<1>2. PICK n : n = [NoCall EXCEPT !.step = step, !.attest = attest, !.force = force,
                                  !.late = late, !.ev = runs + 1]
  OBVIOUS
<1>3. runs + 1 \in Nat BY CallFacts
<1>4. n \in CallState BY <1>2, <1>3, NoCallOK DEF CallState, Steps
<1>5. /\ n.step = step /\ n.key = Unattested /\ n.rows = <<>> /\ n.ev = runs + 1
      /\ ~n.reused /\ n.seen = {}
  BY <1>2 DEF NoCall
<1>6. /\ call' = n /\ runs' = runs + 1 /\ runs < MaxRuns
      /\ UNCHANGED <<trees, tools, events, intact, entries, failures, faults>>
  BY <1>1, <1>2 DEF Call, world
<1>7. runs' \in 0 .. MaxRuns /\ intact \subseteq 1 .. runs'
  BY <1>6, CallFacts, EventsAssumption
<1>8. CheckTyped' BY <1>4, <1>6, <1>7 DEF CheckInv, CheckTyped
<1>9. CallOK(call)'
  BY <1>5, <1>6, CallFacts, OutcomesAssumption DEF CallOK, SeenOK, ToolsOK, StepOK, Early
<1>10. TreesOK' /\ \A e \in entries : EntryOK(e)'
  BY <1>6 DEF CheckInv, TreesOK, EntryOK, Good, Unnoticed
<1>11. RevokedOK' BY <1>6, NotSettling
<1> QED BY <1>5, <1>6, <1>8, <1>9, <1>10, <1>11 DEF CheckInv

(* The call is over, or its process. *)
LEMMA NoCallChecks ==
  ASSUME CheckInv, call' = NoCall, UNCHANGED <<world, intact, runs, entries>>,
         faults' \in 0 .. MaxFaults, RevokedOK'
  PROVE  CheckInv'
<1>1. ~NoCall.reused BY DEF NoCall
<1> QED BY <1>1, NoCallOK, CallFacts, CallStep

LEMMA CheckStepChecks == CheckInv /\ CheckStep => CheckInv'
  BY IdentifyChecks, LookupChecks, ConfirmChecks, HitChecks, ExecuteChecks,
     CannotRunChecks, TooLateChecks, EvidenceFailsChecks, SettleChecks,
     SettleUnsavedChecks, ExpireChecks DEF CheckStep

LEMMA StutterChecks == CheckInv /\ UNCHANGED reuseVars => CheckInv'
<1> SUFFICES ASSUME CheckInv, UNCHANGED reuseVars PROVE CheckInv' OBVIOUS
<1>1. UNCHANGED <<world, intact, runs, entries, call, failures, faults>> BY DEF reuseVars
<1>2. CallOK(call) /\ (call.reused => \E e \in entries : e.key = call.key)
  BY DEF CheckInv
<1> QED BY <1>1, <1>2, CallFacts, StillSettling, CallStep

-----------------------------------------------------------------------------
(* The job while its checks run. *)

LEMMA JobFacts ==
  ASSUME JobInv
  PROVE  /\ task.kind \in {"idle", "job", "verify"} /\ task.stage \in Stages
         /\ task.attest \in BOOLEAN /\ task.force \in BOOLEAN /\ task.from \in Nat
         /\ task.attempt \in 0 .. MaxAttempts
         /\ row.status \in Statuses /\ row.attempt \in 0 .. MaxAttempts
         /\ row = [status |-> row.status, attempt |-> row.attempt]
         /\ ended \subseteq 1 .. MaxAttempts
         /\ ledger \in [1 .. MaxAttempts -> Seq(Nat)]
         /\ own \subseteq Verified /\ IsFiniteSet(own) /\ pending \in Seq(Verified)
         /\ Len(pending) <= 1
  BY DEF JobInv, JobTyped

(* Nothing is published, and what could be published still can.                *)
LEMMA RecordsKept ==
  ASSUME JobInv, UNCHANGED <<ledger, own, pending>>,
         \A v \in own : Available(v) => Available(v)'
  PROVE  OwnOK' /\ LedgerOK' /\ PendingOK'
<1>1. OwnOK' /\ LedgerOK' BY DEF JobInv, OwnOK, LedgerOK
<1>2. PendingOK' BY DEF JobInv, PendingOK, ToSet
<1> QED BY <1>1, <1>2

LEMMA SameRow ==
  ASSUME UNCHANGED <<row, ended>>, NEW v, Available(v)
  PROVE  Available(v)'
  BY DEF Available

(* The checks go on: what they see from now on is there now.                   *)
LEMMA JobQuiet ==
  ASSUME CheckInv, JobInv, UNCHANGED taskVars, Len(trees') \in Nat,
         Len(trees) <= Len(trees'),
         \A m \in 1 .. Len(trees) : trees'[m].id = trees[m].id,
         call'.step # "none" => call.step # "none" \/ Checking,
         \A v \in call'.seen : v \in call.seen \/ v = Len(trees),
         call'.key \in {call.key, Unattested} \/ call'.key.tree = Tree.id
  PROVE  JobInv'
<1>1. UNCHANGED <<task, row, ended, ledger, own, pending>> BY DEF taskVars
<1>2. OwnOK' /\ LedgerOK' /\ PendingOK' BY <1>1, RecordsKept, SameRow
<1>3. JobTyped' BY <1>1 DEF JobInv, JobTyped
<1>4. StageOK' BY <1>1 DEF JobInv, StageOK, Checking, ToSet
<1>5. task.from <= Len(trees) /\ task.from \in Nat BY JobFacts DEF JobInv, PostOK
<1>6. Len(trees) \in Nat \ {0} BY CallFacts
<1>7. ASSUME task.stage = "post", NEW tree, call'.key.tree = tree, call'.key # Unattested
      PROVE  Since(task.from, tree)'
  <2>1. Since(task.from, tree)
    <3>1. CASE call'.key = call.key BY <1>7, <3>1 DEF JobInv, PostOK
    <3>2. CASE call'.key # call.key
      <4>1. tree = trees[Len(trees)].id BY <1>7, <3>2, TreeFacts
      <4>2. Len(trees) \in 1 .. Len(trees) BY <1>6
      <4> QED BY <1>5, <4>1, <4>2 DEF Since
    <3> QED BY <3>1, <3>2
  <2>2. PICK m \in 1 .. Len(trees) : m >= task.from /\ trees[m].id = tree
    BY <2>1 DEF Since
  <2>3. m \in 1 .. Len(trees') /\ trees'[m].id = tree BY <1>6, <2>2
  <2> QED BY <1>1, <2>2, <2>3 DEF Since
<1>8. PostOK'
  <2>1. task.from <= Len(trees') BY <1>5, <1>6
  <2>2. task.stage = "post" => \A v \in call'.seen : v >= task.from
    BY <1>5, <1>6 DEF JobInv, PostOK
  <2>3. PICK tree : tree = call'.key.tree OBVIOUS
  <2>4. task.stage = "post" /\ call'.key # Unattested => Since(task.from, tree)'
    BY <1>7, <2>3
  <2> QED BY <1>1, <2>1, <2>2, <2>3, <2>4 DEF PostOK
<1> QED BY <1>2, <1>3, <1>4, <1>8 DEF JobInv

LEMMA RanFrame ==
  ASSUME CheckInv, call.step = "execute", NEW result, Ran(result)
  PROVE  /\ call'.key = call.key
         /\ \A v \in call'.seen : v \in call.seen \/ v = Len(trees)
  BY CallFacts DEF Ran, CallState

LEMMA CheckStepFrame ==
  ASSUME CheckInv, CheckStep
  PROVE  /\ UNCHANGED trees /\ call.step # "none"
         /\ \A v \in call'.seen : v \in call.seen \/ v = Len(trees)
         /\ call'.key \in {call.key, Unattested} \/ call'.key.tree = Tree.id
<1>1. ASSUME Identify PROVE /\ call.step # "none" /\ call'.seen = call.seen
                            /\ call'.key \in Identities
  BY <1>1, CallFacts DEF Identify, CallState
<1>2. ASSUME Lookup \/ Confirm \/ Hit \/ EvidenceFails \/ Settle \/ SettleUnsaved \/ Expire
      PROVE  call.step # "none" /\ call'.seen = call.seen /\ call'.key = call.key
  <2>1. CASE Lookup BY <2>1, CallFacts DEF Lookup, Go, CallState
  <2>2. CASE Confirm BY <2>2, CallFacts DEF Confirm, Go, CallState
  <2>3. CASE Hit BY <2>3, CallFacts DEF Hit, Go, CallState
  <2>4. CASE EvidenceFails BY <2>4, CallFacts DEF EvidenceFails, Go, CallState
  <2>5. CASE Settle BY <2>5, CallFacts DEF Settle, Go, CallState
  <2>6. CASE SettleUnsaved BY <2>6, CallFacts DEF SettleUnsaved, Go, CallState
  <2>7. CASE Expire BY <2>7, CallFacts DEF Expire, CallState
  <2> QED BY <1>2, <2>1, <2>2, <2>3, <2>4, <2>5, <2>6, <2>7
<1>3. ASSUME Execute \/ CannotRun \/ TooLate
      PROVE  /\ call.step # "none" /\ call'.key = call.key
             /\ \A v \in call'.seen : v \in call.seen \/ v = Len(trees)
  <2>1. call.step = "execute" /\ \E result : Ran(result)
    BY <1>3 DEF Execute, CannotRun, TooLate
  <2> QED BY <2>1, RanFrame
<1>4. UNCHANGED trees
  BY DEF CheckStep, Identify, Lookup, Confirm, Hit, Execute, CannotRun, TooLate,
         EvidenceFails, Settle, SettleUnsaved, Expire, world
<1>5. CASE Identify BY <1>1, <1>4, <1>5, IdentityFacts
<1>6. CASE ~Identify BY <1>2, <1>3, <1>4, <1>6 DEF CheckStep
<1> QED BY <1>5, <1>6

LEMMA CheckStepJob ==
  ASSUME CheckInv, JobInv, CheckStep, UNCHANGED taskVars
  PROVE  JobInv'
  BY CheckStepFrame, CallFacts, JobQuiet

LEMMA DisturbJob ==
  ASSUME CheckInv, JobInv, Disturb \/ RemoveFromRoot, UNCHANGED taskVars
  PROVE  JobInv'
<1>1. ASSUME NEW t \in Moments, trees' = Append(trees, t)
      PROVE  /\ Len(trees') \in Nat /\ Len(trees) <= Len(trees')
             /\ \A m \in 1 .. Len(trees) : trees'[m].id = trees[m].id
  BY <1>1, CallFacts, SeqGrows
<1>2. CASE \E o \in Outcomes : Edit(o)
  <2>1. PICK o \in Outcomes : Edit(o) BY <1>2
  <2>2. PICK t : t = [id |-> Len(trees) + 1, does |-> o, base |-> Len(trees)] OBVIOUS
  <2>3. t \in Moments /\ trees' = Append(trees, t) /\ UNCHANGED call
    BY <2>1, <2>2, CallFacts DEF Edit, Moments
  <2> QED BY <1>1, <2>3, JobQuiet
<1>3. CASE RemoveFromRoot
  <2>1. Tree.base \in 1 .. Len(trees) BY <1>3, TreeFacts, CallFacts DEF RemoveFromRoot
  <2>2. trees[Tree.base] \in Moments /\ trees' = Append(trees, trees[Tree.base])
    BY <1>3, <2>1, TreeFacts DEF RemoveFromRoot
  <2>3. call'.step = call.step /\ call'.seen = call.seen /\ call'.key = call.key
    BY <1>3, CallFacts DEF RemoveFromRoot, CallState
  <2> QED BY <1>1, <2>2, <2>3, JobQuiet
<1>4. CASE /\ call' = [call EXCEPT !.swaps = IF call.step = "none" THEN 0 ELSE @ + 1]
           /\ UNCHANGED trees
  <2>1. call'.step = call.step /\ call'.seen = call.seen /\ call'.key = call.key
    BY <1>4, CallFacts DEF CallState
  <2> QED BY <1>4, <2>1, CallFacts, JobQuiet
<1>5. CASE UNCHANGED <<trees, call>> BY <1>5, CallFacts, JobQuiet
<1> QED BY <1>2, <1>3, <1>4, <1>5 DEF Disturb

LEMMA StutterJob ==
  ASSUME CheckInv, JobInv, UNCHANGED vars
  PROVE  JobInv'
  BY CallFacts, JobQuiet DEF vars, reuseVars, world

LEMMA CallChecksKeeps ==
  ASSUME CheckInv, JobInv, CallChecks
  PROVE  CheckInv' /\ JobInv'
<1>1. PICK late \in BOOLEAN : Call(task.attest, task.force, late)
  BY DEF CallChecks
<1>2. CheckInv' BY <1>1, JobFacts, CallChecks1 DEF CallChecks
<1>3. /\ UNCHANGED taskVars /\ Checking /\ UNCHANGED trees
      /\ call'.seen = {} /\ call'.key = Unattested
  BY <1>1 DEF CallChecks, Call, NoCall, world
<1> QED BY <1>2, <1>3, CallFacts, JobQuiet

-----------------------------------------------------------------------------
(* The steps of a job. *)

LEMMA Quiet ==
  ASSUME CheckInv, JobInv, ~Checking
  PROVE  call.step = "none" /\ call.seen = {} /\ call.key = Unattested
<1>1. call.step = "none" BY DEF JobInv, StageOK
<1> QED BY <1>1, CallFacts DEF StepOK, Early

LEMMA IdleOK == Idle \in [kind : {"idle", "job", "verify"}, stage : Stages, attest : BOOLEAN,
                          force : BOOLEAN, from : Nat, attempt : 0 .. MaxAttempts]
  BY AttemptsAssumption DEF Idle, Stages

(* Who lets the copy go leaves the records of verifications alone; the row he  *)
(* writes is of the attempt that ran, and what could be published still can.   *)
LEMMA Released ==
  ASSUME CheckInv, JobInv, task' = Idle, call'.step = "none", UNCHANGED trees,
         UNCHANGED <<ended, ledger, own, pending>>,
         NEW status \in Statuses, NEW attempt \in 0 .. MaxAttempts,
         row' = [status |-> status, attempt |-> attempt],
         status # "planned" => attempt >= 1,
         \A v \in own : Available(v) => Available(v)'
  PROVE  JobInv'
<1>1. JobTyped' BY IdleOK, JobFacts DEF JobTyped
<1>2. StageOK' BY DEF StageOK, Idle, Checking
<1>3. PostOK' BY CallFacts DEF PostOK, Idle
<1> QED BY <1>1, <1>2, <1>3, RecordsKept DEF JobInv

LEMMA ReleasedRow ==
  ASSUME CheckInv, JobInv, task' = Idle, call'.step = "none", UNCHANGED trees,
         UNCHANGED <<row, ended, ledger, own, pending>>
  PROVE  JobInv'
<1>1. row.status # "planned" => row.attempt >= 1 BY DEF JobInv, StageOK
<1> QED BY <1>1, JobFacts, SameRow, Released

LEMMA ReleaseFacts == Release => task' = Idle /\ call' = NoCall /\ call'.step = "none"
  BY DEF Release, NoCall

LEMMA StartJobKeeps ==
  ASSUME CheckInv, JobInv, NEW attest \in BOOLEAN, NEW force \in BOOLEAN,
         StartJob(attest, force)
  PROVE  JobInv'
<1>1. /\ task = Idle /\ row.attempt < MaxAttempts /\ row.status # "succeeded"
      /\ UNCHANGED <<reuseVars, row, ended, ledger, own, pending>>
  BY DEF StartJob
<1>2. task' = [kind |-> "job", stage |-> "baseline", attest |-> attest, force |-> force,
               from |-> 0, attempt |-> 0]
  BY DEF StartJob, Idle
<1>3. UNCHANGED <<trees, call>> /\ call.step = "none"
  BY <1>1, Quiet DEF reuseVars, world, Idle, Checking
<1>4. JobTyped' BY <1>1, <1>2, JobFacts, AttemptsAssumption DEF JobTyped, Stages
<1>5. StageOK' BY <1>1, <1>2, <1>3 DEF JobInv, StageOK, Checking
<1>6. PostOK' BY <1>2, <1>3, CallFacts DEF PostOK
<1> QED BY <1>1, <1>4, <1>5, <1>6, RecordsKept, SameRow DEF JobInv

LEMMA StartVerifyKeeps ==
  ASSUME CheckInv, JobInv, NEW attest \in BOOLEAN, NEW force \in BOOLEAN,
         StartVerify(attest, force)
  PROVE  JobInv'
<1>1. /\ task = Idle /\ UNCHANGED <<reuseVars, row, ended, ledger, own, pending>>
  BY DEF StartVerify
<1>2. task' = [kind |-> "verify", stage |-> "replay", attest |-> attest, force |-> force,
               from |-> 0, attempt |-> 0]
  BY DEF StartVerify, Idle
<1>3. UNCHANGED <<trees, call>> /\ call.step = "none"
  BY <1>1, Quiet DEF reuseVars, world, Idle, Checking
<1>4. JobTyped' BY <1>1, <1>2, JobFacts, AttemptsAssumption DEF JobTyped, Stages
<1>5. StageOK' BY <1>1, <1>2, <1>3 DEF JobInv, StageOK, Checking
<1>6. PostOK' BY <1>2, <1>3, CallFacts DEF PostOK
<1> QED BY <1>1, <1>4, <1>5, <1>6, RecordsKept, SameRow DEF JobInv

(* A planned assignment has no terminal row: only the history counts.          *)
LEMMA BaselineFailsKeeps ==
  ASSUME CheckInv, JobInv, BaselineFails
  PROVE  JobInv'
<1>1. /\ task.stage = "baseline" /\ task' = Idle /\ call'.step = "none"
      /\ UNCHANGED <<world, ended, ledger, own, pending>>
  BY ReleaseFacts DEF BaselineFails
<1>2. UNCHANGED trees BY <1>1 DEF world
<1>3. CASE row.status = "planned"
  <2>1. row' = [status |-> "failed", attempt |-> 1] BY <1>3 DEF BaselineFails
  <2>2. 1 \in 0 .. MaxAttempts /\ "failed" \in Statuses
    BY <1>1, JobFacts, AttemptsAssumption DEF JobInv, StageOK, Statuses
  <2>3. \A v \in own : Available(v) => Available(v)' BY <1>1, <1>3 DEF Available
  <2> QED BY <1>1, <1>2, <2>1, <2>2, <2>3, Released
<1>4. CASE row.status # "planned"
  <2>1. row' = row BY <1>4 DEF BaselineFails
  <2> QED BY <1>1, <1>2, <2>1, ReleasedRow
<1> QED BY <1>3, <1>4

(* The attempt that moves into the history takes its finished_at along.        *)
LEMMA BaselineDoneKeeps ==
  ASSUME CheckInv, JobInv, BaselineDone
  PROVE  JobInv'
<1>1. /\ task.stage = "baseline" /\ call' = NoCall /\ ended' = History
      /\ UNCHANGED <<world, ledger, own, pending>>
      /\ row' = [status |-> "running", attempt |-> row.attempt + 1]
      /\ task' = [task EXCEPT !.stage = "work"]
  BY DEF BaselineDone, Stage
<1>2. UNCHANGED trees BY <1>1 DEF world
<1>3. row.attempt < MaxAttempts /\ row.status # "succeeded"
  BY <1>1 DEF JobInv, StageOK
<1>4. row.status = "failed" => row.attempt \in 1 .. MaxAttempts
  BY JobFacts DEF JobInv, StageOK
<1>5. ended' \subseteq 1 .. MaxAttempts /\ ended \subseteq ended'
      /\ (row.status = "failed" => row.attempt \in ended')
  BY <1>1, <1>4, JobFacts DEF History
<1>6. row' \in [status : Statuses, attempt : 0 .. MaxAttempts] /\ row'.attempt >= 1
  BY <1>1, <1>3, JobFacts, AttemptsAssumption DEF Statuses
<1>7. JobTyped' BY <1>1, <1>5, <1>6 DEF JobInv, JobTyped, Stages
<1>8. task'.stage = "work" /\ task'.from = task.from BY <1>1 DEF JobInv, JobTyped
<1>9. StageOK' BY <1>1, <1>6, <1>8 DEF StageOK, Checking, NoCall
<1>10. PostOK' BY <1>2, <1>8 DEF JobInv, PostOK
<1>11. \A v \in own : Available(v) => Available(v)'
  BY <1>1, <1>3, <1>5 DEF Available
<1> QED BY <1>1, <1>7, <1>9, <1>10, <1>11, RecordsKept DEF JobInv

(* The worker is done: from now on the checks see its tree, or a later one.    *)
LEMMA ToPost ==
  ASSUME CheckInv, JobInv, task.stage = "work", task'.from \in Nat,
         task' = [task EXCEPT !.stage = "post", !.from = task'.from],
         task'.from <= Len(trees'),
         UNCHANGED <<call, row, ended, ledger, own, pending>>
  PROVE  JobInv'
<1>1. call.step = "none" /\ call.seen = {} /\ call.key = Unattested
  BY Quiet DEF Checking
<1>2. task'.stage = "post" BY DEF JobInv, JobTyped
<1>3. JobTyped' BY DEF JobInv, JobTyped, Stages
<1>4. StageOK' BY <1>1, <1>2 DEF JobInv, StageOK, Checking
<1>5. PostOK' BY <1>1, <1>2 DEF PostOK
<1> QED BY <1>3, <1>4, <1>5, RecordsKept, SameRow DEF JobInv

LEMMA WorkKeeps ==
  ASSUME CheckInv, JobInv, Work
  PROVE  CheckInv' /\ JobInv'
<1>1. PICK o \in Outcomes : Edit(o) BY DEF Work
<1>2. events' \in 0 .. MaxEvents BY DEF Work, CheckInv, CheckTyped
<1>3. CheckInv' BY <1>1, <1>2, EditChecks
<1>4. Len(trees') = Len(trees) + 1 BY <1>1, CallFacts DEF Edit
<1>5. /\ task.stage = "work" /\ task' = [task EXCEPT !.stage = "post", !.from = Len(trees) + 1]
      /\ UNCHANGED <<call, row, ended, ledger, own, pending>>
  BY <1>1 DEF Work, Edit
<1>6. task'.from = Len(trees) + 1 BY <1>5 DEF JobInv, JobTyped
<1>7. JobInv' BY <1>4, <1>5, <1>6, CallFacts, ToPost
<1> QED BY <1>3, <1>7

LEMMA WorkUnchangedKeeps ==
  ASSUME CheckInv, JobInv, WorkUnchanged
  PROVE  JobInv'
<1>1. /\ task.stage = "work" /\ task' = [task EXCEPT !.stage = "post", !.from = Len(trees)]
      /\ UNCHANGED <<trees, call, row, ended, ledger, own, pending>>
  BY DEF WorkUnchanged, reuseVars, world
<1>2. task'.from = Len(trees) BY <1>1 DEF JobInv, JobTyped
<1> QED BY <1>1, <1>2, CallFacts, ToPost

LEMMA FinishKeeps ==
  ASSUME CheckInv, JobInv, NEW status \in {"succeeded", "failed"}, Finish(status),
         task.stage \in {"work", "post"}
  PROVE  JobInv'
<1>1. /\ row.status = "running" /\ row.attempt >= 1 /\ row.attempt \in 0 .. MaxAttempts
  BY JobFacts DEF JobInv, StageOK
<1>2. /\ row' = [status |-> status, attempt |-> row.attempt]
      /\ task' = Idle /\ call'.step = "none"
      /\ UNCHANGED <<trees, ended, ledger, own, pending>>
  BY JobFacts, ReleaseFacts DEF Finish, world
<1>3. \A v \in own : Available(v) => Available(v)' BY <1>1, <1>2 DEF Available
<1>4. status \in Statuses BY DEF Statuses
<1> QED BY <1>1, <1>2, <1>3, <1>4, Released

LEMMA FinishJobKeeps ==
  ASSUME CheckInv, JobInv, FinishJob
  PROVE  JobInv'
<1>1. PICK status \in {"succeeded", "failed"} : Finish(status)
  BY DEF FinishJob
<1> QED BY <1>1, FinishKeeps DEF FinishJob

-----------------------------------------------------------------------------
(* The steps of `workspace verify`. *)

(* An identity is appended once. *)
Once(s, r) == IF r \in ToSet(s) THEN s ELSE Append(s, r)

LEMMA OnceAppended ==
  ASSUME NEW s \in Seq(Nat), NEW r \in Nat
  PROVE  /\ Once(s, r) \in Seq(Nat) /\ r \in ToSet(Once(s, r))
         /\ ToSet(s) \subseteq ToSet(Once(s, r))
         /\ ToSet(Once(s, r)) \subseteq ToSet(s) \cup {r}
         /\ Distinct(s) => Distinct(Once(s, r))
<1>0. PICK t : t = Once(s, r) OBVIOUS
<1>1. CASE r \in ToSet(s) BY <1>1 DEF Once
<1>2. CASE r \notin ToSet(s)
  <2>1. /\ t \in Seq(Nat) /\ Len(t) = Len(s) + 1 /\ t[Len(s) + 1] = r
        /\ \A i \in 1 .. Len(s) : t[i] = s[i]
    BY <1>0, <1>2, SeqGrows DEF Once
  <2>2. DOMAIN s = 1 .. Len(s) /\ DOMAIN t = 1 .. Len(s) + 1 /\ Len(s) \in Nat
    BY <2>1, LenProperties
  <2>3. \A i \in 1 .. Len(s) : s[i] # r BY <1>2, <2>2 DEF ToSet
  <2>4. \A i \in 1 .. Len(t) : i = Len(s) + 1 \/ i \in 1 .. Len(s) BY <2>1, <2>2
  <2>5. r \in ToSet(t) BY <2>1, <2>2 DEF ToSet
  <2>6. ToSet(s) \subseteq ToSet(t)
    <3> SUFFICES ASSUME NEW i \in 1 .. Len(s) PROVE s[i] \in ToSet(t)
      BY <2>2 DEF ToSet
    <3>1. i \in 1 .. Len(s) + 1 /\ t[i] = s[i] BY <2>1, <2>2
    <3> QED BY <2>2, <3>1 DEF ToSet
  <2>7. ToSet(t) \subseteq ToSet(s) \cup {r} BY <2>1, <2>2, <2>4 DEF ToSet
  <2>8. ASSUME Distinct(s), NEW i \in 1 .. Len(t), NEW j \in 1 .. Len(t), t[i] = t[j]
        PROVE  i = j
    <3>1. CASE i \in 1 .. Len(s) /\ j \in 1 .. Len(s)
      BY <2>1, <2>8, <3>1 DEF Distinct
    <3>2. CASE i = Len(s) + 1 \/ j = Len(s) + 1 BY <2>1, <2>3, <2>4, <2>8, <3>2
    <3> QED BY <2>4, <3>1, <3>2
  <2>9. Distinct(s) => Distinct(t) BY <2>8 DEF Distinct
  <2> QED BY <1>0, <2>1, <2>5, <2>6, <2>7, <2>9
<1> QED BY <1>1, <1>2

LEMMA OneLong ==
  ASSUME NEW S, NEW s \in Seq(S), s # <<>>, Len(s) <= 1
  PROVE  Len(s) = 1 /\ Tail(s) = <<>>
<1>1. Len(s) \in Nat \ {0} BY EmptySeq, Zenon
<1>2. Len(s) = 1 BY <1>1
<1>3. Tail(s) \in Seq(S) /\ Len(Tail(s)) = 0 BY <1>2
<1>4. Tail(s) # <<>> => Len(Tail(s)) \in Nat \ {0} BY <1>3, EmptySeq, Zenon
<1> QED BY <1>2, <1>3, <1>4

LEMMA PendingFacts ==
  ASSUME JobInv, pending # <<>>
  PROVE  /\ Len(pending) = 1 /\ Tail(pending) = <<>> /\ pending[1] \in own
         /\ pending[1].run \in Nat /\ pending[1].attempt \in 1 .. MaxAttempts
         /\ Available(pending[1])
<1>1. pending \in Seq(Verified) /\ Len(pending) <= 1 BY JobFacts
<1>2. Len(pending) = 1 /\ Tail(pending) = <<>> BY <1>1, OneLong
<1>3. pending[1] \in own /\ Available(pending[1]) BY DEF JobInv, PendingOK
<1> QED BY <1>2, <1>3, JobFacts DEF Verified

LEMMA TaskStage ==
  ASSUME JobInv, NEW stage \in Stages, task' = [task EXCEPT !.stage = stage]
  PROVE  /\ task' \in [kind : {"idle", "job", "verify"}, stage : Stages, attest : BOOLEAN,
                       force : BOOLEAN, from : Nat, attempt : 0 .. MaxAttempts]
         /\ task'.stage = stage /\ task'.from = task.from /\ task'.attempt = task.attempt
  BY DEF JobInv, JobTyped

LEMMA RecordVerificationKeeps ==
  ASSUME CheckInv, JobInv, RecordVerification
  PROVE  JobInv'
<1>1. /\ Publishing /\ pending # <<>>
      /\ UNCHANGED <<trees, call, row, ended, own, pending>>
  BY DEF RecordVerification, reuseVars, world
<1>2. call.step = "none" BY <1>1, Quiet DEF Publishing, Checking
<1>3. PICK v : v = pending[1] OBVIOUS
<1>4. v \in own /\ v.run \in Nat /\ v.attempt \in 1 .. MaxAttempts /\ Available(v)
  BY <1>1, <1>3, PendingFacts
<1>5. PICK stage \in {"replayed", "published"} : task' = [task EXCEPT !.stage = stage]
  BY <1>3, <1>4 DEF RecordVerification, Stage
<1>6. PICK t : t = Appended(v) OBVIOUS
<1>7. ledger' = [ledger EXCEPT ![v.attempt] = t]
  BY <1>3, <1>4, <1>6 DEF RecordVerification, Target
<1>8. PICK s : s = ledger[v.attempt] OBVIOUS
<1>9. s \in Seq(Nat) BY <1>4, <1>8, JobFacts
<1>10. t = Once(s, v.run) BY <1>6, <1>8 DEF Appended, Target, Once
<1>11. /\ t \in Seq(Nat) /\ v.run \in ToSet(t) /\ ToSet(s) \subseteq ToSet(t)
       /\ ToSet(t) \subseteq ToSet(s) \cup {v.run}
       /\ Distinct(s) => Distinct(t)
  BY <1>4, <1>9, <1>10, OnceAppended
<1>12. /\ ledger' \in [1 .. MaxAttempts -> Seq(Nat)] /\ ledger'[v.attempt] = t
       /\ \A a \in 1 .. MaxAttempts : a # v.attempt => ledger'[a] = ledger[a]
  BY <1>4, <1>7, <1>11, JobFacts
<1>13. /\ task' \in [kind : {"idle", "job", "verify"}, stage : Stages, attest : BOOLEAN,
                     force : BOOLEAN, from : Nat, attempt : 0 .. MaxAttempts]
       /\ task'.stage = stage /\ task'.from = task.from
  BY <1>5, TaskStage DEF Stages
<1>14. JobTyped' BY <1>1, <1>12, <1>13 DEF JobInv, JobTyped
<1>15. StageOK'
  BY <1>1, <1>2, <1>3, <1>11, <1>12, <1>13 DEF JobInv, StageOK, Checking
<1>16. PostOK' BY <1>1, <1>13 DEF JobInv, PostOK
<1>17. OwnOK' BY <1>1 DEF JobInv, OwnOK
<1>18. LedgerOK'
  <2>1. ASSUME NEW i \in 1 .. Len(t)
        PROVE  \E w \in own : w.run = t[i] /\ w.attempt = v.attempt
    <3>1. t[i] \in ToSet(t) BY <1>11, LenProperties DEF ToSet
    <3>2. CASE t[i] = v.run BY <1>4, <3>2
    <3>3. CASE t[i] \in ToSet(s)
      <4>1. PICK j \in 1 .. Len(s) : t[i] = s[j] BY <1>9, <3>3, LenProperties DEF ToSet
      <4> QED BY <1>4, <1>8, <4>1 DEF JobInv, LedgerOK
    <3> QED BY <1>11, <3>1, <3>2, <3>3
  <2>2. Distinct(t) BY <1>4, <1>8, <1>11 DEF JobInv, LedgerOK
  <2>3. ASSUME NEW a \in 1 .. MaxAttempts
        PROVE  /\ \A i \in 1 .. Len(ledger'[a]) :
                     \E w \in own : w.run = ledger'[a][i] /\ w.attempt = a
               /\ Distinct(ledger'[a])
    <3>1. CASE a = v.attempt BY <1>12, <2>1, <2>2, <3>1
    <3>2. CASE a # v.attempt
      <4>1. ledger'[a] = ledger[a] BY <1>12, <3>2
      <4> QED BY <4>1 DEF JobInv, LedgerOK, Distinct
    <3> QED BY <3>1, <3>2
  <2> QED BY <1>1, <2>3 DEF LedgerOK, Distinct
<1>19. PendingOK'
  <2>1. Available(pending[1])' BY <1>1, <1>3, <1>4 DEF Available
  <2>2. ASSUME NEW w \in own, w # pending[1]
        PROVE  w.run \in ToSet(ledger'[w.attempt])
    <3>1. w.run \in ToSet(ledger[w.attempt]) /\ w.attempt \in 1 .. MaxAttempts
      BY <2>2, JobFacts DEF JobInv, PendingOK, Verified
    <3>2. CASE w.attempt = v.attempt BY <1>8, <1>11, <1>12, <3>1, <3>2
    <3>3. CASE w.attempt # v.attempt BY <1>12, <3>1, <3>3
    <3> QED BY <3>2, <3>3
  <2> QED BY <1>1, <1>3, <1>4, <2>1, <2>2 DEF PendingOK
<1> QED BY <1>14, <1>15, <1>16, <1>17, <1>18, <1>19 DEF JobInv

(* What waited is in the ledger by now. *)
LEMMA DropPendingKeeps ==
  ASSUME CheckInv, JobInv, DropPending
  PROVE  JobInv'
<1>1. /\ task.stage \in {"replayed", "published"} /\ pending' = Tail(pending)
      /\ UNCHANGED <<trees, call, row, ended, ledger, own>>
  BY DEF DropPending, reuseVars, world
<1>2. /\ pending # <<>> /\ pending[1].run \in ToSet(ledger[pending[1].attempt])
  BY <1>1 DEF JobInv, StageOK
<1>3. pending' = <<>> BY <1>1, <1>2, PendingFacts
<1>4. PICK stage \in {"replay", "publish"} : task' = [task EXCEPT !.stage = stage]
  BY DEF DropPending, Stage
<1>5. /\ task' \in [kind : {"idle", "job", "verify"}, stage : Stages, attest : BOOLEAN,
                    force : BOOLEAN, from : Nat, attempt : 0 .. MaxAttempts]
      /\ task'.stage = stage /\ task'.from = task.from
  BY <1>4, TaskStage DEF Stages
<1>6. call.step = "none" BY <1>1, Quiet DEF Checking
<1>7. pending' \in Seq(Verified) /\ Len(pending') <= 1 BY <1>3
<1>8. JobTyped' BY <1>1, <1>5, <1>7 DEF JobInv, JobTyped
<1>9. StageOK' BY <1>1, <1>5, <1>6 DEF JobInv, StageOK, Checking
<1>10. PostOK' BY <1>1, <1>5 DEF JobInv, PostOK
<1>11. OwnOK' /\ LedgerOK' BY <1>1 DEF JobInv, OwnOK, LedgerOK
<1>12. PendingOK' BY <1>1, <1>2, <1>3 DEF JobInv, PendingOK
<1> QED BY <1>8, <1>9, <1>10, <1>11, <1>12 DEF JobInv

LEMMA AssociateKeeps ==
  ASSUME CheckInv, JobInv, Associate
  PROVE  JobInv'
<1>1. /\ task.stage = "replay" /\ pending = <<>>
      /\ UNCHANGED <<trees, call, row, ended, ledger, own, pending>>
  BY DEF Associate, reuseVars, world
<1>2. call.step = "none" BY <1>1, Quiet DEF Checking
<1>3. CASE task' = Idle BY <1>1, <1>2, <1>3, ReleasedRow
<1>4. CASE task' # Idle
  <2>1. /\ row.status \in Terminal
        /\ task' = [task EXCEPT !.stage = "verify", !.attempt = row.attempt]
    BY <1>4 DEF Associate, Terminal
  <2>2. /\ task'.stage = "verify" /\ task'.attempt = row.attempt /\ task'.from = task.from
    BY <2>1 DEF JobInv, JobTyped
  <2>3. JobTyped' BY <1>1, <2>1, JobFacts DEF JobInv, JobTyped, Stages
  <2>4. StageOK' BY <1>1, <1>2, <2>1, <2>2 DEF JobInv, StageOK, Checking
  <2>5. PostOK' BY <1>1, <2>2 DEF JobInv, PostOK
  <2> QED BY <1>1, <2>3, <2>4, <2>5, RecordsKept, SameRow DEF JobInv
<1> QED BY <1>3, <1>4

(* The run's number is new, and its attempt is the one in the row.             *)
LEMMA AppendRunKeeps ==
  ASSUME CheckInv, JobInv, AppendRun
  PROVE  JobInv'
<1>1. PICK v : v = [run |-> Cardinality(own) + 1, attempt |-> task.attempt] OBVIOUS
<1>2. /\ task.stage = "verify" /\ own' = own \cup {v} /\ pending' = Append(pending, v)
      /\ call' = NoCall /\ task' = [task EXCEPT !.stage = "publish"]
      /\ UNCHANGED <<trees, row, ended, ledger>>
  BY <1>1 DEF AppendRun, Stage, world
<1>3. /\ pending = <<>> /\ task.attempt = row.attempt /\ row.status \in Terminal
      /\ row.attempt \in 1 .. MaxAttempts
  BY <1>2, JobFacts DEF JobInv, StageOK, Terminal
<1>4. Cardinality(own) \in Nat BY JobFacts, FS_CardinalityType
<1>5. v \in Verified /\ v.run = Cardinality(own) + 1 /\ v.attempt = row.attempt
  BY <1>1, <1>3, <1>4 DEF Verified
<1>6. /\ \A w \in own : w.run \in 1 .. Cardinality(own)
      /\ \A w, x \in own : w.run = x.run => w = x
  BY DEF JobInv, OwnOK
<1>7. \A w \in own : w.run # v.run BY <1>4, <1>5, <1>6
<1>8. IsFiniteSet(own') /\ Cardinality(own') = Cardinality(own) + 1
  <2>1. v \notin own BY <1>7
  <2> QED BY <1>2, <2>1, JobFacts, FS_AddElement
<1>9. pending' = <<v>> BY <1>2, <1>3
<1>10. /\ task' \in [kind : {"idle", "job", "verify"}, stage : Stages, attest : BOOLEAN,
                     force : BOOLEAN, from : Nat, attempt : 0 .. MaxAttempts]
       /\ task'.stage = "publish" /\ task'.from = task.from
  BY <1>2, TaskStage DEF Stages
<1>11. own' \subseteq Verified BY <1>2, <1>5, JobFacts
<1>12. pending' \in Seq(Verified) /\ Len(pending') <= 1 BY <1>5, <1>9
<1>13. JobTyped' BY <1>2, <1>8, <1>10, <1>11, <1>12 DEF JobInv, JobTyped
<1>14. StageOK' BY <1>2, <1>10 DEF JobInv, StageOK, Checking, NoCall
<1>15. PostOK' BY <1>2, <1>10 DEF JobInv, PostOK
<1>16. OwnOK' BY <1>2, <1>4, <1>5, <1>6, <1>7, <1>8 DEF OwnOK
<1>17. LedgerOK' BY <1>2 DEF JobInv, LedgerOK
<1>18. Available(v)' BY <1>2, <1>3, <1>5 DEF Available, Terminal
<1>19. PendingOK'
  <2>1. \A w \in own : w.run \in ToSet(ledger[w.attempt])
    BY <1>3 DEF JobInv, PendingOK
  <2> QED BY <1>2, <1>9, <1>18, <2>1 DEF PendingOK
<1> QED BY <1>13, <1>14, <1>15, <1>16, <1>17, <1>19 DEF JobInv

LEMMA LetGo ==
  ASSUME CheckInv, JobInv, VerifyRaises \/ VerifyEnds \/ Crash
  PROVE  JobInv'
<1>1. task' = Idle /\ UNCHANGED <<trees, row, ended, ledger, own, pending>>
  BY DEF VerifyRaises, VerifyEnds, Crash, Release, reuseVars, world
<1>2. call'.step = "none"
  BY ReleaseFacts, Quiet DEF VerifyRaises, VerifyEnds, Crash, reuseVars, Checking
<1> QED BY <1>1, <1>2, ReleasedRow

-----------------------------------------------------------------------------
(* Every step. *)

(* Steps of the job leave what the checks know alone, but for the call.        *)
LEMMA TaskStepChecks ==
  ASSUME CheckInv,
         UNCHANGED reuseVars \/
         (call' = NoCall /\ UNCHANGED <<world, intact, runs, entries, failures>>
            /\ faults' \in 0 .. MaxFaults /\ call.step # "settle")
  PROVE  CheckInv'
  BY StutterChecks, NoCallChecks, NotSettling

(* The process dies with its call: what that refuted may not be revoked.       *)
LEMMA CrashChecks == CheckInv /\ Crash => CheckInv'
<1> SUFFICES ASSUME CheckInv, Crash PROVE CheckInv' OBVIOUS
<1>1. /\ call' = NoCall /\ faults' \in 0 .. MaxFaults
      /\ UNCHANGED <<world, intact, runs, entries, refuted>>
  BY CallFacts, EventsAssumption DEF Crash, Release
<1>2. RevokedOK'
  <2>1. CASE call.step = "settle"
    BY <1>1, <2>1, UnsavedFacts DEF Crash, RevokedOK
  <2>2. CASE call.step # "settle"
    BY <1>1, <2>2, NotSettling DEF Crash, failures
  <2> QED BY <2>1, <2>2
<1> QED BY <1>1, <1>2, NoCallChecks

LEMMA NextKeeps ==
  ASSUME VerInv, [Next]_vars
  PROVE  VerInv'
<1>1. CheckInv /\ JobInv BY DEF VerInv
<1>2. ASSUME NEW attest \in BOOLEAN, NEW force \in BOOLEAN,
             StartJob(attest, force) \/ StartVerify(attest, force)
      PROVE  VerInv'
  <2>1. CheckInv' BY <1>1, <1>2, TaskStepChecks DEF StartJob, StartVerify
  <2> QED BY <1>1, <1>2, <2>1, StartJobKeeps, StartVerifyKeeps DEF VerInv
<1>3. CASE CallChecks BY <1>1, <1>3, CallChecksKeeps DEF VerInv
<1>4. CASE CheckStep /\ UNCHANGED taskVars
  BY <1>1, <1>4, CheckStepChecks, CheckStepJob DEF VerInv
<1>5. CASE (Disturb \/ RemoveFromRoot) /\ UNCHANGED taskVars
  BY <1>1, <1>5, DisturbChecks, RemoveFromRootChecks, DisturbJob DEF VerInv
<1>6. CASE Work BY <1>1, <1>6, WorkKeeps DEF VerInv
<1>7. CASE BaselineFails \/ BaselineDone \/ WorkUnchanged \/ WorkFails \/ FinishJob
  <2>0. WorkFails => call.step = "none" BY <1>1, Quiet DEF WorkFails, Checking
  <2>1. CheckInv'
    BY <1>1, <1>7, <2>0, TaskStepChecks, CallFacts
    DEF BaselineFails, BaselineDone, WorkUnchanged, WorkFails, FinishJob, Finish, Release
  <2>2. WorkFails => JobInv' BY <1>1, FinishKeeps DEF WorkFails
  <2> QED BY <1>1, <1>7, <2>1, <2>2, BaselineFailsKeeps, BaselineDoneKeeps,
             WorkUnchangedKeeps, FinishJobKeeps DEF VerInv
<1>8. CASE RecordVerification \/ DropPending \/ Associate \/ AppendRun
  <2>1. RecordVerification \/ DropPending \/ Associate => CheckInv'
    BY <1>1, TaskStepChecks DEF RecordVerification, DropPending, Associate
  <2>2. ASSUME AppendRun PROVE CheckInv'
    <3>1. faults' \in 0 .. MaxFaults BY <1>1, <2>2, CallFacts, EventsAssumption DEF AppendRun
    <3>2. /\ call' = NoCall /\ call.step # "settle"
          /\ UNCHANGED <<world, intact, runs, entries, failures>>
      BY <2>2 DEF AppendRun
    <3> QED BY <1>1, <3>1, <3>2, TaskStepChecks
  <2>3. CheckInv' BY <1>8, <2>1, <2>2
  <2> QED BY <1>1, <1>8, <2>3, RecordVerificationKeeps, DropPendingKeeps,
             AssociateKeeps, AppendRunKeeps DEF VerInv
<1>9. CASE VerifyRaises \/ VerifyEnds \/ Crash
  <2>1. CheckInv'
    <3>1. CASE VerifyRaises
      BY <1>1, <3>1, TaskStepChecks, CallFacts DEF VerifyRaises, Release
    <3>2. CASE VerifyEnds BY <1>1, <3>2, TaskStepChecks DEF VerifyEnds
    <3>3. CASE Crash BY <1>1, <3>3, CrashChecks
    <3> QED BY <1>9, <3>1, <3>2, <3>3
  <2> QED BY <1>1, <1>9, <2>1, LetGo DEF VerInv
<1>10. CASE UNCHANGED vars
  <2>1. UNCHANGED reuseVars BY <1>10 DEF vars
  <2> QED BY <1>1, <1>10, <2>1, StutterChecks, StutterJob DEF VerInv
<1> QED BY <1>2, <1>3, <1>4, <1>5, <1>6, <1>7, <1>8, <1>9, <1>10 DEF Next

(* The invariant holds whatever the checks do, and however often the project,  *)
(* the tools and the evidence change, calls fail and processes die.            *)
THEOREM VerificationInvariant == Spec => []VerInv
<1>1. VerInv /\ [Next]_vars => VerInv' BY NextKeeps
<1> QED BY InitVerification, <1>1, PTL DEF Spec

-----------------------------------------------------------------------------
(* What the runs check. *)

(* The state is what the code stores: at most MaxEntries retained successes,   *)
(* one of each identity, and at most one verification that waits.              *)
THEOREM VerTyped == Spec => []TypeOK
<1>1. ASSUME VerInv PROVE TypeOK
  <2>1. CheckInv /\ JobInv BY <1>1 DEF VerInv
  <2>2. CheckTypeOK
    <3>1. \A m \in DOMAIN trees : trees[m].id \in 1 .. m /\ trees[m].base \in 0 .. m - 1
      BY <2>1, CallFacts, LenProperties DEF CheckInv, TreesOK
    <3> QED BY <2>1, <3>1, CallFacts DEF CheckTypeOK, CheckInv, CheckTyped, CallState, Results
  <2>3. task.from \in 0 .. Len(trees)
    BY <2>1, JobFacts, CallFacts DEF JobInv, PostOK
  <2> QED BY <2>1, <2>2, <2>3, JobFacts DEF TypeOK, Statuses
<1> QED BY <1>1, VerificationInvariant, PTL

(* A success that is returned again was observed on the very tree and tools    *)
(* the identity names, and that tree was there once more after the evidence    *)
(* had been validated (check_reuse._find_entry, _rows_from_entry, _publish) -  *)
(* but for the tools, or a file in the tree's root, that came and went during  *)
(* the one execution, which the identity cannot show.                          *)
THEOREM ReuseTrue == Spec => []ReuseIsTrue
<1>1. ASSUME VerInv PROVE ReuseIsTrue
  <2> SUFFICES ASSUME call.reused
               PROVE  /\ \E m \in call.looked .. Len(trees) : trees[m].id = call.key.tree
                      /\ \E e \in Found :
                            \/ Unnoticed(e)
                            \/ /\ \A m \in e.seen : trees[m].id = call.key.tree
                               /\ Good(trees[call.key.tree].does[call.key.tools])
    BY DEF ReuseIsTrue
  <2>1. CheckInv BY <1>1 DEF VerInv
  <2>2. PICK e \in entries : e.key = call.key BY <2>1 DEF CheckInv
  <2>3. EntryOK(e) /\ e \in Found BY <2>1, <2>2 DEF CheckInv, Found
  <2>4. \E f \in Found : \/ Unnoticed(f)
                         \/ /\ \A m \in f.seen : trees[m].id = call.key.tree
                            /\ Good(trees[call.key.tree].does[call.key.tools])
    BY <2>2, <2>3 DEF EntryOK
  <2>5. Since(call.looked, call.key.tree) BY <2>1, CallFacts DEF StepOK
  <2>6. PICK m \in 1 .. Len(trees) : m >= call.looked /\ trees[m].id = call.key.tree
    BY <2>5 DEF Since
  <2>7. m \in call.looked .. Len(trees) BY <2>1, <2>6, CallFacts DEF CallState
  <2> QED BY <2>4, <2>6, <2>7
<1> QED BY <1>1, VerificationInvariant, PTL

(* A success is not returned again after a failure of the same inputs, or of   *)
(* inputs that could not be identified (check_reuse._invalidate), unless the   *)
(* process died, or could not save the copy's record, before that.             *)
THEOREM FailuresRevoke == Spec => []FailureRevokes
<1>1. ASSUME VerInv PROVE FailureRevokes
  <2> SUFFICES ASSUME call.step = "done", call.reused PROVE call.key \notin refuted \ lost
    BY DEF FailureRevokes
  <2>1. CheckInv BY <1>1 DEF VerInv
  <2>2. PICK e \in entries : e.key = call.key BY <2>1 DEF CheckInv
  <2> QED BY <2>1, <2>2 DEF CheckInv, RevokedOK, Revoking
<1> QED BY <1>1, VerificationInvariant, PTL

LEMMA OnceInLedger ==
  ASSUME JobInv, NEW v \in own, NEW a \in 1 .. MaxAttempts,
         NEW S, S = {i \in DOMAIN ledger[a] : ledger[a][i] = v.run}
  PROVE  Cardinality(S) <= IF a = v.attempt THEN 1 ELSE 0
<1>1. ledger[a] \in Seq(Nat) /\ DOMAIN ledger[a] = 1 .. Len(ledger[a])
  BY JobFacts, LenProperties
<1>2. \A i, j \in S : i = j BY <1>1 DEF JobInv, LedgerOK, Distinct
<1>3. S # {} => a = v.attempt
  <2> SUFFICES ASSUME NEW i \in S PROVE a = v.attempt OBVIOUS
  <2>1. PICK w \in own : w.run = ledger[a][i] /\ w.attempt = a
    BY <1>1 DEF JobInv, LedgerOK
  <2> QED BY <2>1 DEF JobInv, OwnOK
<1>4. CASE S = {}
  <2>1. Cardinality(S) = 0 BY <1>4, FS_EmptySet
  <2> QED BY <2>1
<1>5. CASE S # {}
  <2>1. PICK i \in S : TRUE BY <1>5
  <2>2. S = {i} BY <1>2, <2>1
  <2>3. Cardinality(S) = 1 BY <2>2, FS_Singleton
  <2> QED BY <1>3, <1>5, <2>3
<1> QED BY <1>4, <1>5

(* Every verification is in the ledger once, under its own attempt, or waits   *)
(* and can still be published, whoever died in between                         *)
(* (workspace._publish_verifications, coordination.record_verification).       *)
THEOREM VerificationsKept == Spec => []VerificationKept
<1>1. ASSUME VerInv PROVE VerificationKept
  <2>1. JobInv BY <1>1 DEF VerInv
  <2>2. pending # <<>> => ToSet(pending) = {pending[1]}
    <3> SUFFICES ASSUME pending # <<>> PROVE ToSet(pending) = {pending[1]} OBVIOUS
    <3>1. Len(pending) = 1 BY <2>1, PendingFacts
    <3>2. DOMAIN pending = {1} BY <2>1, <3>1, JobFacts
    <3> QED BY <3>2 DEF ToSet
  <2>3. pending = <<>> => ToSet(pending) = {} BY DEF ToSet
  <2>4. ASSUME NEW v \in own
        PROVE  v \in ToSet(pending) \/ v.run \in ToSet(ledger[v.attempt])
    BY <2>1, <2>2 DEF JobInv, PendingOK
  <2>5. DOMAIN ledger = 1 .. MaxAttempts BY <2>1, JobFacts
  <2>6. ASSUME NEW v \in own, NEW a \in DOMAIN ledger
        PROVE  Cardinality({i \in DOMAIN ledger[a] : ledger[a][i] = v.run})
                 <= IF a = v.attempt THEN 1 ELSE 0
    <3>1. PICK S : S = {i \in DOMAIN ledger[a] : ledger[a][i] = v.run} OBVIOUS
    <3> QED BY <2>1, <2>5, <3>1, OnceInLedger
  <2>7. \A v \in ToSet(pending) : Available(v)
    BY <2>1, <2>2, <2>3 DEF JobInv, PendingOK
  <2> QED BY <2>4, <2>6, <2>7 DEF VerificationKept
<1> QED BY <1>1, VerificationInvariant, PTL

(* An attempt succeeds by checks that all passed, on the tree its worker left  *)
(* or a later one (managed.run, coordination.assignment_finished).             *)
LEMMA SuccessStep ==
  ASSUME VerInv, Next, row'.status = "succeeded", row.status # "succeeded"
  PROVE  IF call.reused
           THEN \E m \in task.from .. Len(trees) : trees[m].id = call.key.tree
           ELSE /\ Len(call.rows) = Checks
                /\ \A v \in call.seen : v >= task.from
<1>1. CheckInv /\ JobInv BY DEF VerInv
<1>2. FinishJob
  <2>1. CASE UNCHANGED row BY <2>1
  <2>2. CASE BaselineFails BY <2>2 DEF BaselineFails
  <2>3. CASE BaselineDone BY <2>3 DEF BaselineDone
  <2>4. CASE WorkFails
    <3>1. row' = [row EXCEPT !.status = "failed"] BY <2>4 DEF WorkFails, Finish
    <3>2. row \in [status : Statuses, attempt : 0 .. MaxAttempts]
      BY <1>1 DEF JobInv, JobTyped
    <3> QED BY <3>1, <3>2
  <2>5. ASSUME NEW attest, NEW force,
               StartJob(attest, force) \/ StartVerify(attest, force)
        PROVE  UNCHANGED row
    BY <2>5 DEF StartJob, StartVerify
  <2>6. CallChecks \/ UNCHANGED taskVars => UNCHANGED row BY DEF CallChecks, taskVars
  <2>7. Work \/ WorkUnchanged => UNCHANGED row BY DEF Work, WorkUnchanged
  <2>8. RecordVerification \/ DropPending \/ Associate \/ AppendRun => UNCHANGED row
    BY DEF RecordVerification, DropPending, Associate, AppendRun
  <2>9. VerifyRaises \/ VerifyEnds \/ Crash => UNCHANGED row
    BY DEF VerifyRaises, VerifyEnds, Crash
  <2> QED BY <2>1, <2>2, <2>3, <2>4, <2>5, <2>6, <2>7, <2>8, <2>9 DEF Next
<1>3. task.stage = "post" /\ call.step = "done" /\ Passed
  BY <1>1, <1>2, JobFacts DEF FinishJob, Finish
<1>4. CASE call.reused
  <2>1. Since(task.from, call.key.tree)
    BY <1>1, <1>3, <1>4, CallFacts DEF StepOK, JobInv, PostOK
  <2>2. PICK m \in 1 .. Len(trees) : m >= task.from /\ trees[m].id = call.key.tree
    BY <2>1 DEF Since
  <2>3. m \in task.from .. Len(trees) BY <1>1, <2>2, JobFacts, CallFacts
  <2> QED BY <1>4, <2>2, <2>3
<1>5. CASE ~call.reused
  <2>1. Ended(call.rows) /\ Len(call.rows) <= Checks BY <1>1, <1>3, <1>5, CallFacts DEF StepOK
  <2>2. call.rows \in Seq(Results) /\ call.rows # <<>> BY <1>1, <2>1, CallFacts DEF Ended, CallState
  <2>3. Len(call.rows) \in DOMAIN call.rows BY <2>2, EmptySeq, LenProperties
  <2>4. Last(call.rows) = "ok" BY <1>3, <2>3 DEF Passed, Good, Last
  <2>5. Len(call.rows) = Checks BY <2>1, <2>4 DEF Ended
  <2> QED BY <1>1, <1>3, <1>5, <2>5 DEF JobInv, PostOK
<1> QED BY <1>4, <1>5

THEOREM SuccessOfResult == Spec => SuccessIsOfTheResult
<1>1. VerInv /\ [Next]_vars =>
        [row'.status = "succeeded" /\ row.status # "succeeded" =>
           IF call.reused
             THEN \E m \in task.from .. Len(trees) : trees[m].id = call.key.tree
             ELSE /\ Len(call.rows) = Checks
                  /\ \A m \in call.seen : m >= task.from]_vars
  BY SuccessStep
<1> QED BY <1>1, VerificationInvariant, PTL DEF Spec, SuccessIsOfTheResult

=============================================================================
