------------------------------ MODULE CheckReuse ------------------------------
(* One call of check_reuse.run_checks on a copy, check_reuse.py and             *)
(* check_evidence.py: declared checks are executed in order, or a retained      *)
(* success of exactly the same inputs is returned instead.  The caller holds    *)
(* the copy's lock; the project tree, the tools and the evidence files are      *)
(* changed by others at any time.                                               *)
(*                                                                              *)
(* The identity of a tree holds modification and change times of all but its    *)
(* root: an edit gives a new identity for good, but a file put directly into    *)
(* the root and removed again leaves the one from before.  Tools are identified *)
(* by their content alone, and may be replaced and put back.                    *)
EXTENDS Integers, Sequences, SequencesExt, FiniteSets

CONSTANTS
    Checks,      \* how many checks are declared
    Outcomes,    \* what they do on a tree, under each tools
    MaxEntries,  \* MAX_CACHE_ENTRIES
    MaxEvents,   \* changes of tree, tools or evidence, not counting removals
    MaxRuns,     \* calls
    MaxFaults    \* saves that fail, checks that cannot run, crashes

Tools == {0, 1}

ASSUME OutcomesAssumption ==
    /\ Checks \in Nat \ {0}
    /\ Outcomes \subseteq [Tools -> [1 .. Checks -> {"ok", "bad"}]]
ASSUME EntriesAssumption == MaxEntries \in Nat \ {0}
ASSUME EventsAssumption == MaxEvents \in Nat /\ MaxRuns \in Nat /\ MaxFaults \in Nat

VARIABLES
    trees,     \* the trees that have been there, moment by moment; the last is
    tools,
    events,
    intact,    \* calls whose evidence files are as they were written
    runs,      \* calls so far, each with evidence of its own
    entries,   \* retained successes, each with the call it was made by
    call,      \* the call that is going on
    refuted,   \* identities whose last observation failed: history
    lost,      \* those of them whose revocation was cut off: history
    faults

world == <<trees, tools, events>>
failures == <<refuted, lost>>
reuseVars == <<world, intact, runs, entries, call, failures, faults>>

Unattested == [tree |-> 0, tools |-> 0]
Steps == {"none", "identify", "lookup", "confirm", "again", "execute", "settle",
          "done", "raised"}

(* late: the shared deadline has passed.  The rest is history: the moments     *)
(* when checks were executed, changes of tools and returns of an earlier tree  *)
(* since the identity was taken, and the moment the evidence was validated.    *)
NoCall == [step |-> "none", attest |-> FALSE, force |-> FALSE, late |-> FALSE,
           key |-> Unattested, rows |-> <<>>, ev |-> 0, reused |-> FALSE,
           seen |-> {}, swaps |-> 0, returns |-> 0, looked |-> 0]

Go(step) == call' = [call EXCEPT !.step = step]

-----------------------------------------------------------------------------
(* Identity, entries, evidence. *)

Tree == Last(trees)
Now == [tree |-> Tree.id, tools |-> tools]

(* _identity: links, special files, races and bounds make it unknown. *)
Identities == {Now, Unattested}

(* _find_entry: the newest valid one of this identity. *)
Found == {e \in entries : e.key = call.key}

(* _rows_from_entry: the evidence files are there, and what they were. *)
Usable == \E e \in Found : e.ev \in intact

(* _complete_success *)
Good(o) == \A i \in DOMAIN o : o[i] = "ok"
Success == Good(call.rows) /\ Len(call.rows) = Checks
Bad(rows) == \E i \in DOMAIN rows : rows[i] # "ok"

(* _publish replaces the entry of the same identity and keeps the newest ones. *)
(* Mistake: it keeps all.                                                      *)
Entry == [key |-> call.key, ev |-> call.ev, seen |-> call.seen,
          swaps |-> call.swaps, returns |-> call.returns]
Others == entries \ Found
Oldest(S) == {e \in S : \A f \in S : e.ev <= f.ev}
PublishedAll == Others \cup {Entry}
Published ==
    LET all == Others \cup {Entry}
    IN IF Cardinality(all) <= MaxEntries THEN all ELSE all \ Oldest(all)

(* _invalidate: an unknown identity revokes every retained success.            *)
(* Mistake: it revokes none.                                                   *)
RemainingAll == Others
Remaining == IF call.key = Unattested THEN {} ELSE Others

-----------------------------------------------------------------------------
(* reusable attests that the checks are deterministic and local.               *)
Call(attest, force, late) ==
    /\ runs < MaxRuns
    /\ runs' = runs + 1
    /\ call' = [NoCall EXCEPT !.step = IF late THEN "execute" ELSE "identify",
                              !.attest = attest, !.force = force, !.late = late,
                              !.ev = runs + 1]
    /\ UNCHANGED <<world, intact, entries, failures, faults>>

Expire ==
    /\ call.step \notin {"none", "done", "raised"} /\ ~call.late
    /\ call' = [call EXCEPT !.late = TRUE]
    /\ UNCHANGED <<world, intact, runs, entries, failures, faults>>

Identify ==
    /\ call.step = "identify"
    /\ \E key \in Identities :
         call' = [call EXCEPT !.key = key, !.swaps = 0, !.returns = 0, !.step =
             IF key # Unattested /\ call.attest /\ ~call.force /\ ~call.late
               THEN "lookup" ELSE "execute"]
    /\ UNCHANGED <<world, intact, runs, entries, failures, faults>>

Lookup ==
    /\ call.step = "lookup"
    /\ IF Usable /\ ~call.late
         THEN call' = [call EXCEPT !.step = "confirm", !.looked = Len(trees)]
         ELSE Go("execute")
    /\ UNCHANGED <<world, intact, runs, entries, failures, faults>>

(* The identity once more.  Mistake: it is not looked at. *)
UnchangedAssumed == {TRUE}
Unchanged == {key = call.key : key \in Identities}

Confirm ==
    /\ call.step = "confirm"
    /\ \E same \in Unchanged : Go(IF same /\ ~call.late THEN "again" ELSE "execute")
    /\ UNCHANGED <<world, intact, runs, entries, failures, faults>>

(* The evidence once more; the original rows are returned. *)
Hit ==
    /\ call.step = "again"
    /\ \/ \E e \in Found :
             /\ e.ev \in intact /\ ~call.late
             /\ call' = [call EXCEPT !.step = "done", !.reused = TRUE, !.ev = e.ev,
                                     !.rows = [i \in 1 .. Checks |-> "ok"]]
       \/ ~(Usable /\ ~call.late) /\ Go("execute")
    /\ UNCHANGED <<world, intact, runs, entries, failures, faults>>

(* check_evidence.run_checks executes the commands up to the first failure,    *)
(* which refutes what was retained of these inputs, or of any if they are      *)
(* unknown.                                                                    *)
Ended(rows) == rows # <<>> /\ (Last(rows) # "ok" \/ Len(rows) = Checks)
Refuted == IF call.key = Unattested THEN {e.key : e \in entries} ELSE {call.key}

Ran(result) ==
    LET rows == Append(call.rows, result)
    IN /\ call' = [call EXCEPT !.rows = rows, !.seen = @ \cup {Len(trees)},
                       !.step = IF Ended(rows) THEN "settle" ELSE @]
       /\ IF result = "ok" THEN UNCHANGED failures
          ELSE refuted' = refuted \cup Refuted /\ lost' = lost \ Refuted

Execute ==
    /\ call.step = "execute"
    /\ ~call.late
    /\ Ran(Tree.does[tools][Len(call.rows) + 1])
    /\ intact' = intact \cup {call.ev}
    /\ UNCHANGED <<world, runs, entries, faults>>

(* Killed at its own limit or launched in vain. *)
CannotRun ==
    /\ call.step = "execute" /\ ~call.late /\ faults < MaxFaults
    /\ faults' = faults + 1
    /\ Ran("environment")
    /\ UNCHANGED <<world, intact, runs, entries>>

(* Nothing is left of the shared deadline. *)
TooLate ==
    /\ call.step = "execute" /\ call.late
    /\ Ran("environment")
    /\ UNCHANGED <<world, intact, runs, entries, faults>>

(* Evidence that cannot be stored: CheckEvidenceError after _invalidate, which *)
(* the same full disk may keep from being saved.                               *)
EvidenceFails ==
    /\ call.step = "execute" /\ ~call.late /\ faults < MaxFaults
    /\ faults' = faults + 1
    /\ refuted' = refuted \cup Refuted
    /\ \/ entries' = Remaining /\ lost' = lost \ Refuted
       \/ UNCHANGED entries /\ lost' = lost \cup Refuted
    /\ Go("raised")
    /\ UNCHANGED <<world, intact, runs>>

(* A call that ends without its save: what was retained before stays.          *)
Unsaved == lost' = lost \cup (IF Bad(call.rows) THEN Refuted ELSE {})

(* A complete success under an unchanged identity is retained; any other end   *)
(* of an attested or forced call, and every failure, revokes.                  *)
Settle ==
    /\ call.step = "settle"
    /\ \E same \in Unchanged :
         LET keep == /\ call.attest /\ Success
                     /\ call.key # Unattested /\ same
             revoke == ~Success \/ (call.key # Unattested /\ (call.attest \/ call.force))
         IN /\ entries' = CASE keep -> Published
                            [] ~keep /\ revoke -> Remaining
                            [] OTHER -> entries
            /\ refuted' = IF keep THEN refuted \ {call.key} ELSE refuted
            /\ lost' = IF keep THEN lost \ {call.key} ELSE lost
    /\ Go("done")
    /\ UNCHANGED <<world, intact, runs, faults>>

(* copy.save() fails: the record is what it was. *)
SettleUnsaved ==
    /\ call.step = "settle" /\ faults < MaxFaults
    /\ faults' = faults + 1
    /\ Unsaved
    /\ Go("done")
    /\ UNCHANGED <<world, intact, runs, entries, refuted>>

CheckStep ==
    \/ Identify \/ Lookup \/ Confirm \/ Hit \/ Execute \/ CannotRun \/ TooLate
    \/ EvidenceFails \/ Settle \/ SettleUnsaved \/ Expire

-----------------------------------------------------------------------------
(* The world: somebody edits the tree, replaces tools or evidence. *)

(* Every edit is one that can be undone, a file put into the root; one that is *)
(* for good is an edit that is not undone.                                     *)
Edit(o) ==
    /\ trees' = Append(trees, [id |-> Len(trees) + 1, does |-> o, base |-> Len(trees)])
    /\ UNCHANGED <<tools, intact, runs, entries, call, failures, faults>>

(* The file is removed: the tree is the one it was added to, and no time that  *)
(* the identity holds has changed.                                             *)
RemoveFromRoot ==
    /\ Tree.base # 0
    /\ trees' = Append(trees, trees[Tree.base])
    /\ call' = [call EXCEPT !.returns = IF call.step = "none" THEN 0 ELSE @ + 1]
    /\ UNCHANGED <<tools, events, intact, runs, entries, failures, faults>>

Disturb ==
    /\ events < MaxEvents
    /\ events' = events + 1
    /\ \/ \E o \in Outcomes : Edit(o)
       \/ /\ tools' = 1 - tools
          /\ call' = [call EXCEPT !.swaps = IF call.step = "none" THEN 0 ELSE @ + 1]
          /\ UNCHANGED <<trees, intact, runs, entries, failures, faults>>
       \/ /\ \E ev \in intact : intact' = intact \ {ev}
          /\ UNCHANGED <<trees, tools, runs, entries, call, failures, faults>>

CheckInit ==
    /\ \E o \in Outcomes : trees = <<[id |-> 1, does |-> o, base |-> 0]>>
    /\ tools = 0 /\ events = 0
    /\ intact = {} /\ runs = 0 /\ entries = {}
    /\ call = NoCall /\ refuted = {} /\ lost = {} /\ faults = 0

-----------------------------------------------------------------------------
(* Properties. *)

CheckTypeOK ==
    /\ \A m \in DOMAIN trees : trees[m].id \in 1 .. m /\ trees[m].base \in 0 .. m - 1
    /\ tools \in Tools
    /\ events \in 0 .. MaxEvents /\ faults \in 0 .. MaxFaults
    /\ runs \in 0 .. MaxRuns /\ intact \subseteq 1 .. runs
    /\ Cardinality(entries) <= MaxEntries
    /\ \A e, f \in entries : e.key = f.key => e = f
    /\ call.step \in Steps /\ call.rows \in Seq({"ok", "bad", "environment"})
    /\ call.late \in BOOLEAN

(* A returned success is true: it was observed, from its first command to its  *)
(* last, on the very tree and tools the identity names, and that tree was      *)
(* there once more after the evidence had been validated.  Exempted is what no *)
(* identity can show, that during the one execution tools were replaced and    *)
(* put back, or a file was put into the root and removed.                      *)
Unnoticed(e) == e.swaps > 1 \/ e.returns > 0

ReuseIsTrue ==
    call.step = "done" /\ call.reused =>
        /\ \E m \in call.looked .. Len(trees) : trees[m].id = call.key.tree
        /\ \E e \in Found :
              \/ Unnoticed(e)
              \/ /\ \A m \in e.seen : trees[m].id = call.key.tree
                 /\ Good(trees[call.key.tree].does[call.key.tools])

(* A success is not returned again after a failed, expired or impossible check *)
(* of the same inputs, or of inputs that could not be identified, unless a new *)
(* success was observed since - or the process died or could not write the     *)
(* copy's record before the failure had revoked it.                            *)
FailureRevokes == call.step = "done" /\ call.reused => call.key \notin refuted \ lost

(* What the documentation of run_checks says, that a fresh failed observation  *)
(* invalidates a matching retained success, without the exemption.  It does    *)
(* not hold: the failure is returned and nothing of it is kept.                *)
EveryFailureRevokes == call.step = "done" /\ call.reused => call.key \notin refuted
=============================================================================
