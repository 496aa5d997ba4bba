--------------------------- MODULE PreparationProofs ---------------------------
(* What the runs check of preparations and their recipes on a small instance,  *)
(* proved for any commands, sources, limits and number of calls: what a recipe *)
(* names is in the cache, nobody takes it away but for a reason, and a         *)
(* recorded failure refuses only what would fail again.                        *)
(*                                                                             *)
(* The cache keeps its invariant, CacheInv, under the steps preparations make  *)
(* of it; the rest of the invariant is about one command at a time, Local, and *)
(* stays true of a command that does nothing because the world only ages.      *)
EXTENDS Preparation, ToolchainCacheProofs

PrepState == [step : PrepSteps, kind : {"prepare", "job"}, want : SUBSET Digests,
              todo : SUBSET Digests, copy : 0 .. MaxCalls,
              fp : Fingerprints \cup {Unknown}, met : [Digests -> Nat],
              seen : Recipes \cup {None}, category : {"none", "materialization", "probe"}]

Failures == [fp : Fingerprints, category : {"materialization", "probe"},
             by : 1 .. MaxCalls]

Statuses == {"none", "ready", "running", "failed", "succeeded", "executing"}

PrepTyped ==
    /\ prep \in [Procs -> PrepState] /\ calls \in 0 .. MaxCalls
    /\ here \subseteq Digests /\ runtime \in Nat
    /\ birth \in [Digests -> Nat \ {0}] /\ laid \in [Digests -> Nat \ {0}]
    /\ values \in [head : Values, settings : Values]
    /\ under \in [1 .. MaxCalls -> Nat] /\ recipe \in Recipes \cup {None}
    /\ saved \in Nat /\ lacked \in BOOLEAN /\ records \subseteq Failures
    /\ status \in [1 .. MaxCalls -> Statuses]

-----------------------------------------------------------------------------
(* The inductive invariant. *)

(* Nothing a fingerprint names is of the future. *)
Past(fp) ==
    /\ fp.runtime <= runtime
    /\ fp.recipe # None => fp.recipe.at <= saved
    /\ \A s \in Digests : fp.ids[s] <= Incarnation(fp.kind, s)

(* Why a failure to find a source will come again under the same conditions,   *)
(* or would if no file had been out of reach for a while.                      *)
Gone(fp) ==
    LET looked == IF fp.kind = "job" THEN Entries(fp.recipe) ELSE fp.want
    IN \/ fp.kind = "job" /\ (fp.recipe = None \/ recipe # fp.recipe)
       \/ fp.kind # "job" /\ looked \cap back # {}
       \/ \E s \in looked : ~Found(fp.kind, s) \/ fp.ids[s] < Incarnation(fp.kind, s)

Justified(fp, category, copy) ==
    IF category = "probe" THEN fp.runtime <= under[copy] ELSE Gone(fp)

RecordsTrue ==
    /\ \A r \in records : Past(r.fp) /\ Justified(r.fp, r.category, r.by)
    /\ \A c \in 1 .. MaxCalls : under[c] <= runtime

(* What is known of a source that was looked at. *)
Met(c, s) ==
    /\ c.fp.ids[s] # 0 => c.met[s] = c.fp.ids[s]
    /\ c.fp.ids[s] = 0 /\ Found(c.kind, s)
         => c.met[s] < Incarnation(c.kind, s) \/ (c.kind # "job" /\ s \in back)
    /\ c.met[s] <= Incarnation(c.kind, s)

Looked(c) == IF c.kind = "job" THEN Entries(c.seen) ELSE c.want

Observing(c) ==
    /\ c.fp # Unknown => Past(c.fp) /\ c.fp.kind = c.kind /\ c.fp.want = c.want
    /\ c.step = "observe" =>
          /\ c.todo # {} => c.fp # Unknown
          /\ c.fp # Unknown => /\ c.seen = c.fp.recipe
                               /\ \A s \in Looked(c) \ c.todo : Met(c, s)

Preparing == {"validate", "reserve", "copy", "save", "saving", "finish"}
Replaying == {"look", "safe", "invalidate", "pick", "fetch"}

(* The recipe that is replayed, if another than was observed, is a later one.  *)
Replay(c) ==
    /\ c.seen # None => c.seen.at <= saved
    /\ c.step \in Preparing => c.kind = "prepare"
    /\ c.step \in Replaying \cup {"read", "probe"} => c.kind = "job"
    /\ c.step = "validate" => c.todo \subseteq c.want
    /\ c.step \in Replaying =>
          /\ c.seen # None /\ c.todo \subseteq Entries(c.seen)
          /\ c.fp # Unknown /\ c.fp.recipe # None /\ c.seen # c.fp.recipe
               => recipe # c.fp.recipe
    /\ c.step = "look" => c.todo = Entries(c.seen)
    /\ c.step \in {"safe", "invalidate"} /\ recipe = c.seen => lacked

Failing(c) ==
    c.step = "remember" =>
       /\ c.category # "none"
       /\ c.fp # Unknown => Justified(c.fp, c.category, c.copy)

(* Whose copy it is. *)
Owned(c) ==
    /\ c.step # "idle" => c.copy \in 1 .. calls
    /\ c.step = "clear" /\ c.kind = "prepare" => status[c.copy] = "succeeded"

Local(c) == Observing(c) /\ Replay(c) /\ Failing(c) /\ Owned(c)

OneEach ==
    \A p, q \in Procs :
        p # q /\ prep[p].step # "idle" /\ prep[q].step # "idle"
          => prep[p].copy # prep[q].copy

(* What each command has asked of the cache, and why. *)
Linked(c, o) ==
    /\ o.step # "idle" => \/ o.kind = "save" /\ c.step = "saving"
                          \/ o.kind = "read" /\ c.step = "fetch"
                          \/ o.kind = "collect" /\ c.step = "idle"
    /\ o.step = "idle" => c.step \notin {"saving", "fetch"}
    /\ o.step = "reading" => o.kind = "read"
    /\ o.kind = "read" => o.step \in {"idle", "wait", "reading"}

(* A save keeps what the recipe has, and removes only what it brought.         *)
SafeSave(o) ==
    o.kind = "save" =>
       /\ o.step \in {"stage", "room", "purge"} => Entries(recipe) \cap Valid \subseteq o.kept
       /\ o.step \in {"undo", "unmanifest"} => o.todo \subseteq o.fresh
       /\ o.step = "unmanifest" => o.at \in o.fresh

LackedOK == recipe # None /\ ~lacked => Entries(recipe) \subseteq entry

PrepInv ==
    /\ CacheInv /\ PrepTyped
    /\ recipe # None => recipe.at <= saved
    /\ RecordsTrue /\ LackedOK /\ OneEach
    /\ \A p \in Procs : Local(prep[p]) /\ Linked(prep[p], op[p]) /\ SafeSave(op[p])

-----------------------------------------------------------------------------
(* The world ages: what was seen does not come back, but for files that were   *)
(* out of reach, and values.                                                   *)

LEMMA Known ==
  ASSUME NEW fp \in Fingerprints
  PROVE  /\ fp.kind \in {"prepare", "job"} /\ fp.want \subseteq Digests
         /\ fp.recipe \in Recipes \cup {None} /\ fp.runtime \in Nat
         /\ fp.ids \in [Digests -> Nat]
BY DEF Fingerprints

LEMMA EntriesTyped ==
  ASSUME NEW r \in Recipes \cup {None}
  PROVE  Entries(r) \subseteq Digests
BY DEF Entries, Recipes

LEMMA Parts ==
  ASSUME NEW c \in PrepState
  PROVE  /\ c.step \in PrepSteps /\ c.kind \in {"prepare", "job"}
         /\ c.want \subseteq Digests /\ c.todo \subseteq Digests
         /\ c.copy \in 0 .. MaxCalls /\ c.fp \in Fingerprints \cup {Unknown}
         /\ c.met \in [Digests -> Nat] /\ c.seen \in Recipes \cup {None}
         /\ c.category \in {"none", "materialization", "probe"}
BY DEF PrepState

(* What every step of the system does to the world. *)
Aging ==
    /\ \A s \in Digests : /\ birth[s] <= birth'[s]
                          /\ s \in here' \ here => birth[s] < birth'[s] \/ s \in back'
                          /\ laid[s] <= laid'[s]
                          /\ s \in entry' \ entry => laid[s] < laid'[s]
    /\ runtime <= runtime' /\ saved <= saved' /\ back \subseteq back'
    /\ \A c \in 1 .. MaxCalls : under[c] <= under'[c]
    /\ recipe' \in {recipe, None} \/ saved < recipe'.at
    /\ recipe' = recipe /\ lacked => lacked'

(* All of it in numbers. *)
Numbers == /\ runtime \in Nat /\ saved \in Nat
           /\ birth \in [Digests -> Nat \ {0}] /\ laid \in [Digests -> Nat \ {0}]
           /\ under \in [1 .. MaxCalls -> Nat]

LEMMA IncarnationAges ==
  ASSUME Numbers, Numbers', Aging, NEW s \in Digests, NEW kind
  PROVE  /\ Incarnation(kind, s) \in Nat \ {0} /\ Incarnation(kind, s)' \in Nat \ {0}
         /\ Incarnation(kind, s) <= Incarnation(kind, s)'
         /\ ~Found(kind, s) /\ Found(kind, s)'
              => \/ Incarnation(kind, s) < Incarnation(kind, s)'
                 \/ kind # "job" /\ s \in back'
BY DEF Numbers, Aging, Incarnation, Found

LEMMA PastStays ==
  ASSUME Numbers, Numbers', Aging, NEW fp \in Fingerprints, Past(fp)
  PROVE  Past(fp)'
<1>1. fp.runtime \in Nat /\ fp.ids \in [Digests -> Nat] BY Known
<1>2. fp.runtime <= runtime' BY <1>1 DEF Past, Numbers, Aging
<1>3. fp.recipe # None => fp.recipe.at \in Nat BY Known DEF Recipes
<1>4. fp.recipe # None => fp.recipe.at <= saved' BY <1>3 DEF Past, Numbers, Aging
<1>5. ASSUME NEW s \in Digests PROVE fp.ids[s] <= Incarnation(fp.kind, s)'
  BY <1>1, IncarnationAges DEF Past
<1>6. QED BY <1>2, <1>4, <1>5 DEF Past

(* A recipe that is not in force does not come back. *)
LEMMA NeverBack ==
  ASSUME Numbers, Aging, NEW r \in Recipes, r.at <= saved, recipe # r
  PROVE  recipe' # r
<1>1. r.at \in Nat /\ r # None BY RecipeAssumption DEF Recipes
<1>2. recipe' \in {recipe, None} \/ saved < recipe'.at BY DEF Aging
<1>3. saved < recipe'.at => recipe' # r BY <1>1 DEF Numbers
<1>4. QED BY <1>1, <1>2, <1>3

LEMMA GoneStays ==
  ASSUME Numbers, Numbers', Aging, NEW fp \in Fingerprints, Past(fp), Gone(fp)
  PROVE  Gone(fp)'
<1>1. fp.ids \in [Digests -> Nat] /\ fp.want \subseteq Digests /\ Entries(fp.recipe) \subseteq Digests
      /\ fp.recipe \in Recipes \cup {None}
  BY Known, EntriesTyped
<1> DEFINE looked == IF fp.kind = "job" THEN Entries(fp.recipe) ELSE fp.want
<1>2. CASE fp.kind = "job" /\ (fp.recipe = None \/ recipe # fp.recipe)
  BY <1>1, <1>2, NeverBack DEF Gone, Past
<1>3. CASE \E s \in looked : ~Found(fp.kind, s) \/ fp.ids[s] < Incarnation(fp.kind, s)
  <2>1. PICK s \in looked : ~Found(fp.kind, s) \/ fp.ids[s] < Incarnation(fp.kind, s) BY <1>3
  <2>2. s \in Digests BY <1>1
  <2>3. fp.ids[s] \in Nat /\ fp.ids[s] <= Incarnation(fp.kind, s) BY <1>1, <2>2 DEF Past
  <2>4. \/ fp.kind # "job" /\ s \in back'
        \/ ~Found(fp.kind, s)' \/ fp.ids[s] < Incarnation(fp.kind, s)'
    BY <2>1, <2>2, <2>3, IncarnationAges
  <2>5. QED BY <2>1, <2>4 DEF Gone
<1>4. CASE fp.kind # "job" /\ looked \cap back # {}
  <2>1. PICK s \in looked : s \in back BY <1>4
  <2>2. s \in back' BY <2>1 DEF Aging
  <2>3. QED BY <1>4, <2>1, <2>2 DEF Gone
<1>5. \/ fp.kind = "job" /\ (fp.recipe = None \/ recipe # fp.recipe)
      \/ fp.kind # "job" /\ looked \cap back # {}
      \/ \E s \in looked : ~Found(fp.kind, s) \/ fp.ids[s] < Incarnation(fp.kind, s)
  BY DEF Gone
<1>6. QED BY <1>2, <1>3, <1>4, <1>5

LEMMA JustifiedStays ==
  ASSUME Numbers, Numbers', Aging, NEW fp \in Fingerprints, Past(fp),
         NEW category, NEW copy \in 1 .. MaxCalls, Justified(fp, category, copy)
  PROVE  Justified(fp, category, copy)'
<1>1. fp.runtime \in Nat BY Known
<1>2. CASE category = "probe"
  <2>1. under[copy] \in Nat /\ under'[copy] \in Nat BY DEF Numbers
  <2>2. under[copy] <= under'[copy] BY DEF Aging
  <2>3. fp.runtime <= under[copy] BY <1>2 DEF Justified
  <2>4. fp.runtime <= under'[copy] BY <1>1, <2>1, <2>2, <2>3
  <2>5. QED BY <1>2, <2>4 DEF Justified
<1>3. CASE category # "probe" BY <1>3, GoneStays DEF Justified
<1>4. QED BY <1>2, <1>3

LEMMA MetStays ==
  ASSUME Numbers, Numbers', Aging, NEW c \in PrepState, c.fp \in Fingerprints,
         NEW s \in Digests, Met(c, s)
  PROVE  Met(c, s)'
<1>1. c.met[s] \in Nat /\ c.fp.ids[s] \in Nat BY Parts, Known
<1>2. PICK a : a = Incarnation(c.kind, s) OBVIOUS
<1>3. PICK b : b = Incarnation(c.kind, s)' OBVIOUS
<1>4. /\ a \in Nat /\ b \in Nat /\ a <= b
      /\ ~Found(c.kind, s) /\ Found(c.kind, s)' => a < b \/ (c.kind # "job" /\ s \in back')
  BY <1>2, <1>3, IncarnationAges
<1>5. back \subseteq back' BY DEF Aging
<1>6. /\ c.fp.ids[s] # 0 => c.met[s] = c.fp.ids[s]
      /\ c.fp.ids[s] = 0 /\ Found(c.kind, s) => c.met[s] < a \/ (c.kind # "job" /\ s \in back)
      /\ c.met[s] <= a
  BY <1>2 DEF Met
<1>7. c.met[s] <= b BY <1>1, <1>4, <1>6
<1>8. ASSUME c.fp.ids[s] = 0, Found(c.kind, s)'
      PROVE  c.met[s] < b \/ (c.kind # "job" /\ s \in back')
  <2>1. CASE Found(c.kind, s) BY <1>1, <1>4, <1>5, <1>6, <1>8, <2>1
  <2>2. CASE ~Found(c.kind, s) BY <1>1, <1>4, <1>6, <1>8, <2>2
  <2>3. QED BY <2>1, <2>2
<1>9. QED BY <1>3, <1>6, <1>7, <1>8 DEF Met

LEMMA LookedTyped ==
  ASSUME NEW c \in PrepState
  PROVE  Looked(c) \subseteq Digests
BY Parts, EntriesTyped DEF Looked

(* What is known of a command that does nothing stays true. *)
LEMMA ObservingStays ==
  ASSUME Numbers, Numbers', Aging, NEW c \in PrepState, Observing(c)
  PROVE  Observing(c)'
<1>1. c.fp \in Fingerprints \cup {Unknown} BY Parts
<1>2. c.fp # Unknown => Past(c.fp)' BY <1>1, PastStays DEF Observing
<1>3. ASSUME c.step = "observe", c.fp # Unknown, NEW s \in Looked(c) \ c.todo
      PROVE  Met(c, s)'
  <2>1. s \in Digests BY LookedTyped
  <2>2. Met(c, s) BY <1>3 DEF Observing
  <2>3. QED BY <1>1, <1>3, <2>1, <2>2, MetStays
<1>4. QED BY <1>2, <1>3 DEF Observing, Looked

LEMMA ReplayStays ==
  ASSUME Numbers, Numbers', Aging, NEW c \in PrepState, Observing(c), Replay(c)
  PROVE  Replay(c)'
<1>1. c.seen \in Recipes \cup {None} /\ c.fp \in Fingerprints \cup {Unknown} BY Parts
<1>2. c.seen # None => c.seen.at \in Nat /\ c.seen.at <= saved'
  BY <1>1 DEF Replay, Recipes, Numbers, Aging
<1>3. ASSUME c.step \in Replaying, c.fp # Unknown, c.fp.recipe # None, c.seen # c.fp.recipe
      PROVE  recipe' # c.fp.recipe
  <2>1. c.fp.recipe \in Recipes /\ c.fp.recipe.at <= saved
    BY <1>1, <1>3, Known DEF Observing, Past
  <2>2. recipe # c.fp.recipe BY <1>3 DEF Replay
  <2>3. QED BY <2>1, <2>2, NeverBack
<1>4. ASSUME c.step \in {"safe", "invalidate"}, recipe' = c.seen
      PROVE  lacked'
  <2>1. c.seen \in Recipes /\ c.seen.at <= saved BY <1>1, <1>4 DEF Replay, Replaying
  <2>2. recipe = c.seen BY <1>4, <2>1, NeverBack
  <2>3. QED BY <1>4, <2>2 DEF Replay, Aging
<1>5. QED BY <1>2, <1>3, <1>4 DEF Replay, Replaying, Preparing

LEMMA FailingStays ==
  ASSUME Numbers, Numbers', Aging, NEW c \in PrepState, Observing(c), Failing(c),
         c.step # "idle" => c.copy \in 1 .. MaxCalls
  PROVE  Failing(c)'
<1>1. CASE c.step = "remember" /\ c.fp # Unknown
  <2>1. c.fp \in Fingerprints BY <1>1, Parts
  <2>2. Past(c.fp) /\ Justified(c.fp, c.category, c.copy) BY <1>1 DEF Observing, Failing
  <2>3. c.copy \in 1 .. MaxCalls BY <1>1
  <2>4. Justified(c.fp, c.category, c.copy)' BY <2>1, <2>2, <2>3, JustifiedStays
  <2>5. QED BY <1>1, <2>4 DEF Failing
<1>2. CASE ~(c.step = "remember" /\ c.fp # Unknown) BY <1>2 DEF Failing
<1>3. QED BY <1>1, <1>2

LEMMA RecordsStay ==
  ASSUME Numbers, Numbers', Aging, records \subseteq Failures, RecordsTrue,
         \A c \in 1 .. MaxCalls : under'[c] <= runtime', records' \subseteq records
  PROVE  RecordsTrue'
<1>1. ASSUME NEW r \in records
      PROVE  Past(r.fp)' /\ Justified(r.fp, r.category, r.by)'
  <2>1. r.fp \in Fingerprints /\ r.by \in 1 .. MaxCalls BY <1>1 DEF Failures
  <2>2. Past(r.fp) /\ Justified(r.fp, r.category, r.by) BY DEF RecordsTrue
  <2>3. QED BY <2>1, <2>2, PastStays, JustifiedStays
<1>2. QED BY <1>1 DEF RecordsTrue

-----------------------------------------------------------------------------
(* One command steps, and the others' copies keep their status. *)

LEMMA Functions ==
  ASSUME PrepInv
  PROVE  prep \in [Procs -> PrepState] /\ op \in [Procs -> OpState]
BY TypeParts DEF PrepInv, CacheInv, PrepTyped

LEMMA Here ==
  ASSUME PrepInv, NEW p \in Procs
  PROVE  /\ prep[p] \in PrepState /\ op[p] \in OpState
         /\ Observing(prep[p]) /\ Replay(prep[p]) /\ Failing(prep[p]) /\ Owned(prep[p])
         /\ Linked(prep[p], op[p]) /\ SafeSave(op[p])
         /\ prep[p].step # "idle" => prep[p].copy \in 1 .. MaxCalls
<1>1. op \in [Procs -> OpState] BY Functions
<1>2. prep \in [Procs -> PrepState] /\ calls \in 0 .. MaxCalls
  BY Functions DEF PrepInv, PrepTyped
<1>3. Local(prep[p]) BY DEF PrepInv
<1>4. prep[p].step # "idle" => prep[p].copy \in 1 .. MaxCalls
  <2>1. prep[p].copy \in 0 .. MaxCalls BY <1>2, Parts
  <2>2. QED BY <1>2, <1>3, <2>1 DEF Local, Owned
<1>5. QED BY <1>1, <1>2, <1>3, <1>4 DEF Local, PrepInv

OthersKept(p) ==
    \A c \in 1 .. calls : \/ status'[c] = status[c]
                          \/ prep[p].step # "idle" /\ c = prep[p].copy

(* The recipe's entries that are there are taken by the command at work only.  *)
RecipeKept(p) ==
    \/ op[p].step \in Working
    \/ Entries(recipe') \cap Valid' \subseteq Entries(recipe) \cap Valid

LEMMA SafeSaveStays ==
  ASSUME CacheInv, NEW p \in Procs, NEW q \in Procs, q # p, RecipeKept(p), SafeSave(op[q])
  PROVE  \A o : o = op[q] => SafeSave(o)'
<1>1. PICK o : o = op[q] OBVIOUS
<1>2. CASE op[p].step \in Working
  <2>1. o.step \notin Working BY <1>1, <1>2 DEF CacheInv, LockOK
  <2>2. SafeSave(o)' BY <2>1 DEF SafeSave, Working, Steps
  <2>3. QED BY <1>1, <2>2
<1>3. CASE Entries(recipe') \cap Valid' \subseteq Entries(recipe) \cap Valid
  <2>1. Entries(recipe)' = Entries(recipe') BY DEF Entries
  <2>2. SafeSave(o)' BY <1>1, <1>3, <2>1 DEF SafeSave
  <2>3. QED BY <1>1, <2>2
<1>4. QED BY <1>2, <1>3 DEF RecipeKept

(* A step of p: everybody else keeps what it knows. *)
LEMMA Stepped ==
  ASSUME PrepInv, NEW p \in Procs, NEW n \in PrepState, NEW m \in OpState,
         prep' = [prep EXCEPT ![p] = n], op' = [op EXCEPT ![p] = m],
         CacheInv', PrepTyped', Aging, RecordsTrue', LackedOK',
         recipe' # None => recipe'.at <= saved',
         calls <= calls', OthersKept(p), RecipeKept(p),
         n.step # "idle" => \/ prep[p].step # "idle" /\ n.copy = prep[p].copy
                            \/ n.copy = calls + 1,
         Local(n)', Linked(n, m), SafeSave(m)'
  PROVE  PrepInv'
<1>1. /\ prep'[p] = n /\ op'[p] = m
      /\ \A q \in Procs \ {p} : prep'[q] = prep[q] /\ op'[q] = op[q]
  <2>1. prep \in [Procs -> PrepState] /\ op \in [Procs -> OpState] BY Functions
  <2>2. prep'[p] = n /\ \A q \in Procs \ {p} : prep'[q] = prep[q] BY <2>1
  <2>3. op'[p] = m /\ \A q \in Procs \ {p} : op'[q] = op[q] BY <2>1
  <2>4. QED BY <2>2, <2>3
<1>2. Numbers /\ Numbers' BY DEF PrepInv, PrepTyped, Numbers
<1>3. calls \in Nat /\ calls' \in Nat BY DEF PrepInv, PrepTyped
<1>4. ASSUME NEW q \in Procs, q # p
      PROVE  /\ Local(prep[q])' /\ Linked(prep[q], op[q])' /\ SafeSave(op[q])'
  <2>1. PICK c : c = prep[q] OBVIOUS
  <2>2. PICK o : o = op[q] OBVIOUS
  <2>3. /\ c \in PrepState /\ Observing(c) /\ Replay(c) /\ Failing(c) /\ Owned(c)
        /\ Linked(c, o) /\ SafeSave(op[q])
        /\ c.step # "idle" => c.copy \in 1 .. MaxCalls
    BY <2>1, <2>2, Here
  <2>4. Observing(c)' /\ Replay(c)' /\ Failing(c)'
    BY <1>2, <2>3, ObservingStays, ReplayStays, FailingStays
  <2>5. SafeSave(o)' BY <1>4, <2>2, <2>3, SafeSaveStays DEF PrepInv
  <2>6. c.copy \in Nat BY <2>3, Parts
  <2>7. c.step # "idle" => c.copy \in 1 .. calls /\ c.copy \in 1 .. calls'
    BY <1>3, <2>3, <2>6 DEF Owned
  <2>8. c.step # "idle" => status'[c.copy] = status[c.copy]
    BY <1>4, <2>1, <2>7 DEF OthersKept, PrepInv, OneEach
  <2>9. Owned(c)' BY <2>3, <2>7, <2>8 DEF Owned
  <2>10. Local(c)' BY <2>4, <2>9 DEF Local
  <2>11. Linked(c, o)' BY <2>3 DEF Linked
  <2>12. QED BY <1>1, <1>4, <2>1, <2>2, <2>5, <2>10, <2>11
<1>5. ASSUME NEW q \in Procs
      PROVE  Local(prep[q])' /\ Linked(prep[q], op[q])' /\ SafeSave(op[q])'
  <2>1. CASE q = p
    <3>1. Linked(n, m)' BY DEF Linked
    <3>2. QED BY <1>1, <2>1, <3>1
  <2>2. QED BY <1>4, <2>1
<1>6. OneEach'
  <2>1. ASSUME NEW q \in Procs, q # p, n.step # "idle", prep[q].step # "idle"
        PROVE  n.copy # prep[q].copy
    <3>1. prep[q].copy \in 1 .. calls BY <2>1, Here DEF Owned
    <3>2. CASE n.copy = calls + 1 BY <1>3, <3>1, <3>2
    <3>3. CASE prep[p].step # "idle" /\ n.copy = prep[p].copy
      BY <2>1, <3>3 DEF PrepInv, OneEach
    <3>4. QED BY <2>1, <3>2, <3>3
  <2>2. ASSUME NEW q \in Procs, NEW r \in Procs, q # r,
               prep'[q].step # "idle", prep'[r].step # "idle"
        PROVE  prep'[q].copy # prep'[r].copy
    <3>1. CASE q # p /\ r # p BY <1>1, <2>2, <3>1 DEF PrepInv, OneEach
    <3>2. CASE q = p BY <1>1, <2>1, <2>2, <3>2
    <3>3. CASE r = p BY <1>1, <2>1, <2>2, <3>3
    <3>4. QED BY <3>1, <3>2, <3>3
  <2>3. QED BY <2>2 DEF OneEach
<1>7. QED BY <1>5, <1>6 DEF PrepInv

(* A step that adds nothing to the world. *)
LEMMA AgesNot ==
  ASSUME PrepTyped, UNCHANGED <<birth, laid, runtime, back, under, saved>>,
         here' \subseteq here, entry' \subseteq entry, recipe' \in {recipe, None},
         recipe' = recipe /\ lacked => lacked'
  PROVE  Aging
<1>1. Numbers BY DEF PrepTyped, Numbers
<1>2. ASSUME NEW s \in Digests PROVE birth[s] <= birth'[s] /\ laid[s] <= laid'[s]
  BY <1>1 DEF Numbers
<1>3. runtime <= runtime' /\ saved <= saved' BY <1>1 DEF Numbers
<1>4. ASSUME NEW c \in 1 .. MaxCalls PROVE under[c] <= under'[c] BY <1>1 DEF Numbers
<1>5. QED BY <1>2, <1>3, <1>4 DEF Aging

(* A step that leaves cache, recipe and world alone. *)
still == <<cacheVars, here, birth, laid, runtime, values, back, under, recipe, saved, lacked>>

LEMMA Alone ==
  ASSUME PrepInv, NEW p \in Procs, NEW n \in PrepState,
         prep' = [prep EXCEPT ![p] = n], UNCHANGED still,
         status' \in [1 .. MaxCalls -> Statuses], calls' \in 0 .. MaxCalls, calls <= calls',
         OthersKept(p), records' \subseteq Failures,
         \A r \in records' \ records : Past(r.fp) /\ Justified(r.fp, r.category, r.by),
         n.step # "idle" => \/ prep[p].step # "idle" /\ n.copy = prep[p].copy
                            \/ n.copy = calls + 1,
         Observing(n), Replay(n), Failing(n), Owned(n)', Linked(n, op[p])
  PROVE  PrepInv'
<1>1. op[p] \in OpState /\ SafeSave(op[p]) BY Here
<1>2. op' = [op EXCEPT ![p] = op[p]] BY Functions DEF still, cacheVars
<1>3. CacheInv'
  <2>1. CacheInv /\ UNCHANGED <<disk, lock, op, faults>> BY DEF PrepInv, still, cacheVars
  <2>2. faults' \in 0 .. MaxFaults BY <2>1 DEF CacheInv, CacheTypeOK
  <2>3. QED BY <2>1, <2>2, CacheRests
<1>4. PrepTyped'
  <2>1. prep' \in [Procs -> PrepState] BY Functions
  <2>2. QED BY <2>1 DEF PrepInv, PrepTyped, still
<1>5. Aging BY AgesNot DEF PrepInv, still, cacheVars, disk
<1>6. RecordsTrue'
  <2>1. ASSUME NEW r \in records'
        PROVE  Past(r.fp) /\ Justified(r.fp, r.category, r.by)
    <3>1. RecordsTrue BY DEF PrepInv
    <3>2. CASE r \in records BY <3>1, <3>2 DEF RecordsTrue
    <3>3. CASE r \notin records BY <2>1, <3>3
    <3>4. QED BY <3>2, <3>3
  <2>2. \A r \in records' : Past(r.fp)' /\ Justified(r.fp, r.category, r.by)'
    BY <2>1 DEF Past, Justified, Gone, Found, Incarnation, still, cacheVars, disk
  <2>3. \A c \in 1 .. MaxCalls : under'[c] <= runtime' BY DEF PrepInv, RecordsTrue, still
  <2>4. QED BY <2>2, <2>3 DEF RecordsTrue
<1>7. LackedOK' /\ (recipe' # None => recipe'.at <= saved')
  BY DEF PrepInv, LackedOK, still, cacheVars, disk, Entries
<1>8. RecipeKept(p) BY DEF RecipeKept, Valid, still, cacheVars, disk
<1>9. Observing(n)'
  BY DEF Observing, Past, Met, Looked, Found, Incarnation, still, cacheVars, disk
<1>10. Replay(n)' BY DEF Replay, still
<1>11. Failing(n)'
  BY DEF Failing, Justified, Gone, Found, Incarnation, still, cacheVars, disk
<1>12. Local(n)' BY <1>9, <1>10, <1>11 DEF Local
<1>13. SafeSave(op[p])' BY <1>1 DEF SafeSave, Valid, still, cacheVars, disk
<1>14. PICK m : m = op[p] OBVIOUS
<1>15. op' = op BY DEF still, cacheVars
<1>16. SafeSave(m)' BY <1>13, <1>14, <1>15 DEF SafeSave
<1>17. QED
  BY <1>1, <1>2, <1>3, <1>4, <1>5, <1>6, <1>7, <1>8, <1>12, <1>14, <1>16, Stepped

(* A command between calls of the cache has none of its own. *)
LEMMA NoCall ==
  ASSUME PrepInv, NEW p \in Procs, prep[p].step \notin {"idle", "saving", "fetch"}
  PROVE  op[p].step = "idle"
BY Here DEF Linked

(* ... and changes no more than what it is doing. *)
LEMMA Mere ==
  ASSUME PrepInv, NEW p \in Procs, NEW n \in PrepState,
         prep' = [prep EXCEPT ![p] = n], UNCHANGED <<still, calls, status, records>>,
         prep[p].step # "idle", n.copy = prep[p].copy,
         Observing(n), Replay(n), Failing(n), n.step = "clear" => n.kind # "prepare",
         Linked(n, op[p])
  PROVE  PrepInv'
<1>1. Owned(prep[p]) BY Here
<1>2. Owned(n)' BY <1>1 DEF Owned
<1>3. status \in [1 .. MaxCalls -> Statuses] /\ records \subseteq Failures
      /\ calls \in 0 .. MaxCalls
  BY DEF PrepInv, PrepTyped
<1>4. OthersKept(p) BY DEF OthersKept
<1>5. calls <= calls' /\ calls' \in 0 .. MaxCalls BY <1>3
<1>6. records' \ records = {} OBVIOUS
<1>7. QED BY <1>2, <1>3, <1>4, <1>5, <1>6, Alone

LEMMA Turn ==
  ASSUME PrepInv, NEW p \in Procs,
         NEW s \in PrepSteps \ {"observe", "saving", "fetch", "remember", "look"},
         prep[p].step \notin {"idle", "saving", "fetch"}, PrepGoto(p, s),
         UNCHANGED <<still, calls, status, records>>,
         s \in Preparing => prep[p].kind = "prepare" /\ s # "validate",
         s \in Replaying => prep[p].step \in Replaying,
         s \in {"probe", "clear"} => prep[p].kind = "job", s # "read",
         s \in {"safe", "invalidate"} /\ recipe = prep[p].seen => lacked
  PROVE  PrepInv'
<1>1. PICK c : c = prep[p] OBVIOUS
<1>2. c \in PrepState /\ Observing(c) /\ Replay(c) BY <1>1, Here
<1>3. PICK n : n = [c EXCEPT !.step = s] OBVIOUS
<1>4. prep' = [prep EXCEPT ![p] = n] BY <1>1, <1>3, Functions DEF PrepGoto
<1>5. /\ n \in PrepState /\ n.step = s /\ n.kind = c.kind /\ n.want = c.want /\ n.todo = c.todo
      /\ n.copy = c.copy /\ n.fp = c.fp /\ n.met = c.met /\ n.seen = c.seen
  BY <1>2, <1>3 DEF PrepState
<1>6. Observing(n) BY <1>2, <1>5 DEF Observing
<1>7. Replay(n) BY <1>1, <1>2, <1>5 DEF Replay, Replaying, Preparing
<1>8. Failing(n) BY <1>5 DEF Failing
<1>9. op[p].step = "idle" BY NoCall
<1>10. Linked(n, op[p]) BY <1>5, <1>9 DEF Linked
<1>11. QED BY <1>1, <1>4, <1>5, <1>6, <1>7, <1>8, <1>10, Mere

-----------------------------------------------------------------------------
(* The steps of a preparation that leave the cache alone. *)

LEMMA MalformedStep ==
  ASSUME PrepInv, NEW p \in Procs, Malformed(p)
  PROVE  PrepInv'
<1>1. UNCHANGED <<still, calls, status, records>> BY DEF Malformed, still, world, recipeVars
<1>2. "fail" \in PrepSteps BY DEF PrepSteps
<1>3. QED BY <1>1, <1>2, Turn DEF Malformed, Preparing, Replaying

LEMMA TurnsBack ==
  ASSUME PrepInv, NEW p \in Procs, Unfit(p) \/ CopyFails(p) \/ ProbeTimesOut(p)
  PROVE  PrepInv'
<1>1. UNCHANGED <<still, calls, status, records>>
  BY DEF Unfit, CopyFails, ProbeTimesOut, still, world, recipeVars
<1>2. PrepGoto(p, "fail") /\ prep[p].step \in {"validate", "copy", "probe"}
  BY DEF Unfit, CopyFails, ProbeTimesOut
<1>3. "fail" \in PrepSteps BY DEF PrepSteps
<1>4. QED BY <1>1, <1>2, <1>3, Turn DEF Preparing, Replaying

LEMMA ReserveStep ==
  ASSUME PrepInv, NEW p \in Procs, Reserve(p) \/ CopySources(p)
  PROVE  PrepInv'
<1>1. UNCHANGED <<still, calls, status, records>>
  BY DEF Reserve, CopySources, still, world, recipeVars
<1>2. prep[p].step \in {"reserve", "copy"} BY DEF Reserve, CopySources
<1>3. prep[p].kind = "prepare" BY <1>2, Here DEF Replay, Preparing
<1>4. PICK s \in {"copy", "fail", "save", "finish"} : PrepGoto(p, s)
  BY DEF Reserve, CopySources
<1>5. s \in PrepSteps BY DEF PrepSteps
<1>6. QED BY <1>1, <1>2, <1>3, <1>4, <1>5, Turn DEF Preparing, Replaying

LEMMA LookStep ==
  ASSUME PrepInv, NEW p \in Procs, Look(p)
  PROVE  PrepInv'
<1>1. UNCHANGED <<still, calls, status, records>> BY DEF Look, still, world, recipeVars
<1>2. /\ prep[p].step = "look" /\ prep[p].todo = Entries(prep[p].seen) /\ prep[p].seen # None
  BY Here DEF Look, Replay, Replaying
<1>3. CASE prep[p].todo \subseteq entry
  <2>1. PrepGoto(p, "pick") BY <1>3 DEF Look
  <2>2. "pick" \in PrepSteps BY DEF PrepSteps
  <2>3. QED BY <1>1, <1>2, <2>1, <2>2, Turn DEF Preparing, Replaying
<1>4. CASE ~(prep[p].todo \subseteq entry)
  <2>1. PrepGoto(p, "safe") BY <1>4 DEF Look
  <2>2. "safe" \in PrepSteps BY DEF PrepSteps
  <2>3. recipe = prep[p].seen => lacked BY <1>2, <1>4 DEF PrepInv, LackedOK, PrepTyped
  <2>4. QED BY <1>1, <1>2, <2>1, <2>2, <2>3, Turn DEF Preparing, Replaying
<1>5. QED BY <1>3, <1>4

LEMMA CheckSafeStep ==
  ASSUME PrepInv, NEW p \in Procs, CheckSafe(p)
  PROVE  PrepInv'
<1>1. UNCHANGED <<still, calls, status, records>> BY DEF CheckSafe, still, world, recipeVars
<1>2. prep[p].step = "safe" BY DEF CheckSafe
<1>3. recipe = prep[p].seen => lacked BY <1>2, Here DEF Replay
<1>4. PICK s \in {"invalidate", "fail"} : PrepGoto(p, s) BY DEF CheckSafe
<1>5. s \in PrepSteps BY DEF PrepSteps
<1>6. QED BY <1>1, <1>2, <1>3, <1>4, <1>5, Turn DEF Preparing, Replaying

LEMMA ProbeSucceedsStep ==
  ASSUME PrepInv, NEW p \in Procs, ProbeSucceeds(p)
  PROVE  PrepInv'
<1>1. UNCHANGED <<still, calls, status, records>> BY DEF ProbeSucceeds, still, world, recipeVars
<1>2. prep[p].step = "probe" /\ PrepGoto(p, "clear") BY DEF ProbeSucceeds
<1>3. prep[p].kind = "job" BY <1>2, Here DEF Replay
<1>4. "clear" \in PrepSteps BY DEF PrepSteps
<1>5. QED BY <1>1, <1>2, <1>3, <1>4, Turn DEF Preparing, Replaying

LEMMA ReadRecipeStep ==
  ASSUME PrepInv, NEW p \in Procs, ReadRecipe(p)
  PROVE  PrepInv'
<1>1. UNCHANGED <<still, calls, status, records>> BY DEF ReadRecipe, still, world, recipeVars
<1>2. PICK c : c = prep[p] OBVIOUS
<1>3. c \in PrepState /\ Observing(c) /\ Replay(c) /\ c.step = "read" BY <1>2, Here DEF ReadRecipe
<1>4. recipe \in Recipes \cup {None} /\ (recipe # None => recipe.at <= saved)
  BY DEF PrepInv, PrepTyped
<1>5. PICK n : n = [c EXCEPT !.seen = recipe, !.todo = Entries(recipe),
                             !.step = IF recipe = None THEN "probe" ELSE "look"]
  OBVIOUS
<1>6. prep' = [prep EXCEPT ![p] = n] BY <1>2, <1>5, Functions DEF ReadRecipe
<1>7. Entries(recipe) \in SUBSET Digests BY <1>4, EntriesTyped
<1>8. /\ n \in PrepState /\ n.step \in {"probe", "look"} /\ (n.step = "look" => recipe # None)
      /\ n.kind = c.kind /\ n.want = c.want /\ n.todo = Entries(recipe)
      /\ n.copy = c.copy /\ n.fp = c.fp /\ n.met = c.met /\ n.seen = recipe
  BY <1>3, <1>4, <1>5, <1>7 DEF PrepState, PrepSteps
<1>9. Observing(n) BY <1>3, <1>8 DEF Observing
<1>10. c.kind = "job" BY <1>3 DEF Replay
<1>11. Replay(n) BY <1>4, <1>8, <1>10 DEF Replay, Preparing, Replaying
<1>12. Failing(n) BY <1>8 DEF Failing
<1>13. op[p].step = "idle" BY <1>2, <1>3, NoCall
<1>14. Linked(n, op[p]) BY <1>8, <1>13 DEF Linked
<1>15. QED BY <1>1, <1>2, <1>3, <1>6, <1>8, <1>9, <1>11, <1>12, <1>14, Mere

LEMMA ObserveStep ==
  ASSUME PrepInv, NEW p \in Procs, NEW s \in Digests, Observe(p, s)
  PROVE  PrepInv'
<1>1. UNCHANGED <<still, calls, status, records>> BY DEF Observe, still, world, recipeVars
<1>2. PICK c : c = prep[p] OBVIOUS
<1>3. /\ c \in PrepState /\ Observing(c) /\ Replay(c) /\ Linked(c, op[p])
      /\ c.step = "observe" /\ s \in c.todo
  BY <1>2, Here DEF Observe
<1>4. c.fp \in Fingerprints BY <1>3, Parts DEF Observing
<1>5. PICK i : i = Identity(c.kind, s) OBVIOUS
<1>6. PICK a : a = Incarnation(c.kind, s) OBVIOUS
<1>7. a \in Nat \ {0} /\ (Found(c.kind, s) => i = a) /\ (~Found(c.kind, s) => i = 0)
  BY <1>5, <1>6 DEF Identity, Incarnation, PrepInv, PrepTyped
<1>8. PICK fp : fp = [c.fp EXCEPT !.ids = [c.fp.ids EXCEPT ![s] = i]] OBVIOUS
<1>9. /\ fp \in Fingerprints /\ fp.kind = c.fp.kind /\ fp.want = c.fp.want
      /\ fp.recipe = c.fp.recipe /\ fp.runtime = c.fp.runtime
      /\ fp.ids = [c.fp.ids EXCEPT ![s] = i]
  BY <1>4, <1>7, <1>8 DEF Fingerprints
<1>10. PICK n : n = [c EXCEPT !.todo = c.todo \ {s}, !.met = [c.met EXCEPT ![s] = a],
                              !.fp = fp]
  OBVIOUS
<1>11. prep' = [prep EXCEPT ![p] = n]
  <2>1. prep' = [prep EXCEPT ![p].todo = @ \ {s}, ![p].met[s] = a, ![p].fp.ids[s] = i]
    BY <1>2, <1>5, <1>6 DEF Observe
  <2>2. QED BY <1>2, <1>8, <1>10, <2>1, Functions
<1>12. /\ n \in PrepState /\ n.step = "observe" /\ n.kind = c.kind /\ n.want = c.want
       /\ n.todo = c.todo \ {s} /\ n.copy = c.copy /\ n.fp = fp
       /\ n.met = [c.met EXCEPT ![s] = a] /\ n.seen = c.seen
  BY <1>3, <1>7, <1>9, <1>10 DEF PrepState
<1>13. c.fp # Unknown /\ fp # Unknown BY <1>4, <1>9, UnknownAssumption
<1>14. c.fp.ids \in [Digests -> Nat] /\ c.met \in [Digests -> Nat] BY <1>3, <1>4, Known, Parts
<1>15. Past(c.fp) /\ c.fp.kind = c.kind /\ c.fp.want = c.want /\ c.seen = c.fp.recipe
  BY <1>3, <1>13 DEF Observing
<1>16. Past(fp)
  <2>1. ASSUME NEW t \in Digests PROVE fp.ids[t] <= Incarnation(fp.kind, t)
    <3>1. CASE t = s BY <1>6, <1>7, <1>9, <1>14, <1>15, <3>1
    <3>2. CASE t # s BY <1>9, <1>14, <1>15, <3>2 DEF Past
    <3>3. QED BY <3>1, <3>2
  <2>2. QED BY <1>9, <1>15, <2>1 DEF Past
<1>17. ASSUME NEW t \in Looked(n) \ n.todo PROVE Met(n, t)
  <2>1. t \in Digests BY <1>12, LookedTyped
  <2>2. CASE t = s BY <1>6, <1>7, <1>9, <1>12, <1>14, <2>2 DEF Met
  <2>3. CASE t # s
    <3>1. t \in Looked(c) \ c.todo BY <1>12, <2>3 DEF Looked
    <3>2. Met(c, t) BY <1>3, <1>13, <3>1 DEF Observing
    <3>3. n.met[t] = c.met[t] /\ n.fp.ids[t] = c.fp.ids[t]
      BY <1>9, <1>12, <1>14, <2>1, <2>3
    <3>4. QED BY <1>12, <3>2, <3>3 DEF Met
  <2>4. QED BY <2>2, <2>3
<1>18. Observing(n) BY <1>9, <1>12, <1>13, <1>15, <1>16, <1>17 DEF Observing
<1>19. Replay(n) BY <1>3, <1>12 DEF Replay, Preparing, Replaying
<1>20. Failing(n) BY <1>12 DEF Failing
<1>21. Linked(n, op[p]) BY <1>3, <1>12 DEF Linked
<1>22. QED BY <1>1, <1>2, <1>3, <1>11, <1>12, <1>18, <1>19, <1>20, <1>21, Mere

LEMMA UnobservableStep ==
  ASSUME PrepInv, NEW p \in Procs, Unobservable(p)
  PROVE  PrepInv'
<1>1. UNCHANGED <<still, calls, status, records>> BY DEF Unobservable, still, recipeVars
<1>2. PICK c : c = prep[p] OBVIOUS
<1>3. /\ c \in PrepState /\ Replay(c) /\ Linked(c, op[p]) /\ c.step = "observe"
  BY <1>2, Here DEF Unobservable
<1>4. PICK n : n = [c EXCEPT !.todo = {}, !.fp = Unknown] OBVIOUS
<1>5. prep' = [prep EXCEPT ![p] = n] BY <1>2, <1>4, Functions DEF Unobservable
<1>6. /\ n \in PrepState /\ n.step = "observe" /\ n.todo = {} /\ n.fp = Unknown
      /\ n.copy = c.copy /\ n.seen = c.seen
  BY <1>3, <1>4 DEF PrepState
<1>7. Observing(n) BY <1>6 DEF Observing
<1>8. Replay(n) BY <1>3, <1>6 DEF Replay, Preparing, Replaying
<1>9. Failing(n) /\ Linked(n, op[p]) BY <1>3, <1>6 DEF Failing, Linked
<1>10. QED BY <1>1, <1>2, <1>3, <1>5, <1>6, <1>7, <1>8, <1>9, Mere

LEMMA ValidateStep ==
  ASSUME PrepInv, NEW p \in Procs, NEW s \in Digests, Validate(p, s)
  PROVE  PrepInv'
<1>1. UNCHANGED <<still, calls, status, records>> BY DEF Validate, still, world, recipeVars
<1>2. PICK c : c = prep[p] OBVIOUS
<1>3. /\ c \in PrepState /\ Observing(c) /\ Replay(c) /\ c.step = "validate" /\ s \in c.todo
  BY <1>2, Here DEF Validate
<1>4. op[p].step = "idle" BY <1>2, <1>3, NoCall
<1>5. c.kind = "prepare" /\ s \in c.want BY <1>3 DEF Replay, Preparing
<1>6. CASE s \in here
  <2>1. PICK n : n = [c EXCEPT !.todo = c.todo \ {s},
                               !.step = IF c.todo = {s} THEN "reserve" ELSE c.step]
    OBVIOUS
  <2>2. prep' = [prep EXCEPT ![p] = n] BY <1>2, <1>6, <2>1, Functions DEF Validate
  <2>3. /\ n \in PrepState /\ n.step \in {"validate", "reserve"} /\ n.todo \subseteq c.todo
        /\ n.kind = c.kind /\ n.want = c.want /\ n.fp = c.fp /\ n.copy = c.copy
        /\ n.seen = c.seen
    BY <1>3, <2>1 DEF PrepState, PrepSteps
  <2>4. Observing(n) BY <1>3, <2>3 DEF Observing
  <2>5. Replay(n) BY <1>3, <2>3 DEF Replay, Preparing, Replaying
  <2>6. Failing(n) /\ Linked(n, op[p]) BY <1>4, <2>3 DEF Failing, Linked
  <2>7. QED BY <1>1, <1>2, <1>3, <2>2, <2>3, <2>4, <2>5, <2>6, Mere
<1>7. CASE s \notin here
  <2>1. PICK n : n = [c EXCEPT !.step = "remember", !.category = "materialization"] OBVIOUS
  <2>2. prep' = [prep EXCEPT ![p] = n] BY <1>2, <1>7, <2>1, Functions DEF Validate, Missing
  <2>3. /\ n \in PrepState /\ n.step = "remember" /\ n.category = "materialization"
        /\ n.kind = c.kind /\ n.want = c.want /\ n.fp = c.fp /\ n.copy = c.copy
        /\ n.seen = c.seen
    BY <1>3, <2>1 DEF PrepState, PrepSteps
  <2>4. Observing(n) BY <1>3, <2>3 DEF Observing
  <2>5. Replay(n) BY <1>3, <2>3 DEF Replay, Preparing, Replaying
  <2>6. n.fp # Unknown => Gone(n.fp)
    BY <1>3, <1>5, <1>7, <2>3 DEF Gone, Observing, Found
  <2>7. Failing(n) /\ Linked(n, op[p]) BY <1>4, <2>3, <2>6 DEF Failing, Linked, Justified
  <2>8. QED BY <1>1, <1>2, <1>3, <2>2, <2>3, <2>4, <2>5, <2>7, Mere
<1>8. QED BY <1>6, <1>7

LEMMA FetchMissesStep ==
  ASSUME PrepInv, NEW p \in Procs, NEW d \in Digests, Fetch(p, d), d \notin entry
  PROVE  PrepInv'
<1>1. UNCHANGED <<still, calls, status, records>> BY DEF Fetch, still, world, recipeVars
<1>2. PICK c : c = prep[p] OBVIOUS
<1>3. /\ c \in PrepState /\ Observing(c) /\ Replay(c) /\ c.step = "pick" /\ d \in c.todo
  BY <1>2, Here DEF Fetch
<1>4. op[p].step = "idle" BY <1>2, <1>3, NoCall
<1>5. c.kind = "job" /\ d \in Entries(c.seen) BY <1>3 DEF Replay, Replaying
<1>6. PICK n : n = [c EXCEPT !.step = "remember", !.category = "materialization"] OBVIOUS
<1>7. prep' = [prep EXCEPT ![p] = n] BY <1>2, <1>6, Functions DEF Fetch, Missing
<1>8. /\ n \in PrepState /\ n.step = "remember" /\ n.category = "materialization"
      /\ n.kind = c.kind /\ n.want = c.want /\ n.fp = c.fp /\ n.copy = c.copy
      /\ n.seen = c.seen
  BY <1>3, <1>6 DEF PrepState, PrepSteps
<1>9. Observing(n) BY <1>3, <1>8 DEF Observing
<1>10. Replay(n) BY <1>3, <1>8 DEF Replay, Preparing, Replaying
<1>11. ASSUME n.fp # Unknown PROVE Gone(n.fp)
  <2>1. c.fp.kind = "job" BY <1>3, <1>5, <1>8, <1>11 DEF Observing
  <2>2. CASE c.seen = c.fp.recipe BY <1>5, <1>8, <2>1, <2>2 DEF Gone, Found
  <2>3. CASE c.seen # c.fp.recipe
    BY <1>3, <1>8, <1>11, <2>1, <2>3 DEF Gone, Replay, Replaying
  <2>4. QED BY <2>2, <2>3
<1>12. Failing(n) /\ Linked(n, op[p]) BY <1>4, <1>8, <1>11 DEF Failing, Linked, Justified
<1>13. QED BY <1>1, <1>2, <1>3, <1>7, <1>8, <1>9, <1>10, <1>12, Mere

-----------------------------------------------------------------------------
(* Beginnings and ends. *)

LEMMA IdleKnown ==
  ASSUME PrepTyped
  PROVE  /\ IdlePrep \in PrepState /\ IdlePrep.step = "idle"
         /\ Observing(IdlePrep) /\ Replay(IdlePrep) /\ Failing(IdlePrep)
         /\ Owned(IdlePrep) /\ Owned(IdlePrep)' /\ Local(IdlePrep)'
<1>1. 0 \in 0 .. MaxCalls BY CallsAssumption
<1>2. IdlePrep \in PrepState BY <1>1 DEF IdlePrep, PrepState, PrepSteps
<1>3. IdlePrep.step = "idle" /\ IdlePrep.fp = Unknown /\ IdlePrep.seen = None
  BY DEF IdlePrep
<1>4. QED
  BY <1>2, <1>3 DEF Observing, Replay, Failing, Owned, Local, Preparing, Replaying

LEMMA EndedStep ==
  ASSUME PrepInv, NEW p \in Procs, Ended(p), UNCHANGED <<still, calls>>,
         prep[p].step \notin {"idle", "saving", "fetch"},
         status' \in [1 .. MaxCalls -> Statuses], OthersKept(p), records' \subseteq Failures,
         \A r \in records' \ records : Past(r.fp) /\ Justified(r.fp, r.category, r.by)
  PROVE  PrepInv'
<1>1. PrepTyped /\ calls \in 0 .. MaxCalls BY DEF PrepInv, PrepTyped
<1>2. PICK n : n = IdlePrep OBVIOUS
<1>3. /\ n \in PrepState /\ n.step = "idle" /\ Observing(n) /\ Replay(n) /\ Failing(n)
      /\ Owned(n)'
  BY <1>1, <1>2, IdleKnown
<1>4. prep' = [prep EXCEPT ![p] = n] BY <1>2 DEF Ended
<1>5. Linked(n, op[p]) BY <1>3, NoCall DEF Linked
<1>6. calls <= calls' /\ calls' \in 0 .. MaxCalls BY <1>1
<1>7. QED BY <1>3, <1>4, <1>5, <1>6, Alone

LEMMA StatusSet ==
  ASSUME PrepInv, NEW p \in Procs, prep[p].step # "idle", NEW s \in Statuses,
         SetStatus(p, s)
  PROVE  /\ status' \in [1 .. MaxCalls -> Statuses] /\ OthersKept(p)
         /\ status'[prep[p].copy] = s
<1>1. prep[p].copy \in 1 .. MaxCalls BY Here
<1>2. status \in [1 .. MaxCalls -> Statuses] /\ calls \in 0 .. MaxCalls BY DEF PrepInv, PrepTyped
<1>3. ASSUME NEW c \in 1 .. calls, c # prep[p].copy PROVE status'[c] = status[c]
  BY <1>1, <1>2, <1>3, CallsAssumption DEF SetStatus
<1>4. QED BY <1>1, <1>2, <1>3 DEF SetStatus, OthersKept

LEMMA BlockedStep ==
  ASSUME PrepInv, NEW p \in Procs, Blocked(p)
  PROVE  PrepInv'
<1>1. UNCHANGED <<still, calls, status, records>> BY DEF Blocked, still, world, recipeVars
<1>2. Ended(p) /\ prep[p].step = "observe" BY DEF Blocked
<1>3. status \in [1 .. MaxCalls -> Statuses] /\ records \subseteq Failures
  BY DEF PrepInv, PrepTyped
<1>4. OthersKept(p) BY <1>1 DEF OthersKept
<1>5. QED BY <1>1, <1>2, <1>3, <1>4, EndedStep

LEMMA FailCopyStep ==
  ASSUME PrepInv, NEW p \in Procs, FailCopy(p)
  PROVE  PrepInv'
<1>1. UNCHANGED <<still, calls, records>> BY DEF FailCopy, still, world, recipeVars
<1>2. Ended(p) /\ prep[p].step = "fail" /\ SetStatus(p, "failed") BY DEF FailCopy
<1>3. status' \in [1 .. MaxCalls -> Statuses] /\ OthersKept(p)
  BY <1>2, StatusSet DEF Statuses
<1>4. records \subseteq Failures BY DEF PrepInv, PrepTyped
<1>5. QED BY <1>1, <1>2, <1>3, <1>4, EndedStep

LEMMA ClearFailureStep ==
  ASSUME PrepInv, NEW p \in Procs, ClearFailure(p)
  PROVE  PrepInv'
<1>1. UNCHANGED <<still, calls>> BY DEF ClearFailure, still, world, recipeVars
<1>2. Ended(p) /\ prep[p].step = "clear" BY DEF ClearFailure
<1>3. status' \in [1 .. MaxCalls -> Statuses] /\ OthersKept(p)
  <2>1. CASE prep[p].kind = "job"
    <3>1. SetStatus(p, "executing") BY <2>1 DEF ClearFailure
    <3>2. QED BY <1>2, <3>1, StatusSet DEF Statuses
  <2>2. CASE prep[p].kind # "job"
    BY <2>2 DEF ClearFailure, OthersKept, PrepInv, PrepTyped
  <2>3. QED BY <2>1, <2>2
<1>4. records' \subseteq records BY DEF ClearFailure, Clear
<1>5. records \subseteq Failures BY DEF PrepInv, PrepTyped
<1>6. QED BY <1>1, <1>2, <1>3, <1>4, <1>5, EndedStep

LEMMA SucceedStep ==
  ASSUME PrepInv, NEW p \in Procs, Succeed(p)
  PROVE  PrepInv'
<1>1. UNCHANGED <<still, calls, records>> BY DEF Succeed, still, world, recipeVars
<1>2. prep[p].step = "finish" /\ SetStatus(p, "succeeded") /\ PrepGoto(p, "clear")
  BY DEF Succeed
<1>3. /\ status' \in [1 .. MaxCalls -> Statuses] /\ OthersKept(p)
      /\ status'[prep[p].copy] = "succeeded"
  BY <1>2, StatusSet DEF Statuses
<1>4. PICK c : c = prep[p] OBVIOUS
<1>5. c \in PrepState /\ Observing(c) /\ Replay(c) /\ Owned(c) BY <1>4, Here
<1>6. PICK n : n = [c EXCEPT !.step = "clear"] OBVIOUS
<1>7. prep' = [prep EXCEPT ![p] = n] BY <1>2, <1>4, <1>6, Functions DEF PrepGoto
<1>8. /\ n \in PrepState /\ n.step = "clear" /\ n.kind = c.kind /\ n.want = c.want
      /\ n.fp = c.fp /\ n.copy = c.copy /\ n.seen = c.seen
  BY <1>5, <1>6 DEF PrepState, PrepSteps
<1>9. Observing(n) BY <1>5, <1>8 DEF Observing
<1>10. Replay(n) BY <1>5, <1>8 DEF Replay, Preparing, Replaying
<1>11. Failing(n) BY <1>8 DEF Failing
<1>12. Owned(n)' BY <1>1, <1>2, <1>3, <1>4, <1>5, <1>8 DEF Owned
<1>13. op[p].step = "idle" BY <1>2, NoCall
<1>14. Linked(n, op[p]) BY <1>8, <1>13 DEF Linked
<1>15. records \subseteq Failures /\ calls \in 0 .. MaxCalls BY DEF PrepInv, PrepTyped
<1>16. calls <= calls' /\ calls' \in 0 .. MaxCalls BY <1>1, <1>15
<1>17. QED
  BY <1>1, <1>2, <1>3, <1>4, <1>7, <1>8, <1>9, <1>10, <1>11, <1>12, <1>14, <1>15, <1>16, Alone

LEMMA AdmitStep ==
  ASSUME PrepInv, NEW p \in Procs, Admitted(p) \/ Recheck(p)
  PROVE  PrepInv'
<1>1. Admit(p) /\ prep[p].step = "observe" BY DEF Admitted, Recheck
<1>2. UNCHANGED <<still, calls, records>> BY <1>1 DEF Admit, still, world, recipeVars
<1>3. status' \in [1 .. MaxCalls -> Statuses] /\ OthersKept(p)
  BY <1>1, StatusSet DEF Statuses, Admit
<1>4. PICK c : c = prep[p] OBVIOUS
<1>5. c \in PrepState /\ Observing(c) /\ Replay(c) /\ Owned(c) BY <1>4, Here
<1>6. PICK s : s = IF c.kind = "job" THEN "read" ELSE "validate" OBVIOUS
<1>7. PICK n : n = [c EXCEPT !.step = s, !.todo = c.want] OBVIOUS
<1>8. /\ prep' = [prep EXCEPT ![p] = n]
      /\ n \in PrepState
      /\ \/ n.step = "read" /\ c.kind = "job"
         \/ n.step = "validate" /\ c.kind = "prepare"
      /\ n.kind = c.kind /\ n.want = c.want /\ n.todo = c.want
      /\ n.fp = c.fp /\ n.copy = c.copy /\ n.seen = c.seen
  <2>1. \/ s = "read" /\ c.kind = "job"
        \/ s = "validate" /\ c.kind = "prepare"
    <3>1. c.kind \in {"prepare", "job"} BY <1>5, Parts
    <3>2. QED BY <1>6, <3>1
  <2>2. s \in PrepSteps BY <2>1 DEF PrepSteps
  <2>3. prep' = [prep EXCEPT ![p] = n] BY <1>1, <1>4, <1>6, <1>7, Functions DEF Admit
  <2>4. n \in PrepState BY <1>5, <1>7, <2>2 DEF PrepState
  <2>5. /\ n.step = s /\ n.kind = c.kind /\ n.want = c.want /\ n.todo = c.want
        /\ n.fp = c.fp /\ n.copy = c.copy /\ n.seen = c.seen
    BY <1>5, <1>7 DEF PrepState
  <2>6. QED BY <2>1, <2>3, <2>4, <2>5
<1>9. Observing(n) BY <1>5, <1>8 DEF Observing
<1>10. Replay(n) BY <1>5, <1>8 DEF Replay, Preparing, Replaying
<1>11. Failing(n) BY <1>8 DEF Failing
<1>12. Owned(n)' BY <1>1, <1>2, <1>4, <1>5, <1>8 DEF Owned
<1>13. op[p].step = "idle" BY <1>1, NoCall
<1>14. Linked(n, op[p]) BY <1>8, <1>13 DEF Linked
<1>15. records \subseteq Failures /\ calls \in 0 .. MaxCalls BY DEF PrepInv, PrepTyped
<1>16. calls <= calls' /\ calls' \in 0 .. MaxCalls BY <1>2, <1>15
<1>17. QED
  BY <1>1, <1>2, <1>3, <1>4, <1>8, <1>9, <1>10, <1>11, <1>12, <1>14, <1>15, <1>16, Alone

LEMMA RememberStep ==
  ASSUME PrepInv, NEW p \in Procs, Remember(p)
  PROVE  PrepInv'
<1>1. UNCHANGED <<still, calls, status>> BY DEF Remember, still, world, recipeVars
<1>2. PICK c : c = prep[p] OBVIOUS
<1>3. /\ c \in PrepState /\ Observing(c) /\ Replay(c) /\ Failing(c) /\ Owned(c)
      /\ c.step = "remember" /\ c.copy \in 1 .. MaxCalls
  BY <1>2, Here DEF Remember
<1>4. PICK n : n = [c EXCEPT !.step = "fail"] OBVIOUS
<1>5. prep' = [prep EXCEPT ![p] = n] BY <1>2, <1>4, Functions DEF Remember, PrepGoto
<1>6. /\ n \in PrepState /\ n.step = "fail" /\ n.kind = c.kind /\ n.want = c.want
      /\ n.fp = c.fp /\ n.copy = c.copy /\ n.seen = c.seen
  BY <1>3, <1>4 DEF PrepState, PrepSteps
<1>7. Observing(n) BY <1>3, <1>6 DEF Observing
<1>8. Replay(n) BY <1>3, <1>6 DEF Replay, Preparing, Replaying
<1>9. Failing(n) BY <1>6 DEF Failing
<1>10. Owned(n)' BY <1>1, <1>3, <1>6 DEF Owned
<1>11. op[p].step = "idle" BY <1>2, <1>3, NoCall
<1>12. Linked(n, op[p]) BY <1>6, <1>11 DEF Linked
<1>13. /\ records \subseteq Failures /\ calls \in 0 .. MaxCalls
       /\ status \in [1 .. MaxCalls -> Statuses]
  BY DEF PrepInv, PrepTyped
<1>14. calls <= calls' /\ calls' \in 0 .. MaxCalls BY <1>1, <1>13
<1>15. OthersKept(p) BY <1>1 DEF OthersKept
<1>16. PICK r : r = Record(c.fp, c.category, c.copy) OBVIOUS
<1>17. r.fp = c.fp /\ r.category = c.category /\ r.by = c.copy BY <1>16 DEF Record
<1>18. records' = records \/ (c.fp # Unknown /\ records' = records \cup {r})
  BY <1>2, <1>16 DEF Remember, RecordFailure, Recorded
<1>19. c.fp # Unknown => r \in Failures BY <1>3, <1>16, Parts DEF Failures, Record, Failing
<1>20. c.fp # Unknown => Past(c.fp) /\ Justified(c.fp, c.category, c.copy)
  BY <1>3 DEF Observing, Failing
<1>21. records' \subseteq Failures BY <1>13, <1>18, <1>19
<1>22. \A t \in records' \ records : Past(t.fp) /\ Justified(t.fp, t.category, t.by)
  BY <1>17, <1>18, <1>20
<1>23. QED
  BY <1>1, <1>2, <1>3, <1>5, <1>6, <1>7, <1>8, <1>9, <1>10, <1>12, <1>13, <1>14, <1>15,
     <1>21, <1>22, Alone

LEMMA BeginStep ==
  ASSUME PrepInv, NEW p \in Procs, NEW kind \in {"prepare", "job"},
         NEW want \in SUBSET Digests, Begin(p, kind, want)
  PROVE  PrepInv'
<1>1. UNCHANGED <<still, records>> /\ calls' = calls + 1 /\ calls < MaxCalls
      /\ status' = [status EXCEPT ![calls + 1] = "ready"] /\ op[p].step = "idle"
  BY DEF Begin, still, world, recipeVars
<1>2. /\ records \subseteq Failures /\ calls \in 0 .. MaxCalls /\ runtime \in Nat
      /\ status \in [1 .. MaxCalls -> Statuses] /\ recipe \in Recipes \cup {None}
      /\ (recipe # None => recipe.at <= saved)
  BY DEF PrepInv, PrepTyped
<1>3. calls <= calls' /\ calls' \in 0 .. MaxCalls /\ calls + 1 \in 1 .. MaxCalls
  BY <1>1, <1>2, CallsAssumption
<1>4. status' \in [1 .. MaxCalls -> Statuses] BY <1>1, <1>2 DEF Statuses
<1>5. OthersKept(p)
  <2>1. ASSUME NEW c \in 1 .. calls PROVE status'[c] = status[c] BY <1>1, <1>2, CallsAssumption
  <2>2. QED BY <2>1 DEF OthersKept
<1>6. PICK seen : seen = IF kind = "job" THEN recipe ELSE None OBVIOUS
<1>7. seen \in Recipes \cup {None} /\ (seen # None => seen.at <= saved) BY <1>2, <1>6
<1>8. PICK fp : fp = [kind |-> kind, want |-> want, recipe |-> seen,
                      runtime |-> RuntimeConditions(kind), values |-> ValueConditions(kind),
                      ids |-> [s \in Digests |-> 0]]
  OBVIOUS
<1>9. RuntimeConditions(kind) \in Nat /\ RuntimeConditions(kind) <= runtime
  BY <1>2 DEF RuntimeConditions
<1>10. fp \in Fingerprints
  <2>1. values \in [head : Values, settings : Values] BY DEF PrepInv, PrepTyped
  <2>2. ValueConditions(kind) \in [head : Values, settings : Values \cup {None}]
    BY <2>1 DEF ValueConditions
  <2>3. QED BY <1>7, <1>8, <1>9, <2>2 DEF Fingerprints
<1>11. Past(fp)
  <2>1. \A s \in Digests : Incarnation(fp.kind, s) \in Nat \ {0}
    BY DEF Incarnation, PrepInv, PrepTyped
  <2>2. \A s \in Digests : fp.ids[s] = 0 BY <1>8
  <2>3. \A s \in Digests : fp.ids[s] <= Incarnation(fp.kind, s) BY <2>1, <2>2
  <2>4. QED BY <1>7, <1>8, <1>9, <2>3 DEF Past
<1>12. PICK todo : todo = IF kind = "job" THEN Entries(seen) ELSE want OBVIOUS
<1>13. todo \subseteq Digests BY <1>7, <1>12, EntriesTyped
<1>14. PICK c : c = IdlePrep OBVIOUS
<1>15. c \in PrepState BY <1>14, IdleKnown DEF PrepInv
<1>16. PICK n : n = [c EXCEPT !.step = "observe", !.kind = kind, !.want = want,
                              !.copy = calls + 1, !.seen = seen, !.todo = todo,
                              !.fp = fp]
  OBVIOUS
<1>17. prep' = [prep EXCEPT ![p] = n] BY <1>6, <1>8, <1>12, <1>14, <1>16 DEF Begin
<1>18. /\ n \in PrepState /\ n.step = "observe" /\ n.kind = kind /\ n.want = want
       /\ n.todo = todo /\ n.copy = calls + 1 /\ n.fp = fp /\ n.seen = seen
  <2>1. calls + 1 \in 0 .. MaxCalls /\ "observe" \in PrepSteps
    BY <1>2, <1>3, CallsAssumption DEF PrepSteps
  <2>2. n \in PrepState BY <1>7, <1>10, <1>13, <1>15, <1>16, <2>1 DEF PrepState
  <2>3. /\ n.step = "observe" /\ n.kind = kind /\ n.want = want /\ n.todo = todo
        /\ n.copy = calls + 1 /\ n.fp = fp /\ n.seen = seen
    BY <1>15, <1>16 DEF PrepState
  <2>4. QED BY <2>2, <2>3
<1>19. Observing(n)
  <2>1. fp # Unknown BY <1>10, UnknownAssumption
  <2>2. Looked(n) = n.todo BY <1>12, <1>18 DEF Looked
  <2>3. QED BY <1>8, <1>11, <1>18, <2>1, <2>2 DEF Observing
<1>20. Replay(n) BY <1>7, <1>18 DEF Replay, Preparing, Replaying
<1>21. Failing(n) BY <1>18 DEF Failing
<1>22. Owned(n)' BY <1>1, <1>2, <1>18 DEF Owned
<1>23. Linked(n, op[p]) BY <1>1, <1>18 DEF Linked
<1>24. QED
  BY <1>1, <1>2, <1>3, <1>4, <1>5, <1>17, <1>18, <1>19, <1>20, <1>21, <1>22, <1>23, Alone

-----------------------------------------------------------------------------
(* The host, and what happens to it. *)

LEMMA HostStep ==
  ASSUME PrepInv, UNCHANGED <<cacheVars, prep, calls, status, records, recipe, saved, lacked, under>>,
         Aging, PrepTyped', runtime' \in Nat
  PROVE  PrepInv'
<1>1. Numbers /\ Numbers' BY DEF PrepInv, PrepTyped, Numbers
<1>2. CacheInv'
  <2>1. CacheInv /\ UNCHANGED <<disk, lock, op, faults>> BY DEF PrepInv, cacheVars
  <2>2. faults' \in 0 .. MaxFaults BY <2>1 DEF CacheInv, CacheTypeOK
  <2>3. QED BY <2>1, <2>2, CacheRests
<1>3. RecordsTrue'
  <2>1. RecordsTrue /\ records \subseteq Failures BY DEF PrepInv, PrepTyped
  <2>2. ASSUME NEW c \in 1 .. MaxCalls PROVE under'[c] <= runtime'
    <3>1. under[c] \in Nat /\ under[c] <= runtime /\ under' = under
      BY <2>1, <1>1 DEF Numbers, RecordsTrue
    <3>2. runtime <= runtime' /\ runtime \in Nat /\ runtime' \in Nat BY <1>1 DEF Aging, Numbers
    <3>3. QED BY <3>1, <3>2
  <2>3. QED BY <1>1, <2>1, <2>2, RecordsStay
<1>4. ASSUME NEW p \in Procs
      PROVE  Local(prep[p])' /\ Linked(prep[p], op[p])' /\ SafeSave(op[p])'
  <2>1. PICK c : c = prep[p] OBVIOUS
  <2>2. PICK o : o = op[p] OBVIOUS
  <2>3. /\ c \in PrepState /\ Observing(c) /\ Replay(c) /\ Failing(c) /\ Owned(c)
        /\ Linked(c, o) /\ SafeSave(o) /\ (c.step # "idle" => c.copy \in 1 .. MaxCalls)
    BY <2>1, <2>2, Here
  <2>4. Observing(c)' /\ Replay(c)' /\ Failing(c)'
    BY <1>1, <2>3, ObservingStays, ReplayStays, FailingStays
  <2>5. Owned(c)' /\ Linked(c, o)' BY <2>3 DEF Owned, Linked
  <2>6. SafeSave(o)' BY <2>3 DEF SafeSave, Valid, cacheVars, disk
  <2>7. prep' = prep /\ op' = op BY DEF cacheVars
  <2>8. QED BY <2>1, <2>2, <2>4, <2>5, <2>6, <2>7 DEF Local
<1>5. (recipe' # None => recipe'.at <= saved') /\ LackedOK' /\ OneEach'
  BY DEF PrepInv, LackedOK, OneEach, cacheVars, disk
<1>6. QED BY <1>2, <1>3, <1>4, <1>5 DEF PrepInv

LEMMA VanishStep ==
  ASSUME PrepInv, NEW s \in Digests, Vanish(s)
  PROVE  PrepInv'
<1>1. /\ UNCHANGED <<cacheVars, prep, calls, status, records, recipe, saved, lacked, under,
                     birth, laid, runtime, values, back>>
      /\ here' = here \ {s}
  BY DEF Vanish, recipeVars
<1>2. PrepTyped' BY <1>1 DEF PrepInv, PrepTyped
<1>3. Aging BY <1>1, AgesNot DEF PrepInv, cacheVars, disk
<1>4. runtime' \in Nat BY <1>2 DEF PrepTyped
<1>5. QED BY <1>1, <1>2, <1>3, <1>4, HostStep

LEMMA ReturnStep ==
  ASSUME PrepInv, NEW s \in Digests, Return(s)
  PROVE  PrepInv'
<1>1. /\ UNCHANGED <<cacheVars, prep, calls, status, records, recipe, saved, lacked, under,
                     laid, runtime, values, back>>
      /\ here' = here \cup {s} /\ birth' = [birth EXCEPT ![s] = @ + 1]
  BY DEF Return, recipeVars
<1>2. Numbers BY DEF PrepInv, PrepTyped, Numbers
<1>3. birth' \in [Digests -> Nat \ {0}] BY <1>1, <1>2 DEF Numbers
<1>4. PrepTyped' BY <1>1, <1>3 DEF PrepInv, PrepTyped
<1>5. Aging
  <2>1. ASSUME NEW t \in Digests
        PROVE  /\ birth[t] <= birth'[t]
               /\ t \in here' \ here => birth[t] < birth'[t]
               /\ laid[t] <= laid'[t]
    <3>1. birth[t] \in Nat /\ laid[t] \in Nat BY <1>2 DEF Numbers
    <3>2. CASE t = s BY <1>1, <1>2, <3>1, <3>2 DEF Numbers
    <3>3. CASE t # s BY <1>1, <1>2, <3>1, <3>3 DEF Numbers
    <3>4. QED BY <3>2, <3>3
  <2>2. entry' \ entry = {} BY <1>1 DEF cacheVars, disk
  <2>3. runtime <= runtime' /\ saved <= saved' /\ back \subseteq back'
        /\ \A c \in 1 .. MaxCalls : under[c] <= under'[c]
    BY <1>1, <1>2 DEF Numbers
  <2>4. QED BY <1>1, <2>1, <2>2, <2>3 DEF Aging
<1>6. runtime' \in Nat BY <1>4 DEF PrepTyped
<1>7. QED BY <1>1, <1>4, <1>5, <1>6, HostStep

LEMMA RestoreStep ==
  ASSUME PrepInv, NEW s \in Digests, Restore(s)
  PROVE  PrepInv'
<1>1. /\ UNCHANGED <<cacheVars, prep, calls, status, records, recipe, saved, lacked, under,
                     birth, laid, runtime, values>>
      /\ here' = here \cup {s} /\ back' = back \cup {s}
  BY DEF Restore, recipeVars
<1>2. Numbers BY DEF PrepInv, PrepTyped, Numbers
<1>3. PrepTyped' BY <1>1 DEF PrepInv, PrepTyped
<1>4. Aging
  <2>1. ASSUME NEW t \in Digests
        PROVE  birth[t] <= birth'[t] /\ laid[t] <= laid'[t]
    BY <1>1, <1>2 DEF Numbers
  <2>2. entry' \ entry = {} /\ here' \ here \subseteq back' BY <1>1 DEF cacheVars, disk
  <2>3. runtime <= runtime' /\ saved <= saved' /\ back \subseteq back'
        /\ \A c \in 1 .. MaxCalls : under[c] <= under'[c]
    BY <1>1, <1>2 DEF Numbers
  <2>4. QED BY <1>1, <2>1, <2>2, <2>3 DEF Aging
<1>5. runtime' \in Nat BY <1>3 DEF PrepTyped
<1>6. QED BY <1>1, <1>3, <1>4, <1>5, HostStep

LEMMA ChangeValuesStep ==
  ASSUME PrepInv, ChangeValues
  PROVE  PrepInv'
<1>1. /\ UNCHANGED <<cacheVars, prep, calls, status, records, recipe, saved, lacked, under,
                     here, birth, laid, runtime, back>>
      /\ \/ \E v \in Values : values' = [values EXCEPT !.head = v]
         \/ \E v \in Values : values' = [values EXCEPT !.settings = v]
  BY DEF ChangeValues, recipeVars
<1>2. values' \in [head : Values, settings : Values] BY <1>1 DEF PrepInv, PrepTyped
<1>3. PrepTyped' BY <1>1, <1>2 DEF PrepInv, PrepTyped
<1>4. Aging BY <1>1, AgesNot DEF PrepInv, cacheVars, disk
<1>5. runtime' \in Nat BY <1>3 DEF PrepTyped
<1>6. QED BY <1>1, <1>3, <1>4, <1>5, HostStep

LEMMA ChangeRuntimeStep ==
  ASSUME PrepInv, ChangeRuntime
  PROVE  PrepInv'
<1>1. /\ UNCHANGED <<cacheVars, prep, calls, status, records, recipe, saved, lacked, under,
                     here, birth, laid, values, back>>
      /\ runtime' = runtime + 1
  BY DEF ChangeRuntime, recipeVars
<1>2. Numbers BY DEF PrepInv, PrepTyped, Numbers
<1>3. runtime' \in Nat BY <1>1, <1>2 DEF Numbers
<1>4. PrepTyped' BY <1>1, <1>3 DEF PrepInv, PrepTyped
<1>5. Aging
  <2>1. ASSUME NEW t \in Digests PROVE birth[t] <= birth'[t] /\ laid[t] <= laid'[t]
    BY <1>1, <1>2 DEF Numbers
  <2>2. entry' \ entry = {} /\ here' \ here = {} BY <1>1 DEF cacheVars, disk
  <2>3. runtime <= runtime' /\ saved <= saved' /\ back \subseteq back' BY <1>1, <1>2 DEF Numbers
  <2>4. ASSUME NEW c \in 1 .. MaxCalls PROVE under[c] <= under'[c] BY <1>1, <1>2 DEF Numbers
  <2>5. QED BY <1>1, <2>1, <2>2, <2>3, <2>4 DEF Aging
<1>6. QED BY <1>1, <1>3, <1>4, <1>5, HostStep

LEMMA ProbeFailsStep ==
  ASSUME PrepInv, NEW p \in Procs, ProbeFails(p)
  PROVE  PrepInv'
<1>1. PICK c : c = prep[p] OBVIOUS
<1>2. /\ c \in PrepState /\ Observing(c) /\ Replay(c) /\ Failing(c) /\ Owned(c)
      /\ c.step = "probe" /\ c.copy \in 1 .. MaxCalls /\ op[p] \in OpState /\ SafeSave(op[p])
  BY <1>1, Here DEF ProbeFails
<1>3. /\ UNCHANGED <<cacheVars, calls, status, records, recipe, saved, lacked, here, birth,
                     laid, runtime, values, back>>
      /\ under' = [under EXCEPT ![c.copy] = runtime]
  BY <1>1 DEF ProbeFails, recipeVars
<1>4. PICK n : n = [c EXCEPT !.step = "remember", !.category = "probe"] OBVIOUS
<1>5. prep' = [prep EXCEPT ![p] = n] BY <1>1, <1>4, Functions DEF ProbeFails
<1>6. /\ n \in PrepState /\ n.step = "remember" /\ n.category = "probe" /\ n.kind = c.kind
      /\ n.want = c.want /\ n.fp = c.fp /\ n.copy = c.copy /\ n.seen = c.seen
  BY <1>2, <1>4 DEF PrepState, PrepSteps
<1>7. op[p].step = "idle" BY <1>1, <1>2, NoCall
<1>8. Numbers BY DEF PrepInv, PrepTyped, Numbers
<1>9. under' \in [1 .. MaxCalls -> Nat] BY <1>2, <1>3, <1>8 DEF Numbers
<1>10. PrepTyped'
  <2>1. prep' \in [Procs -> PrepState] BY <1>5, <1>6, Functions
  <2>2. QED BY <1>3, <1>9, <2>1 DEF PrepInv, PrepTyped
<1>11. Numbers' BY <1>10 DEF PrepTyped, Numbers
<1>12. RecordsTrue /\ records \subseteq Failures BY DEF PrepInv, PrepTyped
<1>13. ASSUME NEW k \in 1 .. MaxCalls PROVE under[k] <= under'[k] /\ under'[k] <= runtime'
  <2>1. under[k] \in Nat /\ under[k] <= runtime /\ runtime \in Nat
    BY <1>8, <1>12 DEF Numbers, RecordsTrue
  <2>2. CASE k = c.copy BY <1>3, <1>8, <2>1, <2>2 DEF Numbers
  <2>3. CASE k # c.copy BY <1>3, <1>8, <2>1, <2>3 DEF Numbers
  <2>4. QED BY <2>2, <2>3
<1>14. Aging
  <2>1. ASSUME NEW t \in Digests PROVE birth[t] <= birth'[t] /\ laid[t] <= laid'[t]
    BY <1>3, <1>8 DEF Numbers
  <2>2. entry' \ entry = {} /\ here' \ here = {} BY <1>3 DEF cacheVars, disk
  <2>3. runtime <= runtime' /\ saved <= saved' /\ back \subseteq back' BY <1>3, <1>8 DEF Numbers
  <2>4. QED BY <1>3, <1>13, <2>1, <2>2, <2>3 DEF Aging
<1>15. RecordsTrue' BY <1>3, <1>8, <1>11, <1>12, <1>13, <1>14, RecordsStay
<1>16. CacheInv'
  <2>1. CacheInv /\ UNCHANGED <<disk, lock, op, faults>> BY <1>3 DEF PrepInv, cacheVars
  <2>2. faults' \in 0 .. MaxFaults BY <2>1 DEF CacheInv, CacheTypeOK
  <2>3. QED BY <2>1, <2>2, CacheRests
<1>17. Observing(n) BY <1>2, <1>6 DEF Observing
<1>18. Observing(n)' BY <1>6, <1>8, <1>11, <1>14, <1>17, ObservingStays
<1>19. Replay(n)' BY <1>2, <1>3, <1>6 DEF Replay, Preparing, Replaying
<1>20. n.fp # Unknown => n.fp.runtime <= under'[n.copy]
  BY <1>2, <1>3, <1>6, <1>8, <1>17 DEF Observing, Past, Numbers
<1>21. Failing(n)' BY <1>6, <1>20 DEF Failing, Justified
<1>22. Owned(n)' BY <1>2, <1>3, <1>6 DEF Owned
<1>23. Local(n)' BY <1>18, <1>19, <1>21, <1>22 DEF Local
<1>24. Linked(n, op[p]) BY <1>6, <1>7 DEF Linked
<1>25. PICK m : m = op[p] OBVIOUS
<1>26. op' = [op EXCEPT ![p] = m] /\ SafeSave(m)'
  BY <1>2, <1>3, <1>25, Functions DEF SafeSave, Valid, cacheVars, disk
<1>27. /\ LackedOK' /\ (recipe' # None => recipe'.at <= saved') /\ RecipeKept(p)
       /\ OthersKept(p) /\ calls <= calls'
  <2>1. entry' = entry /\ manifest' = manifest BY <1>3 DEF cacheVars, disk
  <2>2. calls \in Nat BY DEF PrepInv, PrepTyped
  <2>3. QED BY <1>3, <2>1, <2>2 DEF PrepInv, LackedOK, RecipeKept, Valid, OthersKept, Entries
<1>28. QED
  BY <1>1, <1>2, <1>5, <1>6, <1>10, <1>14, <1>15, <1>16, <1>23, <1>24, <1>25, <1>26, <1>27,
     Stepped

-----------------------------------------------------------------------------
(* The steps of a call of the cache. *)

LEMMA CacheStepped ==
  ASSUME PrepInv, NEW p \in Procs, NEW n \in PrepState, NEW m \in OpState,
         prep' = [prep EXCEPT ![p] = n], op' = [op EXCEPT ![p] = m], CacheInv',
         UNCHANGED <<here, birth, laid, runtime, values, back, under, recipe, saved, status, records>>,
         calls' \in 0 .. MaxCalls, calls <= calls', entry' \subseteq entry,
         lacked' \in BOOLEAN, lacked => lacked', LackedOK', RecipeKept(p),
         n.step # "idle" => prep[p].step # "idle" /\ n.copy = prep[p].copy,
         Observing(n), Replay(n), n.step \notin {"remember", "clear"},
         Linked(n, m), SafeSave(m)'
  PROVE  PrepInv'
<1>1. Numbers /\ RecordsTrue /\ records \subseteq Failures
      /\ (recipe # None => recipe.at <= saved) /\ calls \in 0 .. MaxCalls
  BY DEF PrepInv, PrepTyped, Numbers
<1>2. PrepTyped'
  <2>1. prep' \in [Procs -> PrepState] BY Functions
  <2>2. QED BY <2>1 DEF PrepInv, PrepTyped
<1>3. Numbers' BY <1>2 DEF PrepTyped, Numbers
<1>4. Aging BY AgesNot DEF PrepInv
<1>5. RecordsTrue'
  <2>1. \A c \in 1 .. MaxCalls : under'[c] <= runtime' BY <1>1 DEF RecordsTrue
  <2>2. QED BY <1>1, <1>3, <1>4, <2>1, RecordsStay
<1>6. Observing(n)' /\ Replay(n)' BY <1>1, <1>3, <1>4, ObservingStays, ReplayStays
<1>7. Failing(n)' BY DEF Failing
<1>8. Owned(n)'
  <2>1. Owned(prep[p]) /\ prep[p].copy \in Nat BY Here, Parts
  <2>2. QED BY <1>1, <2>1 DEF Owned
<1>9. Local(n)' BY <1>6, <1>7, <1>8 DEF Local
<1>10. OthersKept(p) BY DEF OthersKept
<1>11. recipe' # None => recipe'.at <= saved' BY <1>1
<1>12. QED BY <1>2, <1>4, <1>5, <1>9, <1>10, <1>11, Stepped

(* The command goes on as it was. *)
LEMMA CacheOnly ==
  ASSUME PrepInv, NEW p \in Procs, NEW m \in OpState, UNCHANGED prep,
         op' = [op EXCEPT ![p] = m], CacheInv',
         UNCHANGED <<here, birth, laid, runtime, values, back, under, recipe, saved, status, records>>,
         calls' \in 0 .. MaxCalls, calls <= calls', entry' \subseteq entry,
         lacked' \in BOOLEAN, lacked => lacked', LackedOK', RecipeKept(p),
         prep[p].step \notin {"remember", "clear"}, Linked(prep[p], m), SafeSave(m)'
  PROVE  PrepInv'
<1>1. PICK n : n = prep[p] OBVIOUS
<1>2. n \in PrepState /\ Observing(n) /\ Replay(n) BY <1>1, Here
<1>3. prep' = [prep EXCEPT ![p] = n] BY <1>1, Functions
<1>4. QED BY <1>1, <1>2, <1>3, CacheStepped

(* A call is under way. *)
LEMMA Calling ==
  ASSUME PrepInv, NEW p \in Procs, op[p].step # "idle"
  PROVE  /\ op[p] \in OpState /\ SafeSave(op[p]) /\ op[p].kind \in {"save", "read", "collect"}
         /\ prep[p].step \notin {"remember", "clear"}
         /\ op[p].kind = "save" <=> prep[p].step = "saving"
         /\ op[p].kind = "read" <=> prep[p].step = "fetch"
         /\ op[p].step = "reading" => op[p].kind = "read"
         /\ op[p].step \in Working => op[p].kind # "read"
         /\ \A m : /\ m.kind = op[p].kind /\ m.step # "idle"
                   /\ IF m.kind = "read" THEN m.step \in {"wait", "reading"}
                                         ELSE m.step # "reading"
                   => Linked(prep[p], m)
BY Here DEF Linked, Working

LEMMA StillLacked ==
  ASSUME PrepInv, NEW p \in Procs, UNCHANGED <<recipe, lacked, entry, manifest>>
  PROVE  /\ LackedOK' /\ lacked' \in BOOLEAN /\ (lacked => lacked') /\ RecipeKept(p)
         /\ calls \in 0 .. MaxCalls /\ calls <= calls
<1>1. Entries(recipe') = Entries(recipe) /\ Valid' = Valid BY DEF Entries, Valid
<1>2. RecipeKept(p) BY <1>1 DEF RecipeKept
<1>3. LackedOK' BY <1>1 DEF PrepInv, LackedOK
<1>4. lacked \in BOOLEAN /\ calls \in 0 .. MaxCalls BY DEF PrepInv, PrepTyped
<1>5. QED BY <1>2, <1>3, <1>4

LEMMA WorkShape ==
  ASSUME PrepInv, NEW p \in Procs, Work(p), UNCHANGED recipe
  PROVE  /\ op' = [op EXCEPT ![p] = op'[p]] /\ op'[p].kind = op[p].kind
         /\ op[p].step # "idle" /\ op'[p].step \in Working /\ op[p].kind # "read"
         /\ SafeSave(op[p])' /\ entry' \subseteq entry /\ RecipeKept(p)
<1>1. PICK o : o = op[p] OBVIOUS
<1>2. PICK m : m = op'[p] OBVIOUS
<1>3. o \in OpState /\ SafeSave(o) /\ op \in [Procs -> OpState] BY <1>1, Here, Functions
<1>4. Entries(recipe') = Entries(recipe) BY DEF Entries
<1>5. SUFFICES /\ op' = [op EXCEPT ![p] = m] /\ m.kind = o.kind
               /\ o.step # "idle" /\ m.step \in Working /\ o.kind # "read"
               /\ SafeSave(m)' /\ entry' \subseteq entry /\ RecipeKept(p)
  <2>1. SafeSave(m)' <=> SafeSave(op[p])' BY <1>2 DEF SafeSave
  <2>2. QED BY <1>1, <1>2, <2>1
<1>6. ASSUME o.step \in Working PROVE RecipeKept(p) /\ o.kind # "read"
  BY <1>1, <1>6, Here DEF RecipeKept, Linked, Working
<1>7. Working = {"protect", "stage", "room", "purge", "publish", "manifest", "touch",
                  "stored", "undo", "unmanifest", "leave"}
  BY DEF Working, Steps
<1>8. CASE LockExclusive(p)
  <2>1. PICK s : s = FirstStep(o.kind) OBVIOUS
  <2>2. s \in {"protect", "stage", "room"} /\ (o.kind = "save" => s = "protect")
    BY <2>1 DEF FirstStep
  <2>3. op' = [op EXCEPT ![p].step = s, ![p].todo = o.want] /\ UNCHANGED <<entry, manifest>>
        /\ o.step = "wait" /\ o.kind # "read"
    BY <1>1, <1>8, <2>1 DEF LockExclusive
  <2>4. m.step = s /\ m.kind = o.kind BY <1>1, <1>2, <1>3, <2>3 DEF OpState
  <2>5. op' = [op EXCEPT ![p] = m] BY <1>2, <1>3, <2>3
  <2>6. SafeSave(m)' BY <2>2, <2>4 DEF SafeSave
  <2>7. RecipeKept(p) BY <2>3, <1>4 DEF RecipeKept, Valid
  <2>8. QED BY <1>7, <2>2, <2>3, <2>4, <2>5, <2>6, <2>7
<1>9. CASE \E d \in Digests : Stage(p, d)
  <2>1. PICK d \in Digests : Stage(p, d) BY <1>9
  <2>2. PICK k : k = IF o.kind = "save" THEN Selected(p, d) ELSE o.kept OBVIOUS
  <2>3. o.kept \subseteq k BY <1>1, <2>2 DEF Selected
  <2>4. /\ op' = [op EXCEPT ![p].todo = @ \ {d}, ![p].fresh = @ \cup NewContent(d),
                            ![p].kept = k]
        /\ o.step = "stage" /\ UNCHANGED <<entry, manifest>>
    BY <1>1, <2>1, <2>2 DEF Stage
  <2>5. m.step = o.step /\ m.kind = o.kind /\ m.kept = k
    BY <1>1, <1>2, <1>3, <2>4 DEF OpState
  <2>6. op' = [op EXCEPT ![p] = m] BY <1>2, <1>3, <2>4
  <2>7. o.step \in Working BY <2>4 DEF Working, Steps
  <2>8. SafeSave(m)' BY <1>3, <1>4, <2>3, <2>4, <2>5 DEF SafeSave, Valid
  <2>9. QED BY <1>6, <1>7, <2>4, <2>5, <2>6, <2>7, <2>8
<1>10. CASE \/ StageFails(p) \/ RefuseIncomplete(p) \/ RoomRefused(p) \/ EvictFails(p)
           \/ UndoneAll(p)
  <2>1. /\ op' = [op EXCEPT ![p].step = "leave", ![p].ok = FALSE] /\ UNCHANGED entry
        /\ o.step \in {"stage", "room", "purge", "undo"}
    BY <1>1, <1>10 DEF StageFails, RefuseIncomplete, Incomplete, RoomRefused, EvictFails,
                      UndoneAll, Fail
  <2>2. m.step = "leave" /\ m.kind = o.kind BY <1>1, <1>2, <1>3, <2>1 DEF OpState
  <2>3. op' = [op EXCEPT ![p] = m] BY <1>2, <1>3, <2>1
  <2>4. o.step \in Working BY <2>1 DEF Working, Steps
  <2>5. SafeSave(m)' BY <2>2 DEF SafeSave
  <2>6. QED BY <1>6, <1>7, <2>1, <2>2, <2>3, <2>4, <2>5
<1>11. CASE StagedAll(p) \/ PublishedAll(p)
  <2>1. PICK s \in {"touch", "room"} :
           op' = [op EXCEPT ![p].step = s] /\ (s = "room" => o.step = "stage")
    <3>1. CASE StagedAll(p)
      <4>1. PICK s : s = IF o.kind = "snapshot" /\ o.fresh = {} THEN "touch" ELSE "room"
        OBVIOUS
      <4>2. op' = [op EXCEPT ![p].step = s] /\ o.step = "stage"
        BY <1>1, <3>1, <4>1 DEF StagedAll, Goto
      <4>3. QED BY <4>1, <4>2
    <3>2. CASE PublishedAll(p) BY <3>2 DEF PublishedAll, Goto
    <3>3. QED BY <1>11, <3>1, <3>2
  <2>2. UNCHANGED <<entry, manifest>> /\ o.step \in {"stage", "publish"}
    BY <1>1, <1>11 DEF StagedAll, PublishedAll, disk
  <2>3. m.step = s /\ m.kind = o.kind /\ m.kept = o.kept
    BY <1>1, <1>2, <1>3, <2>1 DEF OpState
  <2>4. op' = [op EXCEPT ![p] = m] BY <1>2, <1>3, <2>1
  <2>5. o.step \in Working BY <2>2 DEF Working, Steps
  <2>6. SafeSave(m)' BY <1>3, <1>4, <2>1, <2>2, <2>3 DEF SafeSave, Valid
  <2>7. QED BY <1>6, <1>7, <2>2, <2>3, <2>4, <2>5, <2>6
<1>12. CASE RoomFound(p) \/ Collected(p) \/ PublishManifest(p)
  <2>1. /\ o.step \in {"room", "manifest"} /\ UNCHANGED entry
        /\ \/ op' = [op EXCEPT ![p].step = "publish", ![p].todo = o.fresh]
           \/ op' = [op EXCEPT ![p].step = "leave", ![p].ok = TRUE]
           \/ op' = [op EXCEPT ![p].step = "publish", ![p].at = None, ![p].todo = @ \ {o.at}]
    BY <1>1, <1>12 DEF RoomFound, Collected, PublishManifest, disk
  <2>2. m.step \in {"publish", "leave"} /\ m.kind = o.kind
    BY <1>1, <1>2, <1>3, <2>1 DEF OpState
  <2>3. op' = [op EXCEPT ![p] = m] BY <1>2, <1>3, <2>1
  <2>4. o.step \in Working BY <2>1 DEF Working, Steps
  <2>5. SafeSave(m)' BY <2>2 DEF SafeSave
  <2>6. QED BY <1>6, <1>7, <2>1, <2>2, <2>3, <2>4, <2>5
<1>13. CASE Evict(p)
  <2>1. PICK d \in Oldest(Removable(p)) :
           /\ entry' = entry \ {d}
           /\ op' = [op EXCEPT ![p].step = "purge", ![p].at = d]
    BY <1>13 DEF Evict
  <2>2. o.step = "room" /\ manifest' = manifest BY <1>1, <1>13 DEF Evict
  <2>3. m.step = "purge" /\ m.kind = o.kind /\ m.kept = o.kept
    BY <1>1, <1>2, <1>3, <2>1 DEF OpState
  <2>4. op' = [op EXCEPT ![p] = m] BY <1>2, <1>3, <2>1
  <2>5. o.step \in Working BY <2>2 DEF Working, Steps
  <2>6. SafeSave(m)' BY <1>3, <1>4, <2>1, <2>2, <2>3 DEF SafeSave, Valid
  <2>7. QED BY <1>6, <1>7, <2>1, <2>2, <2>3, <2>4, <2>5, <2>6
<1>14. CASE EvictManifest(p) \/ UndoManifest(p)
  <2>1. PICK s \in {"room", "undo"} :
           /\ op' = [op EXCEPT ![p].step = s, ![p].at = None] /\ manifest' \subseteq manifest
           /\ UNCHANGED entry /\ (s = "room" => o.step = "purge")
           /\ (s = "undo" => o.step = "unmanifest")
    BY <1>1, <1>14 DEF EvictManifest, UndoManifest, Drop
  <2>2. m.step = s /\ m.kind = o.kind /\ m.kept = o.kept /\ m.todo = o.todo /\ m.fresh = o.fresh
    BY <1>1, <1>2, <1>3, <2>1 DEF OpState
  <2>3. op' = [op EXCEPT ![p] = m] BY <1>2, <1>3, <2>1
  <2>4. o.step \in Working BY <2>1 DEF Working, Steps
  <2>5. SafeSave(m)' BY <1>3, <1>4, <2>1, <2>2 DEF SafeSave, Valid
  <2>6. QED BY <1>6, <1>7, <2>1, <2>2, <2>3, <2>4, <2>5
<1>15. CASE PublishFails(p) \/ Touch(p)
  <2>1. /\ o.step \in {"publish", "manifest", "touch"} /\ UNCHANGED entry
        /\ \/ op' = [op EXCEPT ![p].step = "undo", ![p].todo = PublishedSoFar(p),
                               ![p].at = None]
           \/ op' = [op EXCEPT ![p].step = "undo", ![p].todo = PublishedSoFar(p)]
           \/ op' = [op EXCEPT ![p].step = "stored", ![p].ok = TRUE]
    BY <1>1, <1>15 DEF PublishFails, Touch, disk
  <2>2. PublishedSoFar(p) \subseteq o.fresh BY <1>1 DEF PublishedSoFar
  <2>3. /\ m.kind = o.kind /\ m.fresh = o.fresh
        /\ \/ m.step = "undo" /\ m.todo = PublishedSoFar(p)
           \/ m.step = "stored"
    BY <1>1, <1>2, <1>3, <2>1 DEF OpState
  <2>4. op' = [op EXCEPT ![p] = m] BY <1>2, <1>3, <2>1
  <2>5. o.step \in Working BY <2>1 DEF Working, Steps
  <2>6. SafeSave(m)' BY <2>2, <2>3 DEF SafeSave
  <2>7. QED BY <1>6, <1>7, <2>1, <2>3, <2>4, <2>5, <2>6
<1>16. CASE \E d \in Digests : Undo(p, d)
  <2>1. PICK d \in Digests : Undo(p, d) BY <1>16
  <2>2. /\ o.step = "undo" /\ d \in o.todo /\ entry' = entry \ {d}
        /\ op' = [op EXCEPT ![p].step = "unmanifest", ![p].at = d, ![p].todo = @ \ {d}]
    BY <1>1, <2>1 DEF Undo
  <2>3. m.step = "unmanifest" /\ m.kind = o.kind /\ m.at = d /\ m.todo = o.todo \ {d}
        /\ m.fresh = o.fresh
    BY <1>1, <1>2, <1>3, <2>2 DEF OpState
  <2>4. op' = [op EXCEPT ![p] = m] BY <1>2, <1>3, <2>2
  <2>5. o.step \in Working BY <2>2 DEF Working, Steps
  <2>6. SafeSave(m)' BY <1>3, <2>2, <2>3 DEF SafeSave
  <2>7. QED BY <1>6, <1>7, <2>2, <2>3, <2>4, <2>5, <2>6
<1>17. CASE \E d \in Digests : UndoFails(p, d)
  <2>1. PICK d \in Digests : UndoFails(p, d) BY <1>17
  <2>2. /\ o.step \in {"undo", "unmanifest"} /\ UNCHANGED entry
        /\ op' = [op EXCEPT ![p].step = "undo", ![p].todo = @ \ {d}, ![p].at = None,
                            ![p].fresh = @ \ {d}]
    BY <1>1, <2>1 DEF UndoFails, disk
  <2>3. m.step = "undo" /\ m.kind = o.kind /\ m.todo = o.todo \ {d} /\ m.fresh = o.fresh \ {d}
    BY <1>1, <1>2, <1>3, <2>2 DEF OpState
  <2>4. op' = [op EXCEPT ![p] = m] BY <1>2, <1>3, <2>2
  <2>5. o.step \in Working BY <2>2 DEF Working, Steps
  <2>6. SafeSave(m)' BY <1>3, <2>2, <2>3 DEF SafeSave
  <2>7. QED BY <1>6, <1>7, <2>2, <2>3, <2>4, <2>5, <2>6
<1>18. QED
  BY <1>8, <1>9, <1>10, <1>11, <1>12, <1>13, <1>14, <1>15, <1>16, <1>17 DEF Work

LEMMA WorkInCacheStep ==
  ASSUME PrepInv, NEW p \in Procs, WorkInCache(p)
  PROVE  PrepInv'
<1>1. /\ Work(p) /\ UNCHANGED <<prep, calls, here, birth, laid, runtime, values, back, under, recipe, saved,
                                status, records>>
      /\ lacked' = (lacked \/ ~(Entries(recipe) \subseteq entry'))
  BY DEF WorkInCache, world
<1>2. PICK m : m = op'[p] OBVIOUS
<1>3. /\ op' = [op EXCEPT ![p] = m] /\ m.kind = op[p].kind
      /\ op[p].step # "idle" /\ m.step \in Working /\ op[p].kind # "read"
      /\ entry' \subseteq entry /\ RecipeKept(p)
      /\ SafeSave(op[p])'
  BY <1>1, <1>2, WorkShape
<1>4. SafeSave(m)' BY <1>2, <1>3 DEF SafeSave
<1>5. CacheInv' BY <1>1, WorkHolds DEF PrepInv
<1>6. m \in OpState BY <1>2, <1>5 DEF CacheInv, CacheTypeOK, OpState
<1>7. prep[p].step \notin {"remember", "clear"} /\ Linked(prep[p], m)
  BY <1>3, Calling DEF Working
<1>8. lacked \in BOOLEAN /\ calls \in 0 .. MaxCalls BY DEF PrepInv, PrepTyped
<1>9. lacked' \in BOOLEAN /\ (lacked => lacked') /\ calls' \in 0 .. MaxCalls /\ calls <= calls'
  BY <1>1, <1>8
<1>10. LackedOK' BY <1>1 DEF LackedOK, Entries
<1>11. QED
  BY <1>1, <1>3, <1>4, <1>5, <1>6, <1>7, <1>9, <1>10, CacheOnly

LEMMA SaveRecipeStep ==
  ASSUME PrepInv, NEW p \in Procs, SaveRecipe(p)
  PROVE  PrepInv'
<1>1. PICK cap \in Caps : Ask(p, "save", prep[p].want, cap) BY DEF SaveRecipe
<1>2. prep[p].step = "save" /\ PrepGoto(p, "saving")
      /\ UNCHANGED <<calls, here, birth, laid, runtime, values, back, under, recipe, saved, lacked, status,
                     records>>
  BY DEF SaveRecipe, world, recipeVars
<1>3. PICK c : c = prep[p] OBVIOUS
<1>4. c \in PrepState /\ Observing(c) /\ Replay(c) /\ c.want \subseteq Digests BY <1>3, Here, Parts
<1>5. PICK n : n = [c EXCEPT !.step = "saving"] OBVIOUS
<1>6. prep' = [prep EXCEPT ![p] = n] BY <1>2, <1>3, <1>5, Functions DEF PrepGoto
<1>7. /\ n \in PrepState /\ n.step = "saving" /\ n.kind = c.kind /\ n.want = c.want
      /\ n.fp = c.fp /\ n.copy = c.copy /\ n.seen = c.seen
  BY <1>4, <1>5 DEF PrepState, PrepSteps
<1>8. Observing(n) /\ Replay(n)
  BY <1>2, <1>3, <1>4, <1>7 DEF Observing, Replay, Preparing, Replaying
<1>9. cap \in Nat BY CapsAssumption
<1>10. CacheInv' BY <1>1, <1>3, <1>4, <1>9, AskStep DEF PrepInv, Kinds
<1>11. PICK o : o = Idle OBVIOUS
<1>12. PICK m : m = [o EXCEPT !.step = "wait", !.kind = "save", !.want = c.want, !.cap = cap]
  OBVIOUS
<1>13. op' = [op EXCEPT ![p] = m] /\ UNCHANGED entry BY <1>1, <1>3, <1>11, <1>12 DEF Ask, disk
<1>14. m \in OpState /\ m.step = "wait" /\ m.kind = "save"
  BY <1>4, <1>9, <1>11, <1>12, IdleTyped DEF OpState, Steps, Kinds
<1>15. Linked(n, m) /\ SafeSave(m)' BY <1>7, <1>14 DEF Linked, SafeSave
<1>16. /\ LackedOK' /\ lacked' \in BOOLEAN /\ (lacked => lacked') /\ RecipeKept(p)
       /\ calls' \in 0 .. MaxCalls /\ calls <= calls'
  BY <1>1, <1>2, StillLacked DEF Ask, disk
<1>17. QED
  BY <1>2, <1>3, <1>6, <1>7, <1>8, <1>10, <1>13, <1>14, <1>15, <1>16, CacheStepped

LEMMA FetchAsksStep ==
  ASSUME PrepInv, NEW p \in Procs, NEW d \in Digests, Fetch(p, d), d \in entry
  PROVE  PrepInv'
<1>1. Ask(p, "read", {d}, 0) /\ prep[p].step = "pick" /\ PrepGoto(p, "fetch")
      /\ UNCHANGED <<calls, here, birth, laid, runtime, values, back, under, recipe, saved, lacked, status,
                     records>>
  BY DEF Fetch, world, recipeVars
<1>2. PICK c : c = prep[p] OBVIOUS
<1>3. c \in PrepState /\ Observing(c) /\ Replay(c) BY <1>2, Here
<1>4. PICK n : n = [c EXCEPT !.step = "fetch"] OBVIOUS
<1>5. prep' = [prep EXCEPT ![p] = n] BY <1>1, <1>2, <1>4, Functions DEF PrepGoto
<1>6. /\ n \in PrepState /\ n.step = "fetch" /\ n.kind = c.kind /\ n.want = c.want
      /\ n.fp = c.fp /\ n.copy = c.copy /\ n.seen = c.seen /\ n.todo = c.todo
  BY <1>3, <1>4 DEF PrepState, PrepSteps
<1>7. Observing(n) /\ Replay(n)
  BY <1>1, <1>2, <1>3, <1>6 DEF Observing, Replay, Preparing, Replaying
<1>8. CacheInv' BY <1>1, AskStep DEF PrepInv, Kinds
<1>9. PICK o : o = Idle OBVIOUS
<1>10. PICK m : m = [o EXCEPT !.step = "wait", !.kind = "read", !.want = {d}, !.cap = 0]
  OBVIOUS
<1>11. op' = [op EXCEPT ![p] = m] /\ UNCHANGED entry BY <1>1, <1>9, <1>10 DEF Ask, disk
<1>12. m \in OpState /\ m.step = "wait" /\ m.kind = "read"
  BY <1>9, <1>10, IdleTyped DEF OpState, Steps, Kinds
<1>13. Linked(n, m) /\ SafeSave(m)' BY <1>6, <1>12 DEF Linked, SafeSave
<1>14. /\ LackedOK' /\ lacked' \in BOOLEAN /\ (lacked => lacked') /\ RecipeKept(p)
       /\ calls' \in 0 .. MaxCalls /\ calls <= calls'
  BY <1>1, StillLacked DEF Ask, disk
<1>15. QED
  BY <1>1, <1>2, <1>5, <1>6, <1>7, <1>8, <1>11, <1>12, <1>13, <1>14, CacheStepped

LEMMA CollectStep ==
  ASSUME PrepInv, NEW p \in Procs, Collect(p)
  PROVE  PrepInv'
<1>1. PICK cap \in Caps : Ask(p, "collect", {}, cap) BY DEF Collect
<1>2. prep[p].step = "idle" /\ calls < MaxCalls /\ calls' = calls + 1
      /\ UNCHANGED <<prep, here, birth, laid, runtime, values, back, under, recipe, saved, lacked, status,
                     records>>
  BY DEF Collect, world, recipeVars
<1>3. cap \in Nat BY CapsAssumption
<1>4. CacheInv' BY <1>1, <1>3, AskStep DEF PrepInv, Kinds
<1>5. PICK o : o = Idle OBVIOUS
<1>6. PICK m : m = [o EXCEPT !.step = "wait", !.kind = "collect", !.want = {}, !.cap = cap]
  OBVIOUS
<1>7. op' = [op EXCEPT ![p] = m] /\ UNCHANGED entry BY <1>1, <1>5, <1>6 DEF Ask, disk
<1>8. m \in OpState /\ m.step = "wait" /\ m.kind = "collect"
  BY <1>3, <1>5, <1>6, IdleTyped DEF OpState, Steps, Kinds
<1>9. Linked(prep[p], m) /\ SafeSave(m)' BY <1>2, <1>8 DEF Linked, SafeSave
<1>10. /\ LackedOK' /\ lacked' \in BOOLEAN /\ (lacked => lacked') /\ RecipeKept(p)
  BY <1>1, <1>2, StillLacked DEF Ask, disk
<1>11. calls' \in 0 .. MaxCalls /\ calls <= calls'
  BY <1>2, CallsAssumption DEF PrepInv, PrepTyped
<1>12. QED BY <1>2, <1>4, <1>7, <1>8, <1>9, <1>10, <1>11, CacheOnly

LEMMA LockRecipeStep ==
  ASSUME PrepInv, NEW p \in Procs, LockRecipe(p)
  PROVE  PrepInv'
<1>1. Protect(p, Previous)
      /\ UNCHANGED <<prep, calls, here, birth, laid, runtime, values, back, under, recipe, saved, lacked,
                     status, records>>
  BY DEF LockRecipe, world
<1>2. CacheInv' BY <1>1, ProtectStep DEF PrepInv
<1>3. PICK o : o = op[p] OBVIOUS
<1>4. PICK m : m = op'[p] OBVIOUS
<1>5. o \in OpState /\ op \in [Procs -> OpState] /\ m \in OpState
  BY <1>2, <1>3, <1>4, Here, Functions DEF CacheInv, CacheTypeOK, OpState
<1>6. /\ o.step = "protect" /\ op' = [op EXCEPT ![p].step = "stage", ![p].kept = Previous \cap Valid]
      /\ entry' = entry /\ manifest' = manifest
  BY <1>1, <1>3 DEF Protect, disk
<1>7. op' = [op EXCEPT ![p] = m] BY <1>4, <1>5, <1>6
<1>8. m.step = "stage" /\ m.kind = o.kind /\ m.kept = Previous \cap Valid
  BY <1>3, <1>4, <1>5, <1>6 DEF OpState
<1>9. prep[p].step \notin {"remember", "clear"} /\ Linked(prep[p], m)
  <2>1. o.step \in Working BY <1>6 DEF Working, Steps
  <2>2. o.kind # "read" BY <1>3, <1>6, <2>1, Calling
  <2>3. QED BY <1>3, <1>6, <1>8, <2>2, Calling
<1>10. SafeSave(m)' BY <1>1, <1>6, <1>8 DEF SafeSave, Previous, Valid, Entries
<1>11. /\ LackedOK' /\ lacked' \in BOOLEAN /\ (lacked => lacked') /\ RecipeKept(p)
       /\ calls' \in 0 .. MaxCalls /\ calls <= calls'
  BY <1>1, <1>6, StillLacked
<1>12. QED BY <1>1, <1>2, <1>5, <1>6, <1>7, <1>9, <1>10, <1>11, CacheOnly

LEMMA CacheUnsafeStep ==
  ASSUME PrepInv, NEW p \in Procs, CacheUnsafe(p)
  PROVE  PrepInv'
<1>1. Unsafe(p)
      /\ UNCHANGED <<calls, here, birth, laid, runtime, values, back, under, recipe, saved, lacked, status,
                     records>>
  BY DEF CacheUnsafe, world, recipeVars
<1>2. CacheInv' BY <1>1, UnsafeStep DEF PrepInv
<1>3. PICK m : m = Idle OBVIOUS
<1>4. m \in OpState /\ m.step = "idle" /\ SafeSave(m)' BY <1>3, IdleTyped DEF SafeSave
<1>5. op' = [op EXCEPT ![p] = m] /\ op[p].step = "wait" /\ UNCHANGED <<entry, manifest>>
  BY <1>1, <1>3 DEF Unsafe, disk
<1>6. /\ LackedOK' /\ lacked' \in BOOLEAN /\ (lacked => lacked') /\ RecipeKept(p)
      /\ calls' \in 0 .. MaxCalls /\ calls <= calls'
  BY <1>1, <1>5, StillLacked
<1>7. PICK c : c = prep[p] OBVIOUS
<1>8. c \in PrepState /\ Observing(c) /\ Replay(c) /\ c.step \notin {"remember", "clear"}
  BY <1>5, <1>7, Here, Calling
<1>9. CASE c.step \in {"saving", "fetch"}
  <2>1. PICK n : n = [c EXCEPT !.step = "fail"] OBVIOUS
  <2>2. prep' = [prep EXCEPT ![p] = n]
    BY <1>7, <1>9, <2>1, Functions DEF CacheUnsafe, PrepGoto
  <2>3. /\ n \in PrepState /\ n.step = "fail" /\ n.kind = c.kind /\ n.want = c.want
        /\ n.fp = c.fp /\ n.copy = c.copy /\ n.seen = c.seen
    BY <1>8, <2>1 DEF PrepState, PrepSteps
  <2>4. Observing(n) /\ Replay(n)
    BY <1>8, <2>3 DEF Observing, Replay, Preparing, Replaying
  <2>5. Linked(n, m) BY <1>4, <2>3 DEF Linked
  <2>6. QED
    BY <1>1, <1>2, <1>4, <1>5, <1>6, <1>7, <1>9, <2>2, <2>3, <2>4, <2>5, CacheStepped
<1>10. CASE c.step \notin {"saving", "fetch"}
  <2>1. UNCHANGED prep BY <1>7, <1>10 DEF CacheUnsafe
  <2>2. Linked(prep[p], m) BY <1>4, <1>7, <1>10 DEF Linked
  <2>3. QED BY <1>1, <1>2, <1>4, <1>5, <1>6, <1>7, <1>8, <2>1, <2>2, CacheOnly
<1>11. QED BY <1>9, <1>10

LEMMA FetchLockedStep ==
  ASSUME PrepInv, NEW p \in Procs, FetchLocked(p)
  PROVE  PrepInv'
<1>1. LockShared(p)
      /\ UNCHANGED <<calls, here, birth, laid, runtime, values, back, under, recipe, saved, lacked, status,
                     records>>
  BY DEF FetchLocked, world, recipeVars
<1>2. CacheInv' BY <1>1, LockSharedStep DEF PrepInv
<1>3. op[p].step = "wait" /\ op[p].kind = "read" /\ UNCHANGED <<entry, manifest>>
  BY <1>1 DEF LockShared, disk
<1>4. /\ LackedOK' /\ lacked' \in BOOLEAN /\ (lacked => lacked') /\ RecipeKept(p)
      /\ calls' \in 0 .. MaxCalls /\ calls <= calls'
  BY <1>1, <1>3, StillLacked
<1>5. PICK c : c = prep[p] OBVIOUS
<1>6. c \in PrepState /\ Observing(c) /\ Replay(c) /\ c.step = "fetch"
  BY <1>3, <1>5, Here, Calling
<1>7. PICK m : m = op'[p] OBVIOUS
<1>8. op \in [Procs -> OpState] /\ m \in OpState
  BY <1>2, <1>7, Functions DEF CacheInv, CacheTypeOK, OpState
<1>9. CASE op[p].want \subseteq Valid
  <2>1. op' = [op EXCEPT ![p].step = "reading"] /\ UNCHANGED prep
    BY <1>1, <1>9 DEF LockShared, FetchLocked, Goto
  <2>2. op' = [op EXCEPT ![p] = m] /\ m.step = "reading" /\ m.kind = "read"
    BY <1>3, <1>7, <1>8, <2>1 DEF OpState
  <2>3. Linked(prep[p], m) BY <1>3, <2>2, Calling
  <2>4. SafeSave(m)' BY <2>2 DEF SafeSave
  <2>5. QED BY <1>1, <1>2, <1>3, <1>4, <1>5, <1>6, <1>8, <2>1, <2>2, <2>3, <2>4, CacheOnly
<1>10. CASE ~(op[p].want \subseteq Valid)
  <2>1. op' = [op EXCEPT ![p] = Idle] /\ PrepGoto(p, "fail")
    BY <1>1, <1>10 DEF LockShared, FetchLocked
  <2>2. op' = [op EXCEPT ![p] = m] /\ m = Idle BY <1>7, <1>8, <2>1
  <2>3. m.step = "idle" /\ SafeSave(m)' BY <2>2, IdleTyped DEF SafeSave
  <2>4. PICK n : n = [c EXCEPT !.step = "fail"] OBVIOUS
  <2>5. prep' = [prep EXCEPT ![p] = n] BY <1>5, <2>1, <2>4, Functions DEF PrepGoto
  <2>6. /\ n \in PrepState /\ n.step = "fail" /\ n.kind = c.kind /\ n.want = c.want
        /\ n.fp = c.fp /\ n.copy = c.copy /\ n.seen = c.seen
    BY <1>6, <2>4 DEF PrepState, PrepSteps
  <2>7. Observing(n) /\ Replay(n)
    BY <1>6, <2>6 DEF Observing, Replay, Preparing, Replaying
  <2>8. Linked(n, m) BY <2>3, <2>6 DEF Linked
  <2>9. QED
    BY <1>1, <1>2, <1>3, <1>4, <1>5, <1>6, <1>8, <2>2, <2>3, <2>5, <2>6, <2>7, <2>8,
       CacheStepped
<1>11. QED BY <1>9, <1>10

LEMMA FetchedStep ==
  ASSUME PrepInv, NEW p \in Procs, Fetched(p)
  PROVE  PrepInv'
<1>1. EndRead(p)
      /\ UNCHANGED <<calls, here, birth, laid, runtime, values, back, under, recipe, saved, lacked, status,
                     records>>
  BY DEF Fetched, world, recipeVars
<1>2. CacheInv' BY <1>1, EndReadStep DEF PrepInv
<1>3. op[p].step = "reading" /\ UNCHANGED <<entry, manifest>> BY <1>1 DEF EndRead, disk
<1>4. /\ LackedOK' /\ lacked' \in BOOLEAN /\ (lacked => lacked') /\ RecipeKept(p)
      /\ calls' \in 0 .. MaxCalls /\ calls <= calls'
  BY <1>1, <1>3, StillLacked
<1>5. op[p].kind = "read" BY <1>3, Calling
<1>6. PICK c : c = prep[p] OBVIOUS
<1>7. c \in PrepState /\ Observing(c) /\ Replay(c) /\ c.step = "fetch"
  BY <1>3, <1>5, <1>6, Here, Calling
<1>8. PICK m : m = Idle OBVIOUS
<1>9. m \in OpState /\ m.step = "idle" /\ SafeSave(m)' BY <1>8, IdleTyped DEF SafeSave
<1>10. op' = [op EXCEPT ![p] = m] BY <1>1, <1>8 DEF EndRead
<1>11. PICK s : s = IF c.todo = op[p].want THEN "probe" ELSE "pick" OBVIOUS
<1>12. s \in {"probe", "pick"} BY <1>11
<1>13. PICK n : n = [c EXCEPT !.todo = c.todo \ op[p].want, !.step = s] OBVIOUS
<1>14. prep' = [prep EXCEPT ![p] = n] BY <1>6, <1>11, <1>13, Functions DEF Fetched
<1>15. /\ n \in PrepState /\ n.step = s /\ n.kind = c.kind /\ n.want = c.want
       /\ n.fp = c.fp /\ n.copy = c.copy /\ n.seen = c.seen /\ n.todo \subseteq c.todo
  BY <1>7, <1>12, <1>13 DEF PrepState, PrepSteps
<1>16. Observing(n) /\ Replay(n)
  BY <1>7, <1>12, <1>15 DEF Observing, Replay, Preparing, Replaying
<1>17. Linked(n, m) BY <1>9, <1>12, <1>15 DEF Linked
<1>18. QED
  BY <1>1, <1>2, <1>3, <1>4, <1>6, <1>7, <1>9, <1>10, <1>12, <1>14, <1>15, <1>16, <1>17,
     CacheStepped

LEMMA LeaveCacheStep ==
  ASSUME PrepInv, NEW p \in Procs, LeaveCache(p)
  PROVE  PrepInv'
<1>1. Leave(p)
      /\ UNCHANGED <<calls, here, birth, laid, runtime, values, back, under, recipe, saved, lacked, status,
                     records>>
  BY DEF LeaveCache, world
<1>2. CacheInv' BY <1>1, LeaveStep DEF PrepInv
<1>3. op[p].step = "leave" /\ UNCHANGED <<entry, manifest>> BY <1>1 DEF Leave, disk
<1>4. /\ LackedOK' /\ lacked' \in BOOLEAN /\ (lacked => lacked') /\ RecipeKept(p)
      /\ calls' \in 0 .. MaxCalls /\ calls <= calls'
  BY <1>1, <1>3, StillLacked
<1>5. PICK c : c = prep[p] OBVIOUS
<1>6. c \in PrepState /\ Observing(c) /\ Replay(c) /\ c.step \notin {"remember", "clear"}
  BY <1>3, <1>5, Here, Calling
<1>7. PICK m : m = Idle OBVIOUS
<1>8. m \in OpState /\ m.step = "idle" /\ SafeSave(m)' BY <1>7, IdleTyped DEF SafeSave
<1>9. op' = [op EXCEPT ![p] = m] BY <1>1, <1>7 DEF Leave
<1>10. CASE c.step = "saving"
  <2>1. PICK s : s = IF op[p].ok THEN "finish" ELSE "fail" OBVIOUS
  <2>2. s \in {"finish", "fail"} BY <2>1
  <2>3. PICK n : n = [c EXCEPT !.step = s] OBVIOUS
  <2>4. prep' = [prep EXCEPT ![p] = n]
    BY <1>5, <1>10, <2>1, <2>3, Functions DEF LeaveCache, PrepGoto
  <2>5. /\ n \in PrepState /\ n.step = s /\ n.kind = c.kind /\ n.want = c.want
        /\ n.fp = c.fp /\ n.copy = c.copy /\ n.seen = c.seen
    BY <1>6, <2>2, <2>3 DEF PrepState, PrepSteps
  <2>6. Observing(n) /\ Replay(n)
    BY <1>6, <1>10, <2>2, <2>5 DEF Observing, Replay, Preparing, Replaying
  <2>7. Linked(n, m) BY <1>8, <2>2, <2>5 DEF Linked
  <2>8. QED
    BY <1>1, <1>2, <1>3, <1>4, <1>5, <1>8, <1>9, <1>10, <2>2, <2>4, <2>5, <2>6, <2>7,
       CacheStepped
<1>11. CASE c.step # "saving"
  <2>1. UNCHANGED prep BY <1>5, <1>11 DEF LeaveCache
  <2>2. c.step # "fetch" BY <1>3, <1>5, Calling DEF Working, Steps
  <2>3. Linked(prep[p], m) BY <1>5, <1>8, <1>11, <2>2 DEF Linked
  <2>4. QED BY <1>1, <1>2, <1>3, <1>4, <1>5, <1>6, <1>8, <1>9, <2>1, <2>3, CacheOnly
<1>12. QED BY <1>10, <1>11

-----------------------------------------------------------------------------
(* The steps that add to the cache or change the recipe, and crashes. *)

LEMMA PublishedEntryStep ==
  ASSUME PrepInv, NEW p \in Procs, NEW d \in Digests, PublishedEntry(p, d)
  PROVE  PrepInv'
<1>1. /\ PublishEntry(p, d) /\ laid' = [laid EXCEPT ![d] = @ + 1]
      /\ UNCHANGED <<prep, calls, here, birth, runtime, values, back, under, recipe, saved, lacked, status,
                     records>>
  BY DEF PublishedEntry, recipeVars
<1>2. CacheInv' BY <1>1, PublishEntryStep DEF PrepInv
<1>3. PICK o : o = op[p] OBVIOUS
<1>4. PICK m : m = op'[p] OBVIOUS
<1>5. o \in OpState /\ op \in [Procs -> OpState] /\ m \in OpState
  BY <1>2, <1>3, <1>4, Here, Functions DEF CacheInv, CacheTypeOK, OpState
<1>6. /\ o.step = "publish" /\ op' = [op EXCEPT ![p].step = "manifest", ![p].at = d]
      /\ entry' = entry \cup {d}
  BY <1>1, <1>3 DEF PublishEntry
<1>7. op' = [op EXCEPT ![p] = m] BY <1>4, <1>5, <1>6
<1>8. m.step = "manifest" /\ m.kind = o.kind BY <1>3, <1>4, <1>5, <1>6 DEF OpState
<1>9. o.step \in Working BY <1>6 DEF Working, Steps
<1>10. o.kind # "read" BY <1>3, <1>6, <1>9, Calling
<1>11. prep[p].step \notin {"remember", "clear"} /\ Linked(prep[p], m)
  BY <1>3, <1>6, <1>8, <1>10, Calling
<1>12. SafeSave(m)' BY <1>8 DEF SafeSave
<1>13. Numbers /\ RecordsTrue /\ records \subseteq Failures /\ calls \in Nat
  BY DEF PrepInv, PrepTyped, Numbers
<1>14. laid' \in [Digests -> Nat \ {0}] BY <1>1, <1>13 DEF Numbers
<1>15. PrepTyped' BY <1>1, <1>14 DEF PrepInv, PrepTyped
<1>16. Numbers' BY <1>15 DEF PrepTyped, Numbers
<1>17. Aging
  <2>1. ASSUME NEW t \in Digests
        PROVE  /\ birth[t] <= birth'[t] /\ laid[t] <= laid'[t]
               /\ t \in entry' \ entry => laid[t] < laid'[t]
    <3>1. birth[t] \in Nat /\ laid[t] \in Nat BY <1>13 DEF Numbers
    <3>2. CASE t = d BY <1>1, <1>6, <1>13, <3>1, <3>2 DEF Numbers
    <3>3. CASE t # d BY <1>1, <1>6, <1>13, <3>1, <3>3 DEF Numbers
    <3>4. QED BY <3>2, <3>3
  <2>2. here' \ here = {} BY <1>1
  <2>3. runtime <= runtime' /\ saved <= saved' /\ back \subseteq back'
        /\ \A c \in 1 .. MaxCalls : under[c] <= under'[c]
    BY <1>1, <1>13 DEF Numbers
  <2>4. QED BY <1>1, <2>1, <2>2, <2>3 DEF Aging
<1>18. RecordsTrue'
  <2>1. \A c \in 1 .. MaxCalls : under'[c] <= runtime' BY <1>1, <1>13 DEF RecordsTrue
  <2>2. QED BY <1>1, <1>13, <1>16, <1>17, <2>1, RecordsStay
<1>19. LackedOK' BY <1>1, <1>6 DEF PrepInv, LackedOK, Entries
<1>20. PICK n : n = prep[p] OBVIOUS
<1>21. /\ n \in PrepState /\ Observing(n) /\ Replay(n) /\ Owned(n)
       /\ n.step \notin {"remember", "clear"} /\ prep' = [prep EXCEPT ![p] = n]
  BY <1>1, <1>11, <1>20, Here, Functions
<1>22. Observing(n)' /\ Replay(n)'
  BY <1>13, <1>16, <1>17, <1>21, ObservingStays, ReplayStays
<1>23. Local(n)' BY <1>1, <1>21, <1>22 DEF Local, Failing, Owned
<1>24. RecipeKept(p) /\ OthersKept(p) BY <1>1, <1>3, <1>9 DEF RecipeKept, OthersKept
<1>25. (recipe' # None => recipe'.at <= saved') /\ calls <= calls' BY <1>1, <1>13 DEF PrepInv
<1>26. QED
  BY <1>2, <1>5, <1>7, <1>11, <1>12, <1>15, <1>17, <1>18, <1>19, <1>20, <1>21, <1>23, <1>24,
     <1>25, Stepped

LEMMA WriteRecipeStep ==
  ASSUME PrepInv, NEW p \in Procs, WriteRecipe(p)
  PROVE  PrepInv'
<1>1. /\ Close(p) /\ saved' = saved + 1 /\ lacked' = FALSE
      /\ recipe' = [at |-> saved + 1, entries |-> op[p].want]
      /\ UNCHANGED <<prep, calls, here, birth, laid, runtime, values, back, under, status, records>>
  BY DEF WriteRecipe, world
<1>2. CacheInv' BY <1>1, CloseStep DEF PrepInv
<1>3. PICK o : o = op[p] OBVIOUS
<1>4. PICK m : m = op'[p] OBVIOUS
<1>5. o \in OpState /\ op \in [Procs -> OpState] /\ m \in OpState
  BY <1>2, <1>3, <1>4, Here, Functions DEF CacheInv, CacheTypeOK, OpState
<1>6. /\ o.step = "stored" /\ op' = [op EXCEPT ![p].step = "leave"]
      /\ UNCHANGED <<entry, manifest>>
  BY <1>1, <1>3 DEF Close, Goto, disk
<1>7. op' = [op EXCEPT ![p] = m] BY <1>4, <1>5, <1>6
<1>8. m.step = "leave" /\ m.kind = o.kind BY <1>3, <1>4, <1>5, <1>6 DEF OpState
<1>9. o.step \in Working BY <1>6 DEF Working, Steps
<1>10. o.kind # "read" BY <1>3, <1>6, <1>9, Calling
<1>11. prep[p].step \notin {"remember", "clear"} /\ Linked(prep[p], m)
  BY <1>3, <1>6, <1>8, <1>10, Calling
<1>12. SafeSave(m)' BY <1>8 DEF SafeSave
<1>13. Numbers /\ RecordsTrue /\ records \subseteq Failures /\ calls \in Nat
  BY DEF PrepInv, PrepTyped, Numbers
<1>14. saved \in Nat /\ o.want \subseteq Digests BY <1>5, <1>13, Fields DEF Numbers
<1>15. recipe' \in Recipes /\ recipe'.at = saved' /\ Entries(recipe') = o.want
  BY <1>1, <1>3, <1>14, RecipeAssumption DEF Recipes, Entries
<1>16. o.want \subseteq Valid
  <2>1. Batch(o) /\ o.step = "stored" BY <1>3, <1>6, AtWork DEF PrepInv
  <2>2. QED BY <2>1 DEF Batch, Ending
<1>17. PrepTyped'
  <2>1. PrepTyped BY DEF PrepInv
  <2>2. recipe' \in Recipes \cup {None} BY <1>15
  <2>3. saved' \in Nat BY <1>1, <1>14
  <2>4. lacked' \in BOOLEAN BY <1>1
  <2>5. prep' = prep /\ calls' = calls /\ here' = here /\ birth' = birth /\ laid' = laid
        /\ runtime' = runtime /\ values' = values /\ under' = under /\ status' = status
        /\ records' = records
    BY <1>1
  <2>6. QED BY <2>1, <2>2, <2>3, <2>4, <2>5 DEF PrepTyped
<1>18. Numbers' BY <1>17 DEF PrepTyped, Numbers
<1>19. Aging
  <2>1. ASSUME NEW t \in Digests PROVE birth[t] <= birth'[t] /\ laid[t] <= laid'[t]
    BY <1>1, <1>13 DEF Numbers
  <2>2. entry' \ entry = {} /\ here' \ here = {} BY <1>1, <1>6
  <2>3. runtime <= runtime' /\ saved <= saved' /\ back \subseteq back'
        /\ \A c \in 1 .. MaxCalls : under[c] <= under'[c]
    BY <1>1, <1>13 DEF Numbers
  <2>4. saved < recipe'.at BY <1>1, <1>14, <1>15
  <2>5. recipe' # recipe
    <3>1. CASE recipe = None BY <1>15, <3>1, RecipeAssumption
    <3>2. CASE recipe # None
      <4>1. recipe \in Recipes /\ recipe.at <= saved BY <3>2 DEF PrepInv, PrepTyped
      <4>2. recipe.at \in Nat BY <4>1 DEF Recipes
      <4>3. QED BY <1>14, <2>4, <4>1, <4>2
    <3>3. QED BY <3>1, <3>2
  <2>6. QED BY <2>1, <2>2, <2>3, <2>4, <2>5 DEF Aging
<1>20. RecordsTrue'
  <2>1. \A c \in 1 .. MaxCalls : under'[c] <= runtime' BY <1>1, <1>13 DEF RecordsTrue
  <2>2. QED BY <1>1, <1>13, <1>18, <1>19, <2>1, RecordsStay
<1>21. LackedOK'
  <2>1. Entries(recipe') \subseteq entry' BY <1>6, <1>15, <1>16 DEF Valid
  <2>2. QED BY <2>1 DEF LackedOK, Entries
<1>22. PICK n : n = prep[p] OBVIOUS
<1>23. /\ n \in PrepState /\ Observing(n) /\ Replay(n) /\ Owned(n)
       /\ n.step \notin {"remember", "clear"} /\ prep' = [prep EXCEPT ![p] = n]
  BY <1>1, <1>11, <1>22, Here, Functions
<1>24. Observing(n)' /\ Replay(n)'
  BY <1>13, <1>18, <1>19, <1>23, ObservingStays, ReplayStays
<1>25. Local(n)' BY <1>1, <1>23, <1>24 DEF Local, Failing, Owned
<1>26. RecipeKept(p) /\ OthersKept(p) BY <1>1, <1>3, <1>9 DEF RecipeKept, OthersKept
<1>27. (recipe' # None => recipe'.at <= saved') /\ calls <= calls'
  BY <1>1, <1>13, <1>14, <1>15
<1>28. QED
  BY <1>2, <1>5, <1>7, <1>11, <1>12, <1>17, <1>19, <1>20, <1>21, <1>22, <1>23, <1>25, <1>26,
     <1>27, Stepped

LEMMA InvalidateStep ==
  ASSUME PrepInv, NEW p \in Procs, Invalidate(p)
  PROVE  PrepInv'
<1>1. /\ prep[p].step = "invalidate" /\ Missing(p)
      /\ recipe' = (IF Stale(p) THEN None ELSE recipe)
      /\ lacked' = (IF Stale(p) THEN FALSE ELSE lacked)
      /\ UNCHANGED <<cacheVars, calls, here, birth, laid, runtime, values, back, under, saved, status, records>>
  BY DEF Invalidate, world
<1>2. PICK c : c = prep[p] OBVIOUS
<1>3. /\ c \in PrepState /\ Observing(c) /\ Replay(c) /\ Owned(c) /\ c.step = "invalidate"
      /\ op[p] \in OpState /\ SafeSave(op[p])
  BY <1>1, <1>2, Here
<1>4. /\ c.kind = "job" /\ c.seen # None
      /\ c.fp # Unknown /\ c.fp.recipe # None /\ c.seen # c.fp.recipe => recipe # c.fp.recipe
  BY <1>3 DEF Replay, Replaying
<1>5. op[p].step = "idle" BY <1>1, NoCall
<1>6. PICK n : n = [c EXCEPT !.step = "remember", !.category = "materialization"] OBVIOUS
<1>7. prep' = [prep EXCEPT ![p] = n] BY <1>1, <1>2, <1>6, Functions DEF Missing
<1>8. /\ n \in PrepState /\ n.step = "remember" /\ n.category = "materialization"
      /\ n.kind = c.kind /\ n.want = c.want /\ n.fp = c.fp /\ n.copy = c.copy
      /\ n.seen = c.seen
  BY <1>3, <1>6 DEF PrepState, PrepSteps
<1>9. Observing(n) BY <1>3, <1>8 DEF Observing
<1>10. Replay(n) BY <1>3, <1>8 DEF Replay, Preparing, Replaying
<1>11. n.fp # Unknown => Gone(n.fp)'
  <2>1. SUFFICES ASSUME c.fp # Unknown
                 PROVE  c.fp.kind = "job" /\ (c.fp.recipe = None \/ recipe' # c.fp.recipe)
    BY <1>8 DEF Gone
  <2>2. c.fp.kind = "job" BY <1>3, <1>4, <2>1 DEF Observing
  <2>3. CASE Stale(p) BY <1>1, <2>2, <2>3
  <2>4. CASE ~Stale(p)
    <3>1. recipe' = recipe /\ recipe # c.seen BY <1>1, <1>2, <2>4 DEF Stale
    <3>2. QED BY <1>4, <2>1, <2>2, <3>1
  <2>5. QED BY <2>3, <2>4
<1>12. Numbers /\ RecordsTrue /\ records \subseteq Failures /\ calls \in Nat
       /\ recipe \in Recipes \cup {None} /\ lacked \in BOOLEAN
  BY DEF PrepInv, PrepTyped, Numbers
<1>13. recipe' \in {recipe, None} /\ lacked' \in BOOLEAN /\ (recipe' = recipe /\ lacked => lacked')
  BY <1>1, <1>2, <1>4, <1>12 DEF Stale
<1>14. PrepTyped'
  <2>1. prep' \in [Procs -> PrepState] BY <1>7, <1>8, Functions
  <2>2. recipe' \in Recipes \cup {None} BY <1>12, <1>13
  <2>3. QED BY <1>1, <1>13, <2>1, <2>2 DEF PrepInv, PrepTyped
<1>15. Numbers' BY <1>14 DEF PrepTyped, Numbers
<1>16. Aging BY <1>1, <1>13, AgesNot DEF PrepInv, cacheVars, disk
<1>17. RecordsTrue'
  <2>1. \A k \in 1 .. MaxCalls : under'[k] <= runtime' BY <1>1, <1>12 DEF RecordsTrue
  <2>2. QED BY <1>1, <1>12, <1>15, <1>16, <2>1, RecordsStay
<1>18. CacheInv'
  <2>1. CacheInv /\ UNCHANGED <<disk, lock, op, faults>> BY <1>1 DEF PrepInv, cacheVars
  <2>2. faults' \in 0 .. MaxFaults BY <2>1 DEF CacheInv, CacheTypeOK
  <2>3. QED BY <2>1, <2>2, CacheRests
<1>19. Observing(n)' /\ Replay(n)'
  BY <1>8, <1>9, <1>10, <1>12, <1>15, <1>16, ObservingStays, ReplayStays
<1>20. Failing(n)' BY <1>8, <1>11 DEF Failing, Justified
<1>21. Owned(n)' BY <1>1, <1>3, <1>8 DEF Owned
<1>22. Local(n)' BY <1>19, <1>20, <1>21 DEF Local
<1>23. PICK m : m = op[p] OBVIOUS
<1>24. UNCHANGED <<entry, manifest, op>> BY <1>1 DEF cacheVars, disk
<1>25. m \in OpState /\ op' = [op EXCEPT ![p] = m] /\ Linked(n, m) /\ SafeSave(m)'
  <2>1. op' = [op EXCEPT ![p] = m] BY <1>23, <1>24, Functions
  <2>2. Linked(n, m) BY <1>2, <1>3, <1>5, <1>8, <1>23, Here DEF Linked
  <2>3. SafeSave(m)' BY <1>5, <1>23 DEF SafeSave
  <2>4. QED BY <1>3, <1>23, <2>1, <2>2, <2>3
<1>26. LackedOK' BY <1>1, <1>24 DEF PrepInv, LackedOK, Entries
<1>27. RecipeKept(p)
  <2>1. Entries(recipe') \subseteq Entries(recipe) BY <1>13 DEF Entries
  <2>2. QED BY <1>24, <2>1 DEF RecipeKept, Valid
<1>28. /\ (recipe' # None => recipe'.at <= saved') /\ OthersKept(p) /\ calls <= calls'
  BY <1>1, <1>12, <1>13 DEF PrepInv, OthersKept
<1>29. n.step # "idle" => prep[p].step # "idle" /\ n.copy = prep[p].copy BY <1>1, <1>2, <1>8
<1>30. QED
  BY <1>7, <1>8, <1>14, <1>16, <1>17, <1>18, <1>22, <1>25, <1>26, <1>27, <1>28, <1>29, Stepped

LEMMA CrashStep ==
  ASSUME PrepInv, NEW p \in Procs, Crash(p)
  PROVE  PrepInv'
<1>1. /\ Ended(p)
      /\ UNCHANGED <<calls, here, birth, laid, runtime, values, back, under, recipe, saved, lacked, status,
                     records>>
  BY DEF Crash, world
<1>2. PICK m : m = (IF Die(p) THEN Idle ELSE op[p]) OBVIOUS
<1>3. /\ CacheInv' /\ op' = [op EXCEPT ![p] = m] /\ UNCHANGED <<entry, manifest>>
      /\ m \in OpState /\ m.step = "idle"
  <2>1. CASE Die(p)
    <3>1. CacheInv' /\ op' = [op EXCEPT ![p] = Idle] /\ UNCHANGED <<entry, manifest>>
      BY <2>1, DieStep DEF PrepInv, Die, disk
    <3>2. m = Idle BY <1>2, <2>1
    <3>3. QED BY <3>1, <3>2, IdleTyped
  <2>2. CASE ~Die(p)
    <3>1. op[p].step = "idle" /\ faults < MaxFaults /\ faults' = faults + 1
          /\ UNCHANGED <<disk, lock, op>>
      BY <2>2 DEF Crash
    <3>2. faults \in 0 .. MaxFaults BY DEF PrepInv, CacheInv, CacheTypeOK
    <3>3. faults' \in 0 .. MaxFaults BY <3>1, <3>2, CapsAssumption
    <3>4. CacheInv' BY <3>1, <3>3, CacheRests DEF PrepInv
    <3>5. m = op[p] BY <1>2, <2>2
    <3>6. op' = [op EXCEPT ![p] = m] BY <3>1, <3>5, Functions
    <3>7. m \in OpState BY <3>5, Here
    <3>8. QED BY <3>1, <3>4, <3>5, <3>6, <3>7 DEF disk
  <2>3. QED BY <2>1, <2>2
<1>4. SafeSave(m)' BY <1>3 DEF SafeSave
<1>5. PICK n : n = IdlePrep OBVIOUS
<1>6. n \in PrepState /\ n.step = "idle" /\ Observing(n) /\ Replay(n)
  BY <1>5, IdleKnown DEF PrepInv
<1>7. prep' = [prep EXCEPT ![p] = n] BY <1>1, <1>5 DEF Ended
<1>8. Linked(n, m) BY <1>3, <1>6 DEF Linked
<1>9. /\ LackedOK' /\ lacked' \in BOOLEAN /\ (lacked => lacked') /\ RecipeKept(p)
      /\ calls' \in 0 .. MaxCalls /\ calls <= calls'
  BY <1>1, <1>3, StillLacked
<1>10. QED BY <1>1, <1>3, <1>4, <1>6, <1>7, <1>8, <1>9, CacheStepped

-----------------------------------------------------------------------------
(* The whole system. *)

LEMMA InitHolds == Init => PrepInv
<1>1. SUFFICES ASSUME Init PROVE PrepInv OBVIOUS
<1>2. PICK was \in Wants \cup {{}}, evicted \in BOOLEAN :
        /\ entry = (IF evicted THEN {} ELSE was)
        /\ recipe = (IF was = {} THEN None ELSE [at |-> 1, entries |-> was])
        /\ lacked = (evicted /\ was # {})
  BY <1>1 DEF Init
<1>3. /\ manifest = entry /\ older \in {R \in SUBSET (entry \X entry) : OrderOf(R, entry)}
      /\ staged = {} /\ purged = {} /\ writer = None /\ readers = {}
      /\ op = [p \in Procs |-> Idle] /\ faults = 0 /\ records = {}
      /\ prep = [p \in Procs |-> IdlePrep] /\ calls = 0
      /\ here = Digests /\ birth = [s \in Digests |-> 1]
      /\ laid = [s \in Digests |-> 1]
      /\ values = [head |-> Usual, settings |-> Usual]
      /\ runtime = 1 /\ under = [c \in 1 .. MaxCalls |-> 0] /\ saved = 1
      /\ status = [c \in 1 .. MaxCalls |-> "none"]
  BY <1>1 DEF Init, GuardInit
<1>4. was \subseteq Digests BY WantsAssumption
<1>5. recipe \in Recipes \cup {None} /\ (recipe # None => recipe.at <= saved)
      /\ (recipe = None <=> was = {}) /\ Entries(recipe) = was
  <2>1. CASE was = {} BY <1>2, <2>1 DEF Entries
  <2>2. CASE was # {}
    <3>1. recipe = [at |-> 1, entries |-> was] BY <1>2, <2>2
    <3>2. recipe \in Recipes BY <1>4, <3>1 DEF Recipes
    <3>3. recipe # None BY <3>2, RecipeAssumption
    <3>4. QED BY <1>3, <2>2, <3>1, <3>2, <3>3 DEF Entries
  <2>3. QED BY <2>1, <2>2
<1>6. CacheInv
  <2>1. \A p \in Procs : op[p] = Idle BY <1>3
  <2>2. Idle.step \notin Working BY IdleTyped DEF Working
  <2>3. CacheTypeOK
    <3>1. DiskOK BY <1>2, <1>3, <1>4 DEF DiskOK
    <3>2. op \in [Procs -> OpState] BY <1>3, IdleTyped
    <3>3. faults \in 0 .. MaxFaults BY <1>3, CapsAssumption
    <3>4. QED BY <1>3, <3>1, <3>2, <3>3, TypeParts
  <2>4. LockOK BY <1>3, <2>1, <2>2, IdleTyped, NoneAssumption DEF LockOK
  <2>5. ReadersSeeWhole BY <2>1, IdleTyped DEF ReadersSeeWhole
  <2>6. \A p \in Procs : Batch(op[p]) BY <2>1, <2>2, IdleTyped, OffWork
  <2>7. QED BY <2>3, <2>4, <2>5, <2>6 DEF CacheInv
<1>7. PrepTyped
  <2>1. IdlePrep \in PrepState
    <3>1. 0 \in 0 .. MaxCalls BY CallsAssumption
    <3>2. QED BY <3>1 DEF IdlePrep, PrepState, PrepSteps
  <2>2. calls \in 0 .. MaxCalls BY <1>3, CallsAssumption
  <2>3. lacked \in BOOLEAN BY <1>2
  <2>4. runtime \in Nat /\ saved \in Nat BY <1>3
  <2>5. birth \in [Digests -> Nat \ {0}] /\ laid \in [Digests -> Nat \ {0}]
        /\ under \in [1 .. MaxCalls -> Nat] /\ status \in [1 .. MaxCalls -> Statuses]
    BY <1>3 DEF Statuses
  <2>6. prep \in [Procs -> PrepState] BY <1>3, <2>1
  <2>7. here \subseteq Digests /\ records \subseteq Failures
        /\ values \in [head : Values, settings : Values]
    BY <1>3, ValuesAssumption
  <2>8. QED BY <1>5, <2>2, <2>3, <2>4, <2>5, <2>6, <2>7 DEF PrepTyped
<1>8. RecordsTrue BY <1>3 DEF RecordsTrue
<1>9. LackedOK BY <1>2, <1>5 DEF LackedOK
<1>10. \A p \in Procs : prep[p] = IdlePrep /\ op[p] = Idle BY <1>3
<1>11. IdlePrep.step = "idle" /\ Local(IdlePrep)
  BY <1>7, IdleKnown DEF Local
<1>12. Linked(IdlePrep, Idle) /\ SafeSave(Idle)
  BY <1>11, IdleTyped DEF Linked, SafeSave
<1>13. OneEach BY <1>10, <1>11 DEF OneEach
<1>14. QED BY <1>5, <1>6, <1>7, <1>8, <1>9, <1>10, <1>11, <1>12, <1>13 DEF PrepInv

LEMMA StepHolds ==
  ASSUME PrepInv, NEW p \in Procs, Step(p)
  PROVE  PrepInv'
<1>1. ASSUME NEW s \in Digests, Observe(p, s) \/ Validate(p, s) PROVE PrepInv'
  BY <1>1, ObserveStep, ValidateStep
<1>2. ASSUME NEW s \in Digests, Fetch(p, s) PROVE PrepInv'
  BY <1>2, FetchAsksStep, FetchMissesStep
<1>3. ASSUME NEW s \in Digests, PublishedEntry(p, s) PROVE PrepInv'
  BY <1>3, PublishedEntryStep
<1>4. CASE Malformed(p) \/ CacheUnsafe(p) \/ Unobservable(p) \/ Blocked(p)
  BY <1>4, MalformedStep, CacheUnsafeStep, UnobservableStep, BlockedStep
<1>5. CASE Admitted(p) \/ Recheck(p) \/ Remember(p) \/ FailCopy(p) \/ Succeed(p)
  BY <1>5, AdmitStep, RememberStep, FailCopyStep, SucceedStep
<1>6. CASE ClearFailure(p) \/ Unfit(p) \/ Reserve(p) \/ CopyFails(p)
  BY <1>6, ClearFailureStep, TurnsBack, ReserveStep
<1>7. CASE CopySources(p) \/ SaveRecipe(p) \/ LockRecipe(p)
  BY <1>7, ReserveStep, SaveRecipeStep, LockRecipeStep
<1>8. CASE WriteRecipe(p) \/ LeaveCache(p) \/ ReadRecipe(p) \/ Look(p) \/ CheckSafe(p)
  BY <1>8, WriteRecipeStep, LeaveCacheStep, ReadRecipeStep, LookStep, CheckSafeStep
<1>9. CASE Invalidate(p) \/ FetchLocked(p) \/ Fetched(p)
  BY <1>9, InvalidateStep, FetchLockedStep, FetchedStep
<1>10. CASE ProbeSucceeds(p) \/ ProbeFails(p) \/ ProbeTimesOut(p) \/ WorkInCache(p)
  BY <1>10, ProbeSucceedsStep, ProbeFailsStep, TurnsBack, WorkInCacheStep
<1>11. QED BY <1>1, <1>2, <1>3, <1>4, <1>5, <1>6, <1>7, <1>8, <1>9, <1>10 DEF Step

LEMMA StutterHolds ==
  ASSUME PrepInv, UNCHANGED vars
  PROVE  PrepInv'
<1>1. /\ UNCHANGED <<cacheVars, prep, calls, status, records, recipe, saved, lacked, under>>
      /\ UNCHANGED <<birth, laid, runtime, values, back, saved, here, entry>>
  BY DEF vars, prepVars, world, recipeVars, cacheVars, disk
<1>2. PrepTyped /\ PrepTyped' BY <1>1 DEF PrepInv, PrepTyped
<1>3. Aging BY <1>1, <1>2, AgesNot
<1>4. runtime' \in Nat BY <1>2 DEF PrepTyped
<1>5. QED BY <1>1, <1>2, <1>3, <1>4, HostStep

LEMMA NextHolds == PrepInv /\ [Next]_vars => PrepInv'
<1>1. SUFFICES ASSUME PrepInv, [Next]_vars PROVE PrepInv' OBVIOUS
<1>2. ASSUME NEW p \in Procs, Start(p) PROVE PrepInv'
  <2>1. ASSUME NEW want \in Wants, Begin(p, "prepare", want) PROVE PrepInv'
    <3>1. want \in SUBSET Digests BY WantsAssumption
    <3>2. QED BY <1>1, <2>1, <3>1, BeginStep
  <2>2. CASE Begin(p, "job", {})
    <3>1. {} \in SUBSET Digests OBVIOUS
    <3>2. QED BY <1>1, <2>2, <3>1, BeginStep
  <2>3. CASE Collect(p) BY <1>1, <2>3, CollectStep
  <2>4. QED BY <1>2, <2>1, <2>2, <2>3 DEF Start
<1>3. ASSUME NEW p \in Procs, Step(p) PROVE PrepInv' BY <1>1, <1>3, StepHolds
<1>4. ASSUME NEW p \in Procs, Crash(p) PROVE PrepInv' BY <1>1, <1>4, CrashStep
<1>5. ASSUME NEW s \in Digests, Vanish(s) \/ Return(s) \/ Restore(s) PROVE PrepInv'
  BY <1>1, <1>5, VanishStep, ReturnStep, RestoreStep
<1>6. CASE ChangeRuntime \/ ChangeValues BY <1>1, <1>6, ChangeRuntimeStep, ChangeValuesStep
<1>7. CASE UNCHANGED vars BY <1>1, <1>7, StutterHolds
<1>8. QED BY <1>1, <1>2, <1>3, <1>4, <1>5, <1>6, <1>7 DEF Next

-----------------------------------------------------------------------------
(* What no step does. *)

(* Who changes cache entries, recipe and records. *)
LEMMA Changes ==
  ASSUME Next, ~UNCHANGED <<entry, manifest, recipe, records>>
  PROVE  \E p \in Procs :
            \/ WorkInCache(p) \/ WriteRecipe(p) \/ Invalidate(p)
            \/ Remember(p) \/ ClearFailure(p)
            \/ \E d \in Digests : PublishedEntry(p, d)
<1> DEFINE same == UNCHANGED <<entry, manifest, recipe, records>>
<1>1. ASSUME NEW p \in Procs, Start(p) PROVE same
  BY <1>1 DEF Start, Begin, Collect, Ask, cacheVars, disk, recipeVars
<1>2. ASSUME NEW p \in Procs, Crash(p) PROVE same
  BY <1>2 DEF Crash, Die, disk
<1>3. ASSUME NEW s \in Digests, Vanish(s) \/ Return(s) \/ Restore(s) PROVE same
  BY <1>3 DEF Vanish, Return, Restore, cacheVars, disk, recipeVars
<1>4. CASE ChangeRuntime \/ ChangeValues
  BY <1>4 DEF ChangeRuntime, ChangeValues, cacheVars, disk, recipeVars
<1>5. ASSUME NEW p \in Procs, Step(p)
      PROVE  \/ same \/ WorkInCache(p) \/ WriteRecipe(p) \/ Invalidate(p)
             \/ Remember(p) \/ ClearFailure(p)
             \/ \E d \in Digests : PublishedEntry(p, d)
  <2>1. ASSUME NEW s \in Digests, Observe(p, s) \/ Validate(p, s) \/ Fetch(p, s) PROVE same
    BY <2>1 DEF Observe, Validate, Fetch, Ask, cacheVars, disk, recipeVars
  <2>2. ASSUME Malformed(p) \/ CacheUnsafe(p) \/ Unobservable(p) \/ Blocked(p) PROVE same
    BY <2>2 DEF Malformed, CacheUnsafe, Unsafe, Unobservable, Blocked, cacheVars, disk, recipeVars
  <2>3. ASSUME Admitted(p) \/ Recheck(p) \/ FailCopy(p) \/ Succeed(p) PROVE same
    BY <2>3 DEF Admitted, Recheck, Admit, FailCopy, Succeed, cacheVars, disk, recipeVars
  <2>4. ASSUME Unfit(p) \/ Reserve(p) \/ CopyFails(p) \/ CopySources(p) PROVE same
    BY <2>4 DEF Unfit, Reserve, CopyFails, CopySources, cacheVars, disk, recipeVars
  <2>5. ASSUME SaveRecipe(p) \/ LockRecipe(p) \/ LeaveCache(p) PROVE same
    BY <2>5 DEF SaveRecipe, Ask, LockRecipe, Protect, LeaveCache, Leave, disk, recipeVars
  <2>6. ASSUME ReadRecipe(p) \/ Look(p) \/ CheckSafe(p) PROVE same
    BY <2>6 DEF ReadRecipe, Look, CheckSafe, cacheVars, disk, recipeVars
  <2>7. ASSUME FetchLocked(p) \/ Fetched(p) PROVE same
    BY <2>7 DEF FetchLocked, LockShared, Fetched, EndRead, disk, recipeVars
  <2>8. ASSUME ProbeSucceeds(p) \/ ProbeFails(p) \/ ProbeTimesOut(p) PROVE same
    BY <2>8 DEF ProbeSucceeds, ProbeFails, ProbeTimesOut, cacheVars, disk, recipeVars
  <2>9. QED BY <1>5, <2>1, <2>2, <2>3, <2>4, <2>5, <2>6, <2>7, <2>8 DEF Step
<1>6. QED BY <1>1, <1>2, <1>3, <1>4, <1>5 DEF Next

(* What a step makes of the usable entries: only the command at work takes     *)
(* one, by evicting it for room or by undoing what it has published.           *)
LEMMA ValidKept ==
  ASSUME PrepInv, NEW p \in Procs, WorkInCache(p), NEW d \in Valid \ Valid'
  PROVE  /\ writer = p
         /\ \/ op[p].step = "room" /\ d \notin op[p].kept
            \/ op[p].step = "undo" /\ d \in op[p].todo
<1>1. Work(p) BY DEF WorkInCache
<1>2. PICK o : o = op[p] OBVIOUS
<1>3. op[p].step \in Working => writer = p
  BY DEF PrepInv, CacheInv, LockOK
<1>4. CASE UNCHANGED <<entry, manifest>> BY <1>4 DEF Valid
<1>5. ASSUME Evict(p) PROVE o.step = "room" /\ d \notin o.kept
  <2>1. PICK e \in Oldest(Removable(p)) : entry' = entry \ {e} BY <1>5 DEF Evict
  <2>2. e \notin o.kept BY <1>2, <2>1 DEF Oldest, Removable
  <2>3. manifest' = manifest /\ o.step = "room" BY <1>2, <1>5 DEF Evict
  <2>4. d = e BY <2>1, <2>3 DEF Valid
  <2>5. QED BY <2>2, <2>3, <2>4
<1>6. ASSUME EvictManifest(p) \/ UndoManifest(p) PROVE FALSE
  <2>1. /\ o.step \in {"purge", "unmanifest"} /\ entry' = entry
        /\ manifest' = manifest \ {o.at}
    BY <1>2, <1>6 DEF EvictManifest, UndoManifest, Drop
  <2>2. o.step \in Working BY <2>1 DEF Working, Steps
  <2>3. o.at \notin entry
    <3>1. MakingRoom(o) /\ Ending(o) BY <1>2, AtWork DEF PrepInv, Batch
    <3>2. QED BY <2>1, <3>1 DEF MakingRoom, Ending
  <2>4. QED BY <2>1, <2>3 DEF Valid
<1>7. ASSUME NEW e \in Digests, Undo(p, e) PROVE o.step = "undo" /\ d \in o.todo
  <2>1. /\ o.step = "undo" /\ e \in o.todo /\ entry' = entry \ {e}
        /\ manifest' = manifest
    BY <1>2, <1>7 DEF Undo
  <2>2. d = e BY <2>1 DEF Valid
  <2>3. QED BY <2>1, <2>2
<1>8. ASSUME PublishManifest(p) PROVE FALSE BY <1>8 DEF PublishManifest, Valid
<1>9. \/ Evict(p) \/ EvictManifest(p) \/ UndoManifest(p) \/ \E e \in Digests : Undo(p, e)
      \/ PublishManifest(p) \/ UNCHANGED <<entry, manifest>>
  <2>1. ASSUME NEW e \in Digests, Stage(p, e) \/ UndoFails(p, e)
        PROVE  UNCHANGED <<entry, manifest>>
    BY <2>1 DEF Stage, UndoFails, disk
  <2>2. ASSUME LockExclusive(p) \/ StageFails(p) \/ RefuseIncomplete(p) \/ StagedAll(p)
               \/ RoomFound(p) \/ RoomRefused(p) \/ Collected(p)
        PROVE  UNCHANGED <<entry, manifest>>
    BY <2>2 DEF LockExclusive, StageFails, RefuseIncomplete, StagedAll, RoomFound,
                RoomRefused, Collected, disk
  <2>3. ASSUME EvictFails(p) \/ PublishFails(p) \/ PublishedAll(p) \/ Touch(p) \/ UndoneAll(p)
        PROVE  UNCHANGED <<entry, manifest>>
    BY <2>3 DEF EvictFails, PublishFails, PublishedAll, Touch, UndoneAll, disk
  <2>4. QED BY <1>1, <2>1, <2>2, <2>3 DEF Work
<1>10. o.step \in {"room", "undo"} => o.step \in Working BY DEF Working, Steps
<1>11. QED BY <1>2, <1>3, <1>4, <1>5, <1>6, <1>7, <1>8, <1>9, <1>10

LEMMA SaveKeepsStep ==
  ASSUME PrepInv, [Next]_vars, NEW p \in Procs, writer = p, op[p].kind = "save",
         recipe # None
  PROVE  Entries(recipe) \cap Valid \subseteq Valid' \cup op[p].fresh
<1>1. CASE Valid \subseteq Valid' BY <1>1
<1>2. CASE ~(Valid \subseteq Valid')
  <2>1. Next /\ ~UNCHANGED <<entry, manifest, recipe, records>>
    BY <1>2 DEF Valid, vars, cacheVars, disk
  <2>2. PICK q \in Procs : \/ WorkInCache(q) \/ WriteRecipe(q) \/ Invalidate(q)
                           \/ Remember(q) \/ ClearFailure(q)
                           \/ \E d \in Digests : PublishedEntry(q, d)
    BY <2>1, Changes
  <2>3. WorkInCache(q)
    <3>1. ASSUME WriteRecipe(q) \/ Invalidate(q) \/ Remember(q) \/ ClearFailure(q) PROVE FALSE
      BY <1>2, <3>1 DEF WriteRecipe, Close, Invalidate, Remember, ClearFailure, cacheVars, disk,
                        Valid
    <3>2. ASSUME NEW d \in Digests, PublishedEntry(q, d) PROVE FALSE
      BY <1>2, <3>2 DEF PublishedEntry, PublishEntry, Valid
    <3>3. QED BY <2>2, <3>1, <3>2
  <2>4. ASSUME NEW d \in Entries(recipe) \cap Valid, d \notin Valid' PROVE d \in op[p].fresh
    <3>1. d \in Valid \ Valid' BY <2>4
    <3>2. q = p BY <2>3, <3>1, ValidKept
    <3>3. \/ op[p].step = "room" /\ d \notin op[p].kept
          \/ op[p].step = "undo" /\ d \in op[p].todo
      BY <2>3, <3>1, <3>2, ValidKept
    <3>4. SafeSave(op[p]) BY Here
    <3>5. QED BY <2>4, <3>3, <3>4 DEF SafeSave
  <2>5. QED BY <2>4
<1>3. QED BY <1>1, <1>2

LEMMA RecipeSteps ==
  ASSUME PrepInv, [Next]_vars, recipe' # recipe
  PROVE  /\ recipe' # None => Entries(recipe') \subseteq Valid'
         /\ recipe # None /\ recipe' = None => lacked
<1>1. Next /\ ~UNCHANGED <<entry, manifest, recipe, records>>
  BY DEF vars, prepVars, recipeVars
<1>2. PICK p \in Procs : \/ WorkInCache(p) \/ WriteRecipe(p) \/ Invalidate(p)
                         \/ Remember(p) \/ ClearFailure(p)
                         \/ \E d \in Digests : PublishedEntry(p, d)
  BY <1>1, Changes
<1>3. WriteRecipe(p) \/ Invalidate(p)
  BY <1>2 DEF WorkInCache, Remember, ClearFailure, PublishedEntry, recipeVars
<1>4. PICK o : o = op[p] OBVIOUS
<1>5. CASE WriteRecipe(p)
  <2>1. /\ recipe' = [at |-> saved + 1, entries |-> o.want] /\ o.step = "stored"
        /\ UNCHANGED <<entry, manifest>>
    BY <1>4, <1>5 DEF WriteRecipe, Close, disk
  <2>2. saved \in Nat /\ o.want \subseteq Digests
    BY <1>4, Here, Fields DEF PrepInv, PrepTyped
  <2>3. recipe' \in Recipes BY <2>1, <2>2 DEF Recipes
  <2>4. recipe' # None BY <2>3, RecipeAssumption
  <2>5. Entries(recipe') = o.want BY <2>1, <2>4 DEF Entries
  <2>6. o.step \in Working BY <2>1 DEF Working, Steps
  <2>7. Ending(o) BY <1>4, <2>6, AtWork DEF PrepInv, Batch
  <2>8. o.want \subseteq Valid BY <2>1, <2>7 DEF Ending
  <2>9. Valid' = Valid BY <2>1 DEF Valid
  <2>10. QED BY <2>4, <2>5, <2>8, <2>9
<1>6. CASE Invalidate(p)
  <2>1. recipe' = None /\ recipe = prep[p].seen /\ prep[p].step = "invalidate"
    BY <1>6 DEF Invalidate, Stale
  <2>2. Replay(prep[p]) BY Here
  <2>3. lacked BY <2>1, <2>2 DEF Replay
  <2>4. QED BY <2>1, <2>3
<1>7. QED BY <1>3, <1>5, <1>6

LEMMA EvidenceStep ==
  ASSUME PrepInv, [Next]_vars, NEW r \in records \ records'
  PROVE  \E p \in Procs : /\ prep[p].step = "clear" /\ prep[p].fp = r.fp
                          /\ status'[prep[p].copy] \in {"succeeded", "executing"}
<1>1. Next /\ ~UNCHANGED <<entry, manifest, recipe, records>>
  BY DEF vars, prepVars
<1>2. PICK p \in Procs : \/ WorkInCache(p) \/ WriteRecipe(p) \/ Invalidate(p)
                         \/ Remember(p) \/ ClearFailure(p)
                         \/ \E d \in Digests : PublishedEntry(p, d)
  BY <1>1, Changes
<1>3. ~Remember(p) BY DEF Remember, RecordFailure, Recorded
<1>4. ClearFailure(p)
  BY <1>2, <1>3 DEF WorkInCache, WriteRecipe, Invalidate, PublishedEntry
<1>5. PICK c : c = prep[p] OBVIOUS
<1>6. /\ c.step = "clear" /\ c \in PrepState /\ Owned(c) /\ c.copy \in 1 .. MaxCalls
  BY <1>4, <1>5, Here DEF ClearFailure
<1>7. c.fp = r.fp BY <1>4, <1>5 DEF ClearFailure, Clear, Hits
<1>8. status'[c.copy] \in {"succeeded", "executing"}
  <2>1. CASE c.kind = "job"
    <3>1. status' = [status EXCEPT ![c.copy] = "executing"]
      BY <1>4, <1>5, <2>1 DEF ClearFailure, SetStatus
    <3>2. status \in [1 .. MaxCalls -> Statuses] BY DEF PrepInv, PrepTyped
    <3>3. QED BY <1>6, <3>1, <3>2
  <2>2. CASE c.kind # "job"
    <3>1. c.kind = "prepare" BY <1>6, <2>2, Parts
    <3>2. status' = status BY <1>4, <1>5, <2>2 DEF ClearFailure
    <3>3. QED BY <1>6, <3>1, <3>2 DEF Owned
  <2>3. QED BY <2>1, <2>2
<1>9. QED BY <1>5, <1>6, <1>7, <1>8

(* A record that is met tells of conditions that are still there, or changed   *)
(* back.                                                                       *)
LEMMA RefusalHolds == PrepInv => RefusalIsTrue
<1>1. SUFFICES ASSUME PrepInv PROVE RefusalIsTrue OBVIOUS
<1>2. ASSUME NEW p \in Procs, NEW c, c = prep[p], c.step = "observe", c.todo = {},
             NEW r \in Blocking(p)
      PROVE  Fails(c, r) \/ ChangedBack(c, r)
  <2>1. c \in PrepState /\ Observing(c) BY <1>1, <1>2, Here
  <2>2. r \in records /\ r.fp = c.fp /\ c.fp # Unknown BY <1>2 DEF Blocking, Hits
  <2>3. /\ c.fp.kind = c.kind /\ c.fp.want = c.want /\ c.fp.recipe = c.seen
        /\ \A s \in Looked(c) : Met(c, s)
    BY <1>2, <2>1, <2>2 DEF Observing
  <2>4. c.fp \in Fingerprints /\ r \in Failures
    BY <1>1, <2>1, <2>2, Parts DEF PrepInv, PrepTyped
  <2>5. Justified(c.fp, r.category, r.by) BY <1>1, <2>2 DEF PrepInv, RecordsTrue
  <2>6. CASE r.category = "probe"
    <3>1. c.fp.runtime <= under[r.by] BY <2>5, <2>6 DEF Justified
    <3>2. r.by \in 1 .. MaxCalls BY <2>4 DEF Failures
    <3>3. under[r.by] <= runtime BY <1>1, <3>2 DEF PrepInv, RecordsTrue
    <3>4. c.fp.runtime \in Nat BY <2>4, Known
    <3>5. under[r.by] \in Nat /\ runtime \in Nat BY <1>1, <3>2 DEF PrepInv, PrepTyped
    <3>6. under[r.by] = c.fp.runtime \/ runtime # c.fp.runtime
      BY <3>1, <3>3, <3>4, <3>5
    <3>7. QED BY <2>6, <3>6 DEF Fails, ChangedBack
  <2>7. CASE r.category # "probe"
    <3>1. Gone(c.fp) BY <2>5, <2>7 DEF Justified
    <3>2. CASE c.kind = "job" /\ (c.seen = None \/ recipe # c.seen)
      BY <2>7, <3>2 DEF Fails, ChangedBack
    <3>3. CASE c.kind # "job" /\ Looked(c) \cap back # {}
      BY <2>7, <3>3 DEF ChangedBack, Looked
    <3>4. CASE \E s \in Looked(c) : ~Found(c.kind, s) \/ c.fp.ids[s] < Incarnation(c.kind, s)
      <4>1. PICK s \in Looked(c) : ~Found(c.kind, s) \/ c.fp.ids[s] < Incarnation(c.kind, s)
        BY <3>4
      <4>2. s \in Digests BY <2>1, LookedTyped
      <4>3. Met(c, s) BY <2>3
      <4>4. Numbers BY <1>1 DEF PrepInv, PrepTyped, Numbers
      <4>5. Incarnation(c.kind, s) \in Nat BY <4>2, <4>4 DEF Numbers, Incarnation
      <4>6. c.met[s] \in Nat /\ c.fp.ids[s] \in Nat BY <2>1, <2>4, <4>2, Parts, Known
      <4>7. \/ c.kind # "job" /\ s \in back
            \/ ~Found(c.kind, s) \/ c.met[s] # Incarnation(c.kind, s)
        BY <4>1, <4>3, <4>5, <4>6 DEF Met
      <4>8. CASE c.kind # "job" /\ s \in back
        BY <2>7, <4>1, <4>8 DEF ChangedBack, Looked
      <4>9. CASE ~Found(c.kind, s) \/ c.met[s] # Incarnation(c.kind, s)
        BY <2>7, <4>1, <4>9 DEF Fails, Looked
      <4>10. QED BY <4>7, <4>8, <4>9
    <3>5. QED BY <2>3, <3>1, <3>2, <3>3, <3>4 DEF Gone, Looked
  <2>8. QED BY <2>6, <2>7
<1>3. QED BY <1>2 DEF RefusalIsTrue, Refused

-----------------------------------------------------------------------------
(* Preparations, recipes, records, cache and host always agree as PrepInv      *)
(* says, whatever comes between the steps of any command.                      *)
THEOREM PrepInvariant == Spec => []PrepInv
<1>1. QED BY InitHolds, NextHolds, PTL DEF Spec

(* Preparations keep the invariant of the cache, which for them does not begin *)
(* empty: readers, batches and room are as safe as CacheSpec alone has them.   *)
THEOREM CacheInUse ==
  Spec => [](CacheTypeOK /\ ReadersSeeWhole /\ AllOrNothing /\ RoomIsEnough)
<1>1. PrepInv => CacheTypeOK /\ ReadersSeeWhole /\ AllOrNothing /\ RoomIsEnough
  BY InvMeans DEF PrepInv
<1>2. QED BY <1>1, PrepInvariant, PTL

(* Nobody is refused for a failure that its conditions, as they are or were    *)
(* observed, do not explain, but for what has changed back since.              *)
THEOREM RefusalTrue == Spec => []RefusalIsTrue
BY PrepInvariant, RefusalHolds, PTL

(* A recipe is written when all it names is whole in the cache. *)
THEOREM RecipeAlwaysBacked == Spec => RecipeBacked
<1>1. PrepInv /\ [Next]_vars =>
        [recipe' # recipe /\ recipe' # None => Entries(recipe') \subseteq Valid']_vars
  BY RecipeSteps
<1>2. QED BY <1>1, PrepInvariant, PTL DEF Spec, RecipeBacked

(* What the recipe in force replays from is not evicted for the next one. *)
THEOREM SaveKeeps == Spec => SaveKeepsRecipe
<1>1. PrepInv /\ [Next]_vars =>
        [\A p \in Procs :
           writer = p /\ op[p].kind = "save" /\ recipe # None
             => Entries(recipe) \cap Valid \subseteq Valid' \cup op[p].fresh]_vars
  BY SaveKeepsStep
<1>2. QED BY <1>1, PrepInvariant, PTL DEF Spec, SaveKeepsRecipe

(* Only a recipe that lacks an entry is invalidated. *)
THEOREM StaleOnly == Spec => OnlyStaleInvalidated
<1>1. PrepInv /\ [Next]_vars => [recipe # None /\ recipe' = None => lacked]_vars
  BY RecipeSteps
<1>2. QED BY <1>1, PrepInvariant, PTL DEF Spec, OnlyStaleInvalidated

(* The record of a failure stays until the very same attempt has succeeded. *)
THEOREM EvidenceStays == Spec => EvidenceKept
<1>1. PrepInv /\ [Next]_vars =>
        [\A r \in records \ records' :
           \E p \in Procs : /\ prep[p].step = "clear" /\ prep[p].fp = r.fp
                            /\ status'[prep[p].copy] \in {"succeeded", "executing"}]_vars
  BY EvidenceStep
<1>2. QED BY <1>1, PrepInvariant, PTL DEF Spec, EvidenceKept

=============================================================================
