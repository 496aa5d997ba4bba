SPECIFICATION Spec
CONSTANTS
  t1 = t1
  t2 = t2
  a = a
  b = b
  p = p
  q = q
  NoPath = NoPath
  Edits = {p, q, NoPath}
  Turns = {t1, t2}
  Ids = {a, b}
  Paths = {p, q}
  Tools = {u1, u2}
  Hooks = {h1, h2}
  Plans <- LedgerPlans
  PromptAlone = TRUE
SYMMETRY Symmetric
INVARIANTS
  ClosedUntouched
  OneFreeInspection
  BoundOnce
  CompletedIsCurrent
