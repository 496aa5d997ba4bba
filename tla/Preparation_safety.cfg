SPECIFICATION Spec
CONSTANTS
  x = x
  z = z
  v = v
  w = w
  Values = {v, w}
  Usual = v
  None = None
  Unknown = Unknown
  Procs = {a, b}
  Digests = {x, z}
  Size <- MCSize
  Caps = {1, 2}
  MaxFaults = 1
  MaxRecords = 1
  Wants <- MCWants
  MaxCalls = 2
  MaxEvents = 2
CONSTRAINT MCBound
SYMMETRY MCSymmetry
CHECK_DEADLOCK FALSE
INVARIANTS
  RefusalIsTrue
PROPERTIES
  RecipeBacked
  SaveKeepsRecipe
  OnlyStaleInvalidated
  EvidenceKept
