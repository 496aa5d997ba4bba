SPECIFICATION Spec
CONSTANTS
  p1 = p1
  p2 = p2
  c1 = c1
  c2 = c2
  None = None
  Procs <- MCProcs
  Coordinators <- MCCoordinators
  Boss <- MCBoss
  MaxAttempts = 2
SYMMETRY MCSymmetry
CONSTRAINT MCBound
INVARIANTS
  LeaseFollowsOperation
  KeptForRetry
  DecisionsAgree
  ResultBeforeRemoval
  AttemptKnown
PROPERTIES
  FinalForGood
CHECK_DEADLOCK FALSE
