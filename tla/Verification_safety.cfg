SPECIFICATION Spec
CONSTANTS
  Checks = 2
  Outcomes <- MCOutcomes
  MaxEntries = 1
  MaxEvents = 1
  MaxRuns = 3
  MaxFaults = 1
  MaxAttempts = 2
  MaxVerify = 2
CONSTRAINT
  MCBound
CHECK_DEADLOCK FALSE
INVARIANTS
  TypeOK
  ReuseIsTrue
  FailureRevokes
  VerificationKept
PROPERTIES
  SuccessIsOfTheResult
