SPECIFICATION Spec
CONSTANTS
  a = a
  m = m
  t1 = t1
  f = f
  None = None
  Lost = Lost
  Owners = {a}
  Tasks = {t1}
  TaskOf <- OneTask
  Family <- OneFamily
  Requested <- MCRequested
  Definitions <- MCDefinitions
  UsedOutcomes = {"rejected", "unknown"}
  UsedResults = {"rejected"}
  UsedGrades = {"none"}
  ReworkLimit = 2
  Window = 1
  MaxTime = 2
  MaxNotes = 2
  MaxAttempts <- MCAttempts
  MaxEvents = 3
CHECK_DEADLOCK FALSE
INVARIANTS
  RejectionPauses
