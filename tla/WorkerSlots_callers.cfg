SPECIFICATION Spec
CONSTANTS
  p1 = p1
  p2 = p2
  p3 = p3
  None = None
  Collector = Collector
  Chooser = Chooser
  Limit <- MCLimit
  Procs = {p1, p2, p3}
  Waiters = {p1, p2}
  Watched = {p1}
  Timed = {p2}
  Visitors = {}
  MaxSlots = 2
  Tickets = {t1, t2}
SYMMETRY MCSymmetry
INVARIANTS
  NoHintMissed
PROPERTIES
  AdmissionWithinLimit
  FirstComeFirstServed
  ImplementsQueue
