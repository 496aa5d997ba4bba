SPECIFICATION FairSpec
CONSTANTS
  p1 = p1
  p2 = p2
  p3 = p3
  None = None
  Collector = Collector
  Chooser = Chooser
  Limit <- MCLimit
  Procs = {p1, p2}
  Waiters = {p1, p2}
  Watched = {p2}
  Timed = {}
  Visitors = {Collector, Chooser}
  MaxSlots = 1
  Tickets = {t1, t2}
INVARIANTS
  IInv
  NoStrandedWorker
PROPERTIES
  EveryWaiterLeaves
