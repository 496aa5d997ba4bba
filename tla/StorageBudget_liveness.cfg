SPECIFICATION FairSpec
CONSTANTS
  p1 = p1
  p2 = p2
  p3 = p3
  d1 = d1
  d2 = d2
  None = None
  Procs = {p1, p2}
  Devices = {d1}
  Device <- MCDevice
  Blocks <- MCBlocks
  Demand <- MCDemand
  Capacity <- MCCapacity
  Minimum = 1
  Tokens = {t1, t2, t3}
  Inodes = 2
INVARIANTS
  LiveRecordKept
PROPERTIES
  EveryCallReturns
