SPECIFICATION FairCacheSpec
CONSTANTS
  x = x
  y = y
  z = z
  None = None
  Procs = {a, b}
  Digests = {x, z}
  Size <- MCSize
  Caps = {2, 3}
  MaxFaults = 1
INVARIANTS
  CacheTypeOK
  ReadersSeeWhole
  AllOrNothing
  RoomIsEnough
PROPERTIES
  EveryCallEnds
