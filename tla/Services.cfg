SPECIFICATION Spec
CONSTANTS
  Leases = {1, 2}
  Coroutines = {1, 2}
  Cleaner = cleaner
  Streams = {1, 2}
  Legacy = {11}
  None = None
  MaxEvents = 3
  MaxFaults = 1
  w1 = w1
  w2 = w2
  d1 = d1
  e1 = e1
  e2 = e2
  r1 = r1
  s1 = s1
  s2 = s2
INVARIANT OnePublisher
PROPERTY RetiredStops
PROPERTY EveryRowFinishes
PROPERTY OrphanRetired
CHECK_DEADLOCK FALSE
