SPECIFICATION Spec
CONSTANTS
  d1 = d1
  d2 = d2
  e1 = e1
  e2 = e2
  Events = {e1, e2}
  Devices = {d1, d2}
  Source <- OneAndOne
  Numbered = {e2}
  Known = {d1}
  Consumers = {c1, c2}
  SharedReaders = {r1, r2}
  OwnReaders = {r3}
  Limit = 2
  MaxId = 2
SYMMETRY Symmetry
INVARIANT StoredOnce
INVARIANT HandedOnce
INVARIANT NothingSkipped
