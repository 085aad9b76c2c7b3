SPECIFICATION Spec
CONSTANTS
  w1 = w1
  w2 = w2
  c1 = c1
  c2 = c2
  Workers = {w1, w2}
  Calls = {c1, c2}
  Home <- TwoHomes
  Owners = {"o1"}
  Scopes = {"stream"}
  MaxLeases = 3
  Horizon = 0
  Ttl = 1
  Guard = 1
  Grace = 1
  Floor = 1
  Slow = FALSE
SYMMETRY Places
INVARIANT OneLease
