SPECIFICATION Spec
\* A unit of time is five seconds: a lease of 60 s, a guard of 5 s, a hash that
\* lives 30 s longer than its lease and 60 s after a release.
CONSTANTS
  w1 = w1
  w2 = w2
  c1 = c1
  c2 = c2
  Workers = {w1, w2}
  Calls = {c1, c2}
  Home <- TwoHomes
  Owners = {"o1"}
  Scopes = {"files"}
  MaxLeases = 2
  Horizon = 20
  Ttl = 12
  Guard = 1
  Grace = 6
  Floor = 12
  Slow = FALSE
SYMMETRY Places
INVARIANT FilesGuarded
