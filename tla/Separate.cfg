SPECIFICATION SeparateSpec
CONSTANTS
  p1 = p1
  p2 = p2
  q1 = q1
  q2 = q2
\* CameraIssuer
  Issuers = {p1, p2}
  Boots = {1, 2}
  Eids = {1, 2}
  Streams = {s1}
  Configs = {q1, q2}
  None = None
  MaxGen = 2
  MaxSeq = 3
  MaxRenew = 2
  MaxQueue = 1
  MaxEvents = 4
  MaxFaults = 1
\* ArchiveCycle
  Cycles = {p1, p2}
  Batches = {q1, q2}
  Events = {1}
  Others = {10, 11}
  Tasks = {10}
  NoBatch = NoBatch
  Threshold = 0
  Chunk = 1
  MaxFailures = 1
\* Diagnostics
  DiagSessions = {p1, p2}
  SessionIds = {q1, q2}
  Outputs = {"h1"}
  Eof = 1
  MaxOutputs = 1
  MaxFailed = 1
SYMMETRY Alike
INVARIANT SeqUnique
INVARIANT StartsAnswered
INVARIANT NotBehind
PROPERTY StopIsLast
INVARIANT NothingLost
PROPERTY PurgeSettled
INVARIANT StoppedWhenLeft
CHECK_DEADLOCK FALSE
