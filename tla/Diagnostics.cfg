SPECIFICATION DiagnosticsSpec
CONSTANTS
  DiagSessions = {d1, d2}
  SessionIds = {i1, i2}
  Outputs = {h1}
  Eof = 1
  MaxOutputs = 1
  MaxFailed = 1
INVARIANT EndedOnDisconnect
CHECK_DEADLOCK FALSE
