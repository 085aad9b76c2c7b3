SPECIFICATION FairSpec
CONSTANTS
  r1 = r1
  r2 = r2
  r3 = r3
  w1 = w1
  w2 = w2
  console = console
  video = video
  Workers = {w1, w2}
  Requests = {r1, r2, r3}
  WorkerOf <- Routes
  Ops = {console, video}
  TypeOf <- Kinds
  AutoStart = {console}
  MaxSessions = 2
  MaxCommands = 1
  MaxRequests = 5
  MaxCrashes = 1
INVARIANT OneActive
INVARIANT LifecycleOnce
PROPERTY FeedInOrder
PROPERTY RequestsEnd
CHECK_DEADLOCK FALSE
