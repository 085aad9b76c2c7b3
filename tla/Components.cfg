SPECIFICATION PartSpec
CONSTANTS
  w1 = w1
  w2 = w2
  p1 = p1
  p2 = p2
  o1 = o1
  o2 = o2
\* LeaseRegistry
  Workers = {w1, w2}
  Calls = {p1, p2}
  Home <- TwoHomes
  Owners = {o1}
  Scopes = {"files", "stream"}
  MaxLeases = 2
  Horizon = 2
  Ttl = 1
  Guard = 2
  Grace = 1
  Floor = 1
  Slow = FALSE
\* Presence
  Handlers = {p1, p2}
  Presences <- SomePresences
  Events <- SomeEvents
  Stale = 1
  LastMinute = 2
  MaxMessages = 2
  MaxDropped = 1
  MaxQueue = 0
\* InputRelay
  Commands = {"key"}
  Modes = {"none", "camera"}
  Capacity = 1
  MaxMoves = 2
  MaxCommands = 2
  MaxTold = 1
  MaxBroken = 1
  LastSecond = 1
\* Billing
  Orgs = {"o1"}
  Devices = {"d1"}
  Codes = {7, 75}
  Gauges = {44}
  Sizes = {3}
  BlockSize = 2
  Prices <- OnePrice
  DefaultPrice <- UsualPrice
  Consumers = {"h1"}
  Calculations = {"k1"}
  Admins = {"a1"}
  FirstMonth = 1
  LastMonth = 3
  MaxEvents = 1
  MaxRepeats = 1
  MaxStarts = 1
  MaxRequests = 2
\* Quality
  Tabs = {"b1", "b2"}
  Writers = {"b1", "b2"}
  Targets = {"low", "high"}
  MaxStreams = 2
  MaxSets = 2
  MaxSamples = 2
  MaxRefused = 1
\* Provisioning
  Servers = {p1, p2}
  Ops = {o1, o2}
  FirstId = 1
  Tenants = {1, 2}
  ApiKeys = {"k1"}
  Payloads <- SomePayloads
  Bulk <- OneBulk
  MaxServed <- ServedAtMost
\* MediaClock
  Requests = {p1, p2}
  Renewal = 2
  Budget = 2
  MaxTries = 2
  MaxCalls = 3
  MaxTime = 4
\* LeaseService
  Terminals = {"t1", "t2"}
  Sessions <- SomeSessions
  AskedScopes = {"view"}
  ServiceRequests = {p1, p2}
  MaxGranted = 2
  MaxAsked = 3
  MaxFails = 1
SYMMETRY Interchangeable
INVARIANT ReleasedFreesSlot
INVARIANT LastMoveSettled
INVARIANT ResultTrue
INVARIANT AppliedIsAsked
INVARIANT OneMeaning
INVARIANT DeadlineHonest
PROPERTY OnlineMeansHeard
PROPERTY LogoutFreesTerminals
CHECK_DEADLOCK FALSE
