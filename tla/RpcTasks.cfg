SPECIFICATION DispatchFairSpec
CONSTANTS
  Devices = {d1, d2}
  Tasks = {t1}
  Handlers = {h1, h2}
  Uids = {u1}
  NoUid = NoUid
  Contents = {c1}
  Methods = {165, 7011}
  Ttls = {1}
  Prios = {0}
  Grace = 1
  Horizon = 2
  MaxResults = 1
INVARIANT RowsConsistent
INVARIANT DispatchedUnended
INVARIANT BilledOnce
PROPERTY Lifecycle
PROPERTY EveryTaskEnds
