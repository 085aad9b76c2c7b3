SPECIFICATION FairSpec
CONSTANTS
  Workers = {w1, w2}
  w1 = w1
  w2 = w2
  RetryDelays <- TwoDelays
  MaxResults = 2
  Life = 4
  Timeout = 1
  Horizon = 4
  MaxCrashes = 1
INVARIANT BackoffKept
PROPERTY Outbox
PROPERTY EveryItemCloses
