SPECIFICATION FairSpec
CONSTANTS
  Clients = {1, 2}
  Cleaner = cleaner
  Kinds = {"release"}
  Clicks = {11, 12}
  None = None
  MaxPending = 1
  MaxCrashes = 1
INVARIANT OneSocket
INVARIANT AnswersTrue
PROPERTY KeepaliveRefused
PROPERTY PendingDrains
CHECK_DEADLOCK FALSE
