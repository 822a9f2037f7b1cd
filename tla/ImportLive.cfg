SPECIFICATION FairSpec
CONSTANTS
  LastDay = 2
  MaxEvents = 3
  Sessions = 2
  Limit = 2
  Batch = 1
  Adversity = {"refused", "database", "cancel", "crash"}
  FaultLimit = 2
PROPERTY Drains
CHECK_DEADLOCK FALSE
