SPECIFICATION Spec
CONSTANTS
  LastDay = 2
  MaxEvents = 5
  Sessions = 2
  Limit = 2
  Batch = 2
  Adversity = {"gap", "meter", "unobserved", "capture", "unconfirmed", "operator", "cancel", "refused", "database", "crash"}
  FaultLimit = 1
INVARIANTS TypeOK TodayTrusted CountedOnce
PROPERTY Retained
CHECK_DEADLOCK FALSE
