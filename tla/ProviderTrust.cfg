SPECIFICATION Spec
CONSTANTS
  MaxTime = 5
  DayLength = 3
  Interval = 2
  Heartbeat = 2
  Debounce = 1
  QueueSize = 1
  WireSize = 1
  Adversity = {"disconnect", "refused", "unreadable", "regress", "unavailable", "malformed", "shorten", "silent", "metadata", "rewrite", "reassign", "noise"}
  FaultLimit = 1
INVARIANTS TypeOK WakesInTime NoBusyLoop
PROPERTIES CeilingProven
CHECK_DEADLOCK FALSE
