SPECIFICATION Spec
CONSTANTS
  Presets = {"block"}
  ModeTries = 2
  LimitTries = 1
  Tries <- MCTries
  MaxTime = 3
  MaxWaiting = 1
  Adversity = {"unread", "unavailable", "undated", "switch", "configure", "abort", "restart", "late", "refused"}
  FaultLimit = 1
INVARIANTS TypeOK
PROPERTIES AutomaticOwned ManualOwned OwnConfiguration
CHECK_DEADLOCK FALSE
