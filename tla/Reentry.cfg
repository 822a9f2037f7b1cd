SPECIFICATION Spec
CONSTANTS
  MaxTime = 5
  SolarInterval = 2
  BoostInterval = 3
  MaxGap = 2
  Hold = 2
  Skew = 1
  Policies = {"budget", "charge", "evening", "dip"}
  Adversity = {"clock", "report", "unusable", "context", "application", "reconnect"}
  FaultLimit = 1
INVARIANTS TypeOK
PROPERTIES PermissionEarned LatchReleased HoldRestsOnMeasurement
CHECK_DEADLOCK FALSE
