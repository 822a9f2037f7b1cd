SPECIFICATION Spec
CONSTANTS
  MaxAge = 1
  Skew = 1
  Normal = 2
  Baselines = {0, 1}
  Reduction = 2
  Policies = {"solar", "morning"}
  Adversity = {"flow", "regress", "readback", "context", "authority", "application", "configure"}
  FaultLimit = 1
INVARIANTS TypeOK
PROPERTIES RiseEarned
CHECK_DEADLOCK FALSE
