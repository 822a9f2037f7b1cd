SPECIFICATION Spec
CONSTANTS
  MaxAge = 1
  ReportEvery = 1
  FaultLimit = 1
  Adversity = {"lag", "reject", "ignore", "unreadable", "authority", "reconnect", "configure", "cancel", "restart"}
  Policies <- SurplusAndBattery
INVARIANTS TypeOK NoDischargeUnderCeiling BarrierExcludesPermission
PROPERTIES OpeningRedeems DischargeAfterTarget
