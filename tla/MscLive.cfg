SPECIFICATION FairSpec
CONSTANTS
  MaxAge = 3
  ReportEvery = 1
  FaultLimit = 1
  Adversity = {"reject", "ignore", "reconnect", "remote", "operator", "drift"}
  Policies <- SurplusAndReserve
PROPERTIES SurplusReopens
