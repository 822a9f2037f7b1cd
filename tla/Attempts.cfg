SPECIFICATION FairSpec
CONSTANTS
  Policies <- All
  Budget = 2
  Heartbeat = 1
  Adversity = {"reject", "unread", "authority", "operator", "remote", "reconnect", "configure", "raise", "api"}
  FaultLimit = 1
INVARIANTS TypeOK
PROPERTIES OneBudget ReopensOnNewProof LateNotKept AttemptEnds
