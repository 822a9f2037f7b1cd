SPECIFICATION TraceSpec
CONSTANTS
  Downloads = {d1}
  Deque = 2
  Retention = 1
  Unserializable = {2}
  Jump = 2
  MaxTime = 3
  MaxRows = 4
  Adversity = {"io", "crash", "reboot", "status", "jump", "unproved"}
  FaultLimit = 1
INVARIANTS TraceTypeOK
PROPERTIES KeptOnce ViewsStable GapsTold
CHECK_DEADLOCK FALSE
