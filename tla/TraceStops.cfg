SPECIFICATION FairTraceSpec
CONSTANTS
  Downloads = {d1, d2}
  Deque = 1
  Retention = 1
  Unserializable = {}
  Jump = 2
  MaxTime = 1
  MaxRows = 1
  Adversity = {"io", "crash", "jump", "unproved"}
  FaultLimit = 1
PROPERTIES Stops
CHECK_DEADLOCK FALSE
