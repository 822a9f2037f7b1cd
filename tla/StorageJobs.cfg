SPECIFICATION FairSpec
CONSTANTS
  a = a
  b = b
  c = c
  Ledger = Ledger
  None = None
  Capacity = 3
  Callers <- ThreeCallers
INVARIANTS TypeOK AccountingSlotKept
PROPERTIES ServiceSpec AdmittedSettle ThreadEnds
CHECK_DEADLOCK FALSE
