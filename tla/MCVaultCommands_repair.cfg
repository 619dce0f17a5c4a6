SPECIFICATION Spec
CONSTANTS
  p1 = p1
  p2 = p2
  a = a
  b = b
  NoProc = NoProc
  Procs <- TwoProcs
  Names <- TwoNames
  Can <- OneRepairer
  RatchetAfter = 0
  Damaged = TRUE
  MaxCalls = 2
PROPERTIES
  RepairHeals
  RepairPrunesOnlyLost
