SPECIFICATION Spec
CONSTANTS
  p1 = p1
  p2 = p2
  a = a
  b = b
  NoProc = NoProc
  Procs <- TwoProcs
  Names <- OneName
  Can <- SetAndRepair
  RatchetAfter = 0
  Damaged = FALSE
  MaxCalls = 2
PROPERTY RepairPrunesOnlyLost
CHECK_DEADLOCK FALSE
