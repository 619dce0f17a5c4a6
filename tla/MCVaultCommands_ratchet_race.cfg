SPECIFICATION Spec
CONSTANTS
  p1 = p1
  p2 = p2
  a = a
  b = b
  NoProc = NoProc
  Procs <- TwoProcs
  Names <- TwoNames
  Can <- SetOnly
  RatchetAfter = 2
  Damaged = FALSE
  MaxCalls = 3
PROPERTY SetLeavesNoOrphan
CHECK_DEADLOCK FALSE
