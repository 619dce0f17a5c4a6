SPECIFICATION Spec
CONSTANTS
  p1 = p1
  p2 = p2
  a = a
  b = b
  NoProc = NoProc
  Procs <- TwoProcs
  Names <- OneName
  Can <- SetAndConfig
  RatchetAfter = 0
  Damaged = FALSE
  MaxCalls = 2
INVARIANT PairUsable
CHECK_DEADLOCK FALSE
