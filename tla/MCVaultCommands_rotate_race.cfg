SPECIFICATION Spec
CONSTANTS
  p1 = p1
  p2 = p2
  a = a
  b = b
  NoProc = NoProc
  Procs <- TwoProcs
  Names <- OneName
  Can <- SetAndRotate
  RatchetAfter = 0
  Damaged = FALSE
  MaxCalls = 3
PROPERTY RotationSticks
CHECK_DEADLOCK FALSE
