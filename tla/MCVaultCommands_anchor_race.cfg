SPECIFICATION Spec
CONSTANTS
  p1 = p1
  p2 = p2
  a = a
  b = b
  NoProc = NoProc
  Procs <- TwoProcs
  Names <- OneName
  Can <- ReadAndSet
  RatchetAfter = 0
  Damaged = FALSE
  MaxCalls = 1
PROPERTY AnchorNeverBackward
