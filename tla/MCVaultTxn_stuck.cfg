SPECIFICATION Spec
CONSTANTS
  p1 = p1
  p2 = p2
  NoProc = NoProc
  Procs <- TwoProcs
  MaxTxn = 1
INVARIANT AlwaysRecoverable
