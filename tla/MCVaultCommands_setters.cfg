SPECIFICATION Spec
CONSTANTS
  p1 = p1
  p2 = p2
  a = a
  b = b
  NoProc = NoProc
  Procs <- TwoProcs
  Names <- TwoNames
  Can <- Setters
  RatchetAfter = 0
  Damaged = FALSE
  MaxCalls = 2
SYMMETRY Interchangeable
INVARIANTS
  NoFalseAlarm
PROPERTIES
  ImplementsStore
