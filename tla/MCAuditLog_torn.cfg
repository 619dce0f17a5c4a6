SPECIFICATION Spec
CONSTANTS
  p1 = p1
  p2 = p2
  p3 = p3
  Nobody = Nobody
  Dead = Dead
  Procs <- TwoProcs
  Can <- OneEach
  MayTear = TRUE
  MaxAppends = 3
  MaxSeconds = 1
  MaxCrashes = 0
INVARIANTS
  AlwaysReadable
