SPECIFICATION Spec
CONSTANTS
  p1 = p1
  p2 = p2
  p3 = p3
  Nobody = Nobody
  Dead = Dead
  Procs <- ThreeProcs
  Can <- AppendAndVerify
  MayTear = TRUE
  MaxAppends = 3
  MaxSeconds = 2
  MaxCrashes = 1
INVARIANTS
  TypeOK
  IntactLogVerifies
  IntactOkIsComplete
PROPERTIES
  OnlyGrows
