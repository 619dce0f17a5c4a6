SPECIFICATION FairSpec
CONSTANTS
  p1 = p1
  p2 = p2
  p3 = p3
  Nobody = Nobody
  Dead = Dead
  Procs <- TwoProcs
  Can <- AppendBeside
  MayTear = TRUE
  MaxAppends = 2
  MaxSeconds = 2
  MaxCrashes = 1
INVARIANTS
  IntactLogVerifies
  IntactOkIsComplete
PROPERTIES
  OnlyGrows
  EveryAppendEnds
\* Nobody has to append, and the bounds end every behaviour.
CHECK_DEADLOCK FALSE
