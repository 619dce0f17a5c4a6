SPECIFICATION Spec
CONSTANTS
  p1 = p1
  p2 = p2
  a = a
  b = b
  NoProc = NoProc
  Procs <- TwoProcs
  Names <- OneName
  Can <- OneWriter
  RatchetAfter = 2
  Damaged = TRUE
  MaxCalls = 3
INVARIANTS
  OnlyStaleCacheAlarms
PROPERTIES
  AnchorFollowsVault
  PairStaysUsable
  RepairHeals
  RepairPrunesOnlyLost
