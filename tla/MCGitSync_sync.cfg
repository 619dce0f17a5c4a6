SPECIFICATION FairSpec
CONSTANTS
  p1 = p1
  p2 = p2
  Nobody = Nobody
  Procs <- TwoProcs
  MaxMade = 3
INVARIANTS
  LocalWorkKept
  SyncTellsTheTruth
  NoHalfPair
PROPERTIES
  RunGoesOn
