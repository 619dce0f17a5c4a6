SPECIFICATION FairSpec
CONSTANTS
  p1 = p1
  p2 = p2
  NoProc = NoProc
  Procs <- TwoProcs
  MaxTxn = 2
INVARIANTS
  TypeOK
  ResolvesToCommitted
  UndisturbedReadIsCommitted
PROPERTIES
  GuardedPairStable
  ImplementsPair
  EveryCommandEnds
