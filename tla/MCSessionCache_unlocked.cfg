SPECIFICATION SessionSpec
CONSTANTS
  p1 = p1
  p2 = p2
  Unlocks <- TwoProcs
  SharedOptIn = FALSE
  Ttls <- OffAndLong
  Cap = 1
  MaxTime = 3
  MaxRotations = 0
  MaxCommands = 4
PROPERTIES
  LockAlwaysEnds
