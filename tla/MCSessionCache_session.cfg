SPECIFICATION SessionSpec
CONSTANTS
  p1 = p1
  p2 = p2
  Unlocks <- TwoProcs
  SharedOptIn = FALSE
  Ttls <- OffAndLong
  Cap = 1
  MaxTime = 2
  MaxRotations = 1
  MaxCommands = 3
SYMMETRY Symmetric
INVARIANTS
  LockEndsSession
  ZeroTurnsItOff
