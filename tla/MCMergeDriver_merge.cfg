CONSTANTS
  Names = {a, b}
  People = {bob}
  Times <- TwoTimes
  Version = 2
  MaxOps = 3
  MaxMerges = 2
SPECIFICATION Spec
INVARIANTS UngatedPairOpens NoEditLost MergeCommutes RevokedStaysOut
SYMMETRY Symmetry
CHECK_DEADLOCK FALSE
