CONSTANTS
  Procs = {c, d}
  Passphrases = {"secret"}
  Overlap = FALSE
  MaxCommands = 6
SPECIFICATION Spec
INVARIANTS KeyKept WholeAtRest CanUnlock
CHECK_DEADLOCK FALSE
SYMMETRY Symmetric
