CONSTANTS
  Procs = {c, d}
  Passphrases = {"secret"}
  Overlap = TRUE
  MaxCommands = 2
SPECIFICATION Spec
PROPERTY RsaKept
CHECK_DEADLOCK FALSE
