SPECIFICATION Spec
CONSTANTS
  p1 = p1
  p2 = p2
  Procs <- OneProc
  Envs <- TwoEnvs
  Default = "default"
  MaxKeys = 3
  MaxSets = 2
  MaxCommands = 7
\* The commands are bounded, and nobody has to start one.
CHECK_DEADLOCK FALSE
PROPERTIES
  AddedAnewOpens
