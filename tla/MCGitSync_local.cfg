SPECIFICATION Spec
CONSTANTS
  p1 = p1
  p2 = p2
  Nobody = Nobody
  Procs <- OneProc
  MaxMade = 2
INVARIANTS
  LocalMeansLocal
