SPECIFICATION Spec
CONSTANTS
  t1 = t1
  t2 = t2
  Targets <- TwoTargets
  DU = 1
  Data = {1, 2}
  Torn = Torn
  WsSize = 192
  Allocs <- OneWrite
  Implicit = TRUE
  Overwrite = FALSE
  FvbErrors = FALSE
  FvbMissing = TRUE
INVARIANTS
  NothingTorn
