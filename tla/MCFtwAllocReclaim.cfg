SPECIFICATION Spec
CONSTANTS
  t1 = t1
  t2 = t2
  Targets <- TwoTargets
  DU = 1
  Data = {1, 2}
  Torn = Torn
  WsSize = 232
  Allocs <- OneTwo
  Implicit = TRUE
  Overwrite = TRUE
  FvbErrors = FALSE
  FvbMissing = FALSE
PROPERTIES
  AllocateVisible
