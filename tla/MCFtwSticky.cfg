SPECIFICATION Spec
CONSTANTS
  t1 = t1
  t2 = t2
  Targets <- TwoTargets
  DU = 1
  Data = {1, 2}
  Torn = Torn
  WsSize = 192
  Allocs <- TwoWrites
  Implicit = FALSE
  Overwrite = FALSE
  FvbErrors = FALSE
  FvbMissing = FALSE
PROPERTIES
  AtomicWrites
