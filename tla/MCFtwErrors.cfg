SPECIFICATION Spec
CONSTANTS
  t1 = t1
  t2 = t2
  Targets <- EveryTarget
  DU = 1
  Data = {d1, d2}
  Torn = Torn
  WsSize = 312
  Allocs <- TwoWrites
  Implicit = FALSE
  Overwrite = TRUE
  FvbErrors = TRUE
  FvbMissing = FALSE
SYMMETRY DataSymmetry
PROPERTIES
  WorkSpaceSurvives
  AllocateVisible
  AtomicWrites
