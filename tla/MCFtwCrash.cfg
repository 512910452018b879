SPECIFICATION FairSpec
CONSTANTS
  t1 = t1
  t2 = t2
  Targets <- SharedTarget
  DU = 2
  Data = {1, 2}
  Torn = Torn
  WsSize = 160
  Allocs <- OneWrite
  Implicit = TRUE
  Overwrite = FALSE
  FvbErrors = FALSE
  FvbMissing = FALSE
INVARIANTS
  TypeOK
  SpareNotReused
  HeaderPointerCurrent
  WrittenOnSuccess
PROPERTIES
  AtomicWrites
  DriverAnswers
  PendingResolved
