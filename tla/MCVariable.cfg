SPECIFICATION Spec
CONSTANTS
  a = a
  b = b
  h = h
  v1 = v1
  v2 = v2
  Names = {a, b, h}
  HwErr = {h}
  w1 = w1
  w2 = w2
  x = x
  Contents <- ContentsOf
  Deleted = Deleted
  Torn = Torn
  Size <- Sizes
  HeaderSize = 1
  CommonSpace = 6
  RuntimeSpace = 4
  HwErrSpace = 2
  MaxVariableSize = 2
  MaxErrors = 1
INVARIANTS
  TypeOK
  SpaceAccounted
  FreeAreaErased
PROPERTIES
  UpdatesAtomic
  SuccessIsStored
  AddedStaysOne
SYMMETRY ValueSymmetry
