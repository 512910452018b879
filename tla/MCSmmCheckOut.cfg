SPECIFICATION Spec
CONSTANTS
  N = 2
  Configs <- Tradition
  MaxSmis = 2
  MaxCalls = 2
INVARIANTS
  CountedTakePart
