SPECIFICATION RelySpec
CONSTANTS
  N = 3
  Configs <- ThreeFlows
  MaxSmis = 2
  MaxCalls = 2
INVARIANTS
  TypeOK
  OneBsp
  CountedTakePart
  NothingCarriedOver
  RunsWhatWasAsked
  MtrrsInStep
  NobodyOutside
