SPECIFICATION FairSpec
CONSTANTS
  N = 2
  Configs <- AllFlows
  MaxSmis = 3
  MaxCalls = 1
PROPERTIES
  EveryoneLeaves
  SmiServed
