SPECIFICATION Spec
CONSTANTS
  h1 = h1
  h2 = h2
  i1 = i1
  i2 = i2
  d1 = d1
  d2 = d2
  Handles = {h1, h2}
  Protocols = {"p"}
  Opens <- Rivals
  Regs = {"r"}
  Interfaces = {i1, i2}
  MaxInstalls = 2
  MaxDepth = 2
INVARIANTS
  OneExclusive
