SPECIFICATION Spec
CONSTANTS
  MaxWeight = 3
  WInit = 2
  WMax = 3
  MinWeight = 1
  Delta = 2
  P1 = 0
  ClientEdges <- MCPairs
  Decayed <- MCDecayed
  RequireClassMatch = TRUE
  c1 = c1
  c2 = c2
  Class = {c1, c2}
  NoClass = NoClass
  MaxKernels = 2
  MaxTick = 1
  Gamma = 1
  Score = {1, 2}
SYMMETRY MCSymmetry
INVARIANTS TypeOK ReverseIsInverse EdgesJoinKernels RecallSymmetric
PROPERTIES CompactionKeepsEdges Implements
