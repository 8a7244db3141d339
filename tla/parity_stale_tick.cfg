SPECIFICATION Spec
CONSTANTS
  Node = {0, 1}
  MaxWeight = 4
  WInit = 3
  WMax = 4
  MinWeight = 2
  Delta = 1
  P1 = 1
  Score = {1}
  Decayed <- MCDecayed
  MaxTick = 3
  Capacity = 2
  MaxDead = 3
  ClientKeys <- MCPairs
INVARIANT IdenticalWeights
