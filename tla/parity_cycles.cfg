SPECIFICATION CycleSpec
CONSTANTS
  Node = {0, 1, 2}
  MaxWeight = 3
  WInit = 2
  WMax = 3
  MinWeight = 2
  Delta = 1
  P1 = 1
  Score = {1}
  Decayed <- MCDecayed
  MaxTick = 2
  Capacity = 3
  MaxDead = 3
  ClientKeys <- MCTwoPairs
INVARIANTS IdenticalWeights IdenticalNeighbors IdenticalActivity
