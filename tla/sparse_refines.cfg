SPECIFICATION LinkSpec
CONSTANTS
  Node = {0, 1, 2}
  MaxWeight = 2
  WInit = 2
  WMax = 2
  MinWeight = 2
  Delta = 1
  P1 = 1
  Score = {1}
  Decayed <- MCDecayed
  MaxTick = 2
  Capacity = 3
  MaxDead = 2
  ClientKeys <- MCLoop
PROPERTY Implements
