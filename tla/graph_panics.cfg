SPECIFICATION GraphSpec
CONSTANTS
  Node = {0, 1, 2, 3}
  MaxWeight = 3
  WInit = 3
  WMax = 3
  MinWeight = 2
  Delta = 1
  P1 = 1
  Score = {1}
  Decayed <- MCDecayed
  MaxTick = 1
  Capacity = 4
  MaxDead = 3
  ClientKeys = {}
INVARIANT TickNeverPanics
