SPECIFICATION FairSpec
CONSTANTS
  Node = {0, 1}
  MaxWeight = 3
  WInit = 2
  WMax = 3
  MinWeight = 2
  Delta = 1
  P1 = 1
  Score = {1}
  Decayed <- MCDecayed
  MaxTick = 2
  ClientTouches <- MCTouches
INVARIANTS TypeOK NoOrphanTicks
PROPERTIES Implements Forgotten
