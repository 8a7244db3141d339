SPECIFICATION TrainSpec
CONSTANTS
  Node = {1, 2, 3}
  MaxWeight = 2
  WInit = 2
  WMax = 2
  MinWeight = 2
  Delta = 1
  P1 = 2
  Score = {1, 3}
  Decayed <- MCDecayed
  a = a
  b = b
  c = c
  c1 = c1
  c2 = c2
  Input = {a, b, c}
  Class = {c1, c2}
  NoClass = NoClass
  Never = Never
  Sim <- MCSim
  SMax = 3
  Theta = 2
  Gamma = 2
  StmCapacity = 1
  P1Kernel = 0
  InheritThreshold = 2
  NoCache = NoCache
  ClientEdges = {}
  MaxKernels = 3
  MaxExcitation = 1
  MaxTick = 1
SYMMETRY MCSymmetry
INVARIANTS LiveKernelsApart EdgesJoinSameClass CountsBelowThreshold ExtinctIffIdle PredictsFiredClass
PROPERTIES ExtinctFrozen CompactionPreserves
