SPECIFICATION Spec
CONSTANTS
  Node = {1, 2}
  MaxWeight = 2
  WInit = 2
  WMax = 2
  MinWeight = 2
  Delta = 1
  P1 = 2
  Score = {1, 3}
  Decayed <- MCDecayed
  a = a
  b = b
  c = c
  c1 = c1
  c2 = c2
  Input = {a, b}
  Class = {c1}
  NoClass = NoClass
  Never = Never
  Sim <- MCSim
  SMax = 3
  Theta = 2
  Gamma = 1
  StmCapacity = 2
  P1Kernel = 1
  InheritThreshold = 2
  NoCache = NoCache
  ClientEdges <- MCPairs
  MaxKernels = 2
  MaxExcitation = 3
  MaxTick = 2
INVARIANTS TypeOK IndicesInRange ScratchClean CacheCoherent PropagateMatchesTick
  SpreadNeverDecidesGrowth
PROPERTIES StmForgetsWeakest ImplementsVector
