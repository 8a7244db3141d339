SPECIFICATION StoreSpec
CONSTANTS
  Class = {}
  NoClass = NoClass
  MaxKernels = 3
  Dim = {e1}
  Bound <- MCBound
  Score = {1, 2}
  Felt <- MCFelt
  MaxLevel = 1
  Toward <- MCToward
  Faded <- MCFaded
  Optimal <- MCOptimal
  ThetaE = 1
  Alpha = 1
INVARIANT EmotionsParallel
