SPECIFICATION FairSpec
CONSTANTS
  Class = {}
  NoClass = NoClass
  MaxKernels = 3
  Dim = {e1}
  Bound <- MCBound
  Score = {1, 2}
  Felt <- MCFelt
  MaxLevel = 2
  Toward <- MCToward
  Faded <- MCFaded
  Optimal <- MCOptimal
  ThetaE = 1
  Alpha = 1
INVARIANTS TypeOK EmotionsParallel
PROPERTIES FeelingsFollowKernels Recovers
