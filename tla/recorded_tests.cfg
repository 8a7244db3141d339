SPECIFICATION Spec
CONSTANTS
  None = None
  Never = Never
  NoCache = NoCache
INVARIANTS EdgeTestsPass GraphTestsPass
