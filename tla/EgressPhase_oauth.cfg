\* Auth without a provider, and calls that fail have no effect.
SPECIFICATION Spec
CONSTANTS
  HasKey = FALSE
  SetupSteps = 1
  Validates = 2
  HasDiscard = FALSE
  MaxSessions = 3
  MaxRuns = 3
  LateEffects = FALSE
INVARIANTS
  ShimRulesGoneBeforeAgent
\* The last session may end for good.
CHECK_DEADLOCK FALSE
