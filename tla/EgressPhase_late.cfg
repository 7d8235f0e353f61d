\* The same with late effects: a "policy set" the host gave up on may have
\* reached the gateway.
SPECIFICATION Spec
CONSTANTS
  HasKey = FALSE
  SetupSteps = 1
  Validates = 1
  HasDiscard = FALSE
  MaxSessions = 1
  MaxRuns = 2
  LateEffects = TRUE
INVARIANTS
  ShimRulesGoneBeforeAgent
\* The last session may end for good.
CHECK_DEADLOCK FALSE
