\* openai, api-key or vertex auth, a profile with setup steps and a validate
\* command, three host processes and three runs, late effects.
SPECIFICATION FairSpec
CONSTANTS
  HasKey = TRUE
  SetupSteps = 2
  Validates = 1
  HasDiscard = TRUE
  MaxSessions = 3
  MaxRuns = 3
  LateEffects = TRUE
INVARIANTS
  TypeOK
  StepIsolation
  AgentGate
  ProcessesMatchPolicy
  SavedSandboxIsPastSetup
PROPERTIES
  ImplementsIsolation
  CredentialsOnlyInAgentPhase
  PendingClearedByRepair
  SwitchEnds
  ShimPhaseEnds
\* The last session may end for good.
CHECK_DEADLOCK FALSE
