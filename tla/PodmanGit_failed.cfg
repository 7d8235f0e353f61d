\* run() is called again after one that could not end the container.
SPECIFICATION Spec
CONSTANTS
  Repo = TRUE
  MaxCalls = 3
  MaxEdits = 0
INVARIANTS
  AgentConfigNeverHonored
CHECK_DEADLOCK FALSE
