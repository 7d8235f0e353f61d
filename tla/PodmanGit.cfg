\* Any four calls on a repository whose config the host changes twice.
SPECIFICATION Spec
CONSTANTS
  Repo = TRUE
  MaxCalls = 4
  MaxEdits = 2
INVARIANTS
  TypeOK
  HostGitAsLeft
  LeftoversEnded
PROPERTIES
  RecordedWithoutAgent
  AgentRunsOnRecord
\* The caller may be done with the backend.
CHECK_DEADLOCK FALSE
