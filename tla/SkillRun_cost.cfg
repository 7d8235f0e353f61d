\* A retry starts a new session with a new log.
SPECIFICATION Spec
CONSTANTS
  Routed = TRUE
  Retryable = TRUE
  MaxRetries = 1
  MaxCalls = 1
INVARIANTS
  CostIncludesClassifier
\* After the last call the work_dir is left alone.
CHECK_DEADLOCK FALSE
