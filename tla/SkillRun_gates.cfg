\* The run after an unreadable verdict is not gated.
SPECIFICATION Spec
CONSTANTS
  Routed = TRUE
  Retryable = TRUE
  MaxRetries = 1
  MaxCalls = 1
INVARIANTS
  ReportedOutputIsGated
\* After the last call the work_dir is left alone.
CHECK_DEADLOCK FALSE
