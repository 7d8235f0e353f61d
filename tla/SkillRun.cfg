\* Two routed calls on one work_dir, one retry allowed.
SPECIFICATION Spec
CONSTANTS
  Routed = TRUE
  Retryable = TRUE
  MaxRetries = 1
  MaxCalls = 2
INVARIANTS
  TypeOK
  ReportedOnce
  VerdictOnlyAfterGates
  SessionsReleased
  RouteOfThisCall
  RunsBounded
PROPERTIES
  DecidedOnce
\* After the last call the work_dir is left alone.
CHECK_DEADLOCK FALSE
