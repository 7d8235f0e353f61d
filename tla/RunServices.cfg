SPECIFICATION Spec
CONSTANTS
  Ours = {o1, o2}
  Theirs = {t1, t2}
  Absent = absent
  Tracking = tracking
  MaxAttempts = 3
  MaxPushes = 2
  MaxMoves = 2
  People = {u1}
  Bot = bot
  Twin = twin
  Projects = {p1, p2}
  RunChecks = {c1, c2}
  StatusChecks = {s1}
  MaxSends = 3
  MaxPages = 2
  JobsPage = 1
  MaxNotes = 2
  MaxForgeCalls = 2
  MaxForgeMoves = 3
  JiraUsers = {j1, j2}
  MaxRequests = 3
  MaxJiraCalls = 2
  MaxEntries = 4
  Tools = {"go", "pnpm", "python", "rust", "node", "protoc", "sums"}
  Releases <- MCReleases
  Requests <- MCRequests
  Builds = {"b1", "b2"}
  FirstBuild = "b1"
  MaxToolRuns = 3
  MaxToolMoves = 2
  Harnesses = {"claude", "opencode", "codex"}
  MaxLines = 2
  SpanIds = {1, 2, 3, 4}
  TraceIds = {tr1, tr2}
  Batches = {ba1, ba2}
  Counts = {0, 1, 2}
  Parts = {"push", "forge", "jira", "tools", "stream", "otel"}
INVARIANTS
  SuccessMeansPushed
  ForgeAnswerTrue
  TrustedFeedback
  SuccessCoversChecks
  JiraWritesDone
  LabelAuthorCurrent
  ToolchainsWhole
  OneTrace
  UsageOnce
PROPERTIES
  PinnedLeaseHeld
  StreamEnds
CHECK_DEADLOCK FALSE
