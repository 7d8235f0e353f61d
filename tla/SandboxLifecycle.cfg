\* Three processes on one machine, two faults.
SPECIFICATION Spec
CONSTANTS
  ProviderAuths = {openai, vertex}
  Minted = {vertex}
  Keyed = {openai}
  PlainAuths = {oauth}
  Specs = {s1, s2}
  Keys = {k1, k2}
  Drivers = {d1, d2}
  None = None
  MaxProcesses = 3
  MaxFaults = 2
INVARIANTS
  TypeOK
  AgentsSandboxFits
  IdentityDescribesSandbox
  DriverAsConfigured
  DriftedNotReused
  TokenBehindAgent
\* The last process may be the end of the machine's work.
CHECK_DEADLOCK FALSE
