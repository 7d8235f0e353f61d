\* Two processes, and a third that must not find the drifted sandbox.
SPECIFICATION Spec
CONSTANTS
  ProviderAuths = {openai, vertex}
  Minted = {vertex}
  Keyed = {openai}
  PlainAuths = {oauth}
  Specs = {s1}
  Keys = {k1, k2}
  Drivers = {d1, d2}
  None = None
  MaxProcesses = 3
  MaxFaults = 2
INVARIANT DriftedNeverReused
\* The last process may be the end of the machine's work.
CHECK_DEADLOCK FALSE
