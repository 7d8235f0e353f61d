---------------------------- MODULE PhaseIsolation ----------------------------
(***************************************************************************)
(* What the egress phases of a sandbox promise, whatever calls implement   *)
(* them: the sandbox serves one phase at a time, only processes of that    *)
(* phase live in it, it changes phase only while nothing lives in it, and  *)
(* the provider's key is spendable next to an agent but never next to a    *)
(* setup step or validate command.  EgressPhase implements this.           *)
(***************************************************************************)
CONSTANT HasKey   \* the sandbox's auth mode has a credential provider

VARIABLES
  tenants,  \* kinds of processes alive in the sandbox
  serving,  \* the phase whose policy the gateway serves
  key       \* some process of the sandbox could still spend the provider's key

vars == <<tenants, serving, key>>

Phases == {"setup", "agent", "validate"}

Init == tenants = {} /\ serving = "agent" /\ key = FALSE

\* A process of the phase that is served starts: with the key out of reach,
\* or, for an agent, with the key at hand.
Enter ==
  /\ key = (HasKey /\ serving = "agent")
  /\ tenants' = {serving}
  /\ UNCHANGED <<serving, key>>

\* Processes end, or are killed.
Leave == tenants' \in SUBSET tenants /\ UNCHANGED <<serving, key>>

\* The gateway gets the policy of another phase, which takes the key out of
\* reach when the provider was detached before.
SwitchPhase ==
  /\ tenants = {} /\ serving' \in Phases
  /\ key' \in {key, FALSE} /\ UNCHANGED tenants

\* The provider is attached, or the supervisor has let go of a detached one.
TurnKey ==
  /\ tenants = {} /\ key' = (HasKey /\ ~key)
  /\ UNCHANGED <<tenants, serving>>

\* The sandbox is deleted.
Destroy == tenants' = {} /\ serving' = "agent" /\ key' = FALSE

Next == Enter \/ Leave \/ SwitchPhase \/ TurnKey \/ Destroy

Spec == Init /\ [][Next]_vars

\* Whoever lives in the sandbox lives under its own phase, and never with the
\* wrong hold on the key.
Isolated ==
  tenants # {} => tenants = {serving} /\ key = (HasKey /\ serving = "agent")
=============================================================================
