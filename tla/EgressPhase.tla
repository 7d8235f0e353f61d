----------------------------- MODULE EgressPhase -----------------------------
(***************************************************************************)
(* The egress phases of a sandbox with a profile: how OpenShellBackend     *)
(* switches one sandbox between the setup, agent and validate phases, what *)
(* it runs in each, and what a run that fails, times out or dies between   *)
(* two calls leaves behind for the next one.                               *)
(*                                                                         *)
(* Three parties act.  The host process is the code under src/; every call *)
(* it makes to openshell is one step with the outcomes that call has.  The *)
(* supervisor inside the sandbox follows the gateway by polling, so it     *)
(* lags.  The processes an exec leaves in the sandbox go on by themselves. *)
(***************************************************************************)
EXTENDS Integers, FiniteSets

CONSTANTS
  HasKey,       \* the auth mode has a provider (openai, api-key, vertex), not oauth
  SetupSteps,   \* how many setup steps the profile has
  Validates,    \* how many validate commands the profile has
  HasDiscard,   \* the profile has discard_before_download paths
  MaxSessions,  \* bound: host processes that set the sandbox up
  MaxRuns,      \* bound: calls of run() over all sessions
  LateEffects   \* a call the host gave up on may have reached the gateway

ASSUME ConstantsAssumption ==
  /\ HasKey \in BOOLEAN /\ HasDiscard \in BOOLEAN /\ LateEffects \in BOOLEAN
  /\ SetupSteps \in Nat /\ Validates \in Nat
  /\ MaxSessions \in Nat /\ MaxRuns \in Nat

VARIABLES
  pc,          \* the call the host process makes next, "down" without one
  why,         \* the caller of _set_egress_phase
  pending,     \* OpenShellBackend._agent_phase_pending
  todo,        \* steps of the open phase not run yet
  identity,    \* the saved sandbox identity (with the main process) exists
  exists,      \* the sandbox exists
  gwPolicy,    \* the phase of the policy the gateway holds
  gwAttached,  \* the gateway has the provider attached to the sandbox
  supPolicy,   \* the phase of the policy the supervisor enforces
  supRule,     \* that policy contains the rule composed for the provider
  supEnv,      \* a new exec gets the placeholder and the proxy resolves it
  fg,          \* the command the host waits for in the sandbox
  left,        \* kinds of processes that ended execs left running
  cred,        \* the env script or a harness credential file, the ones a wipe lists,
               \* is in the sandbox
  stray,       \* so is an env script an earlier call left under its temporary name
  sessions,    \* host processes started
  runs         \* run() calls made

host == <<pc, why, pending, todo>>
gw == <<gwPolicy, gwAttached>>
sup == <<supPolicy, supRule, supEnv>>
files == <<cred, stray>>
inside == <<fg, left, files>>
counters == <<sessions, runs>>
vars == <<host, identity, exists, gw, sup, inside, counters>>

Phases == {"setup", "agent", "validate"}
ShimPhases == {"setup", "validate"}
Reasons == {"reuse", "setupOpen", "setupClose", "pending", "validateOpen", "validateClose"}
SwitchPcs == {"kill", "wipe", "probe", "attach", "awaitAttached", "detach", "policy",
              "awaitDetached"}
Pcs == SwitchPcs \cup
  {"down", "setup", "delete", "clear", "create", "prepare", "save", "ready", "script",
   "rename", "launch", "agent", "steps", "step", "leftovers", "download", "raised"}

\* The phase a caller of _set_egress_phase asks for.
Target(w) == IF w = "setupOpen" THEN "setup"
             ELSE IF w = "validateOpen" THEN "validate" ELSE "agent"

HostOK == pc \in Pcs /\ why \in Reasons /\ pending \in BOOLEAN /\ todo \in Nat

RecordOK == identity \in BOOLEAN /\ exists \in BOOLEAN

EgressOK ==
  /\ gwPolicy \in Phases /\ gwAttached \in BOOLEAN
  /\ supPolicy \in Phases /\ supRule \in BOOLEAN /\ supEnv \in BOOLEAN

InsideOK ==
  /\ fg \in Phases \cup {"none"} /\ left \subseteq Phases
  /\ cred \in BOOLEAN /\ stray \in BOOLEAN

CountersOK == sessions \in 0..MaxSessions /\ runs \in 0..MaxRuns

TypeOK == HostOK /\ RecordOK /\ EgressOK /\ InsideOK /\ CountersOK

\* No sandbox and no host process: a fresh CI machine.
Init ==
  /\ pc = "down" /\ why = "reuse" /\ pending = FALSE /\ todo = 0
  /\ identity = FALSE /\ exists = FALSE
  /\ gwPolicy = "agent" /\ gwAttached = FALSE
  /\ supPolicy = "agent" /\ supRule = FALSE /\ supEnv = FALSE
  /\ fg = "none" /\ left = {} /\ cred = FALSE /\ stray = FALSE
  /\ sessions = 0 /\ runs = 0

-----------------------------------------------------------------------------
(* _set_egress_phase, one call at a time                                   *)

\* Mutant: the switch to the agent phase does not kill what is left.
EnterSwitchKeepingProcesses(w) ==
  /\ pc' = (IF Target(w) = "agent" THEN "policy" ELSE "kill") /\ why' = w
  /\ pending' = IF Target(w) = "agent" THEN pending ELSE TRUE

\* Enter _set_egress_phase for reason w; a shim phase marks the agent phase
\* as lost before anything is tried.
EnterSwitch(w) ==
  /\ pc' = "kill" /\ why' = w
  /\ pending' = IF Target(w) = "agent" THEN pending ELSE TRUE

\* What a switch that succeeded returns to.
SwitchSucceeds ==
  /\ pending' = IF Target(why) = "agent" THEN FALSE ELSE pending
  /\ UNCHANGED why
  /\ \/ why = "reuse" /\ pc' = "ready" /\ UNCHANGED todo
     \/ why = "setupOpen" /\ pc' = "steps" /\ todo' = SetupSteps
     \/ why = "setupClose" /\ pc' = "save" /\ UNCHANGED todo
     \/ why = "pending" /\ pc' = "script" /\ UNCHANGED todo
     \/ why = "validateOpen" /\ pc' = "steps" /\ todo' = Validates
     \/ why = "validateClose" /\ pc' = "download" /\ UNCHANGED todo

\* Mutant: run() goes on when the switch it needs before the agent raised.
SwitchRaisesUnheard ==
  /\ UNCHANGED <<todo, pending>>
  /\ \/ why = "reuse" /\ pc' = "delete" /\ UNCHANGED why
     \/ why = "setupOpen" /\ pc' = "kill" /\ why' = "setupClose"
     \/ why = "setupClose" /\ pc' = "raised" /\ UNCHANGED why
     \/ why = "pending" /\ pc' = "script" /\ UNCHANGED why
     \/ why = "validateOpen" /\ pc' = "kill" /\ why' = "validateClose"
     \/ why = "validateClose" /\ pc' = "download" /\ UNCHANGED why

\* Mutant: the switch back after validation is tried until it succeeds.
SwitchRaisesRetrying ==
  /\ UNCHANGED todo
  /\ \/ why = "reuse" /\ pc' = "delete" /\ UNCHANGED <<why, pending>>
     \/ why = "setupOpen" /\ EnterSwitch("setupClose")
     \/ why = "setupClose" /\ pc' = "raised" /\ UNCHANGED <<why, pending>>
     \/ why = "pending" /\ pc' = "ready" /\ UNCHANGED <<why, pending>>
     \/ why \in {"validateOpen", "validateClose"} /\ EnterSwitch("validateClose")

\* What a switch that raised RuntimeError does to its caller.  A phase that
\* could not be opened runs no step and goes straight to the switch back.
SwitchRaises ==
  /\ UNCHANGED todo
  /\ \/ why = "reuse" /\ pc' = "delete" /\ UNCHANGED <<why, pending>>
     \/ why = "setupOpen" /\ EnterSwitch("setupClose")
     \/ why = "setupClose" /\ pc' = "raised" /\ UNCHANGED <<why, pending>>
     \/ why = "pending" /\ pc' = "ready" /\ UNCHANGED <<why, pending>>
     \/ why = "validateOpen" /\ EnterSwitch("validateClose")
     \/ why = "validateClose" /\ pc' = "download" /\ UNCHANGED <<why, pending>>

\* Continue with call c of the same switch.
Goto(c) == pc' = c /\ UNCHANGED <<why, pending, todo>>

\* Mutant: validate is opened without its before_open.
AfterKillNoWipe ==
  IF Target(why) # "agent" /\ HasKey THEN "probe" ELSE "policy"

AfterKill == IF why = "validateOpen" THEN "wipe"
             ELSE IF why = "setupOpen" /\ HasKey THEN "probe" ELSE "policy"

\* Mutant: survivors are logged, not raised.
KillBestEffort ==
  /\ pc = "kill"
  /\ left' \in SUBSET left /\ Goto(AfterKill)
  /\ UNCHANGED <<identity, exists, gw, sup, fg, files, counters>>

\* sandbox.stop_leftover_processes: every process an earlier exec left is
\* killed, or some survive (or the record is stale, or the scan times out).
Kill ==
  /\ pc = "kill"
  /\ \/ left' = {} /\ Goto(AfterKill)
     \/ left' \in SUBSET left /\ SwitchRaises
  /\ UNCHANGED <<identity, exists, gw, sup, fg, files, counters>>

\* _wipe_credentials, the before_open of the validate phase: the files it
\* lists, and no other.
Wipe ==
  /\ pc = "wipe"
  /\ \/ cred' = FALSE /\ Goto(IF HasKey THEN "probe" ELSE "policy")
     \/ cred' \in {cred, FALSE} /\ SwitchRaises
  /\ UNCHANGED <<identity, exists, gw, sup, fg, left, stray, counters>>

\* provider_env_state before a detach: a probe that fails answers neither.
Probe ==
  /\ pc = "probe"
  /\ \/ supEnv /\ Goto("detach")
     \/ Goto("attach")
  /\ UNCHANGED <<identity, exists, gw, sup, inside, counters>>

\* The supervisor has installed all the gateway holds.
Loaded(policy, attached) ==
  /\ supPolicy' = policy /\ supRule' = attached /\ supEnv' = attached

\* A provider command that changes the attachment waits for the supervisor;
\* one that finds it as wanted returns at once.
ProviderChanges(attached) ==
  /\ gwAttached' = attached /\ UNCHANGED gwPolicy
  /\ IF gwAttached = attached THEN UNCHANGED sup ELSE Loaded(gwPolicy, attached)

\* One that fails or times out may have changed the gateway all the same.
ProviderFails(attached) ==
  /\ gwAttached' \in IF LateEffects THEN {gwAttached, attached} ELSE {gwAttached}
  /\ UNCHANGED <<gwPolicy, sup>>

Attach ==
  /\ pc = "attach"
  /\ \/ ProviderChanges(TRUE) /\ Goto("awaitAttached")
     \/ ProviderFails(TRUE) /\ SwitchRaises
  /\ UNCHANGED <<identity, exists, inside, counters>>

\* Mutant: the wait has no deadline.
AwaitAttachedForever ==
  /\ pc = "awaitAttached"
  /\ supEnv
  /\ IF Target(why) = "agent" THEN SwitchSucceeds ELSE Goto("detach")
  /\ UNCHANGED <<identity, exists, gw, sup, inside, counters>>

\* wait_for_provider_env(attached=True): a bounded poll of fresh execs.
AwaitAttached ==
  /\ pc = "awaitAttached"
  /\ \/ /\ supEnv
        /\ IF Target(why) = "agent" THEN SwitchSucceeds ELSE Goto("detach")
     \/ SwitchRaises
  /\ UNCHANGED <<identity, exists, gw, sup, inside, counters>>

Detach ==
  /\ pc = "detach"
  /\ \/ ProviderChanges(FALSE) /\ Goto("policy")
     \/ ProviderFails(FALSE) /\ SwitchRaises
  /\ UNCHANGED <<identity, exists, inside, counters>>

\* Mutant: the agent phase is complete before the provider is back.
AfterPolicyNoAttach ==
  IF ~HasKey \/ Target(why) = "agent" THEN SwitchSucceeds ELSE Goto("awaitDetached")

AfterPolicy ==
  IF ~HasKey THEN SwitchSucceeds
  ELSE Goto(IF Target(why) = "agent" THEN "attach" ELSE "awaitDetached")

\* The gateway already holds this policy: nothing is set, nothing awaited.
PolicyUnchanged ==
  /\ gwPolicy = Target(why)
  /\ UNCHANGED <<gw, sup>> /\ AfterPolicy

\* Mutant: "policy set" without --wait.
PolicySetNoWait ==
  /\ gwPolicy # Target(why)
  /\ gwPolicy' = Target(why) /\ UNCHANGED gwAttached
  /\ UNCHANGED sup
  /\ AfterPolicy

\* "policy set --wait" returns once the supervisor enforces the policy.
PolicySet ==
  /\ gwPolicy # Target(why)
  /\ gwPolicy' = Target(why) /\ UNCHANGED gwAttached
  /\ supPolicy' = Target(why) /\ supRule' = gwAttached
  /\ supEnv' = supEnv \/ supEnv' = gwAttached
  /\ AfterPolicy

\* "policy get" or "policy set" failed or timed out.
PolicyFails ==
  /\ gwPolicy' \in IF LateEffects THEN {gwPolicy, Target(why)} ELSE {gwPolicy}
  /\ UNCHANGED <<gwAttached, sup>> /\ SwitchRaises

\* sandbox.apply_phase_policy
Policy ==
  /\ pc = "policy"
  /\ PolicyUnchanged \/ PolicySet \/ PolicyFails
  /\ UNCHANGED <<identity, exists, inside, counters>>

\* wait_for_provider_env(attached=False)
AwaitDetached ==
  /\ pc = "awaitDetached"
  /\ \/ ~supEnv /\ SwitchSucceeds
     \/ SwitchRaises
  /\ UNCHANGED <<identity, exists, gw, sup, inside, counters>>

Switch == \/ Kill \/ Wipe \/ Probe \/ Attach \/ AwaitAttached \/ Detach \/ Policy
          \/ AwaitDetached

-----------------------------------------------------------------------------
(* setup()                                                                 *)

\* A host process builds a backend and calls setup(): a new object knows
\* nothing of the phase an earlier one left.
StartSession ==
  /\ pc = "down" /\ sessions < MaxSessions
  /\ pc' = "setup" /\ pending' = FALSE /\ sessions' = sessions + 1
  /\ UNCHANGED <<why, todo, identity, exists, gw, sup, inside, runs>>

\* An existing sandbox is reused through a switch to the agent phase, or
\* recreated when it does not match the request or the gateway's config is
\* stale; without a saved identity it is refused otherwise.  A query that fails
\* says there is none, and setup() goes on to create one.  Credentials, the
\* gateway or the provider may fail any of these.
Setup ==
  /\ pc = "setup"
  /\ \/ pc' = "clear" /\ UNCHANGED <<why, pending>>
     \/ exists /\ identity /\ EnterSwitch("reuse")
     \/ exists /\ pc' = "delete" /\ UNCHANGED <<why, pending>>
     \/ pc' = "raised" /\ UNCHANGED <<why, pending>>
  /\ UNCHANGED <<todo, identity, exists, gw, sup, inside, counters>>

\* The sandbox and everything in it are gone.
SandboxGone ==
  /\ exists' = FALSE /\ fg' = "none" /\ left' = {} /\ cred' = FALSE /\ stray' = FALSE
  /\ gwPolicy' = "agent" /\ gwAttached' = FALSE
  /\ supPolicy' = "agent" /\ supRule' = FALSE /\ supEnv' = FALSE

SandboxStays == UNCHANGED <<exists, gw, sup, inside>>

Delete ==
  /\ pc = "delete"
  /\ \/ SandboxGone /\ pc' = "clear"
     \/ SandboxStays /\ pc' = "raised"
  /\ UNCHANGED <<why, pending, todo, identity, counters>>

\* Mutant: the identity of the deleted sandbox stays.
ClearKeepsIdentity ==
  /\ pc = "clear"
  /\ pending' = FALSE /\ pc' = "create"
  /\ UNCHANGED <<identity, why, todo, exists, gw, sup, inside, counters>>

\* _clear_sandbox_identity and the reset of the backend's own state.
Clear ==
  /\ pc = "clear"
  /\ identity' = FALSE /\ pending' = FALSE /\ pc' = "create"
  /\ UNCHANGED <<why, todo, exists, gw, sup, inside, counters>>

\* sandbox.create: the agent policy and, with a provider, its rule are live
\* when it returns; when it raises the sandbox may exist all the same.  It
\* raises when the name is taken.
Create ==
  /\ pc = "create"
  /\ \/ /\ ~exists
        /\ exists' = TRUE /\ gwAttached' = HasKey /\ supRule' = HasKey /\ supEnv' = HasKey
        /\ pc' \in {"prepare", "raised"}
     \/ UNCHANGED <<exists, gwAttached, supRule, supEnv>> /\ pc' = "raised"
  /\ UNCHANGED <<why, pending, todo, identity, gwPolicy, supPolicy, inside, counters>>

\* find_main_process, host setup steps, upload and toolchains; any may raise.
Prepare ==
  /\ pc = "prepare"
  /\ \/ SetupSteps > 0 /\ EnterSwitch("setupOpen")
     \/ SetupSteps = 0 /\ pc' = "save" /\ UNCHANGED <<why, pending>>
     \/ pc' = "raised" /\ UNCHANGED <<why, pending>>
  /\ UNCHANGED <<todo, identity, exists, gw, sup, inside, counters>>

\* The identity is the last thing setup() writes; the config upload before it
\* may raise.
Save ==
  /\ pc = "save"
  /\ \/ identity' = TRUE /\ pc' = "ready"
     \/ UNCHANGED identity /\ pc' = "raised"
  /\ UNCHANGED <<why, pending, todo, exists, gw, sup, inside, counters>>

-----------------------------------------------------------------------------
(* run()                                                                   *)

\* Mutant: run() does not look at the flag.
BeginRunUnaware ==
  /\ pc = "ready" /\ runs < MaxRuns
  /\ runs' = runs + 1
  /\ pc' = "script"
  /\ UNCHANGED <<why, pending, todo, identity, exists, gw, sup, inside, sessions>>

\* run() on a backend that lost the agent phase first switches back to it.
BeginRun ==
  /\ pc = "ready" /\ runs < MaxRuns
  /\ runs' = runs + 1
  /\ IF pending THEN EnterSwitch("pending")
     ELSE pc' = "script" /\ UNCHANGED <<why, pending>>
  /\ UNCHANGED <<todo, identity, exists, gw, sup, inside, sessions>>

\* _write_env_script: upload the script the agent sources, under a temporary
\* name of this call.  When the upload raises, and the run with it, the file
\* may be there.
UploadEnvScript ==
  /\ pc = "script"
  /\ \/ UNCHANGED stray /\ pc' = "rename"
     \/ stray' \in {stray, TRUE} /\ pc' = "ready"
  /\ UNCHANGED <<why, pending, todo, identity, exists, gw, sup, fg, left, cred, counters>>

\* The exec that moves it to its place.  When that raises, the run ends and
\* the temporary copy stays, unless the move was done all the same.
RenameEnvScript ==
  /\ pc = "rename"
  /\ \/ cred' = TRUE /\ UNCHANGED stray /\ pc' \in {"launch", "ready"}
     \/ stray' = TRUE /\ UNCHANGED cred /\ pc' = "ready"
  /\ UNCHANGED <<why, pending, todo, identity, exists, gw, sup, fg, left, counters>>

\* Discarded paths restored, host git snapshot taken: exec the agent.  Any of
\* these may raise.
Launch ==
  /\ pc = "launch"
  /\ \/ fg' = "agent" /\ pc' = "agent"
     \/ UNCHANGED fg /\ pc' = "ready"
  /\ UNCHANGED <<why, pending, todo, identity, exists, gw, sup, left, files, counters>>

\* What an exec of kind k leaves when it returns, its wrapper killed or not.
Leaves(k) == left' \in {left, left \cup {k}}

\* The agent's stream ends, or reading it raises and the run with it.  A
\* classifier run skips validation.
AgentReturns ==
  /\ pc = "agent"
  /\ fg' = "none" /\ Leaves("agent")
  /\ \/ Validates > 0 /\ EnterSwitch("validateOpen")
     \/ pc' \in {"leftovers", "ready"} /\ UNCHANGED <<why, pending>>
  /\ UNCHANGED <<todo, identity, exists, gw, sup, files, counters>>

\* Mutant: one step too many.
StartStepPastLast ==
  /\ pc = "steps"
  /\ fg' = Target(why) /\ todo' = todo - 1 /\ pc' = "step"
  /\ UNCHANGED <<why, pending, identity, exists, gw, sup, left, files, counters>>

\* run_step starts the next setup step or validate command under the shim.
StartStep ==
  /\ pc = "steps" /\ todo > 0
  /\ fg' = Target(why) /\ todo' = todo - 1 /\ pc' = "step"
  /\ UNCHANGED <<why, pending, identity, exists, gw, sup, left, files, counters>>

\* It passes, fails or times out; a wrapper the host gave up on may leave it.
StepReturns ==
  /\ pc = "step"
  /\ fg' = "none" /\ Leaves(Target(why)) /\ pc' = "steps"
  /\ UNCHANGED <<why, pending, todo, identity, exists, gw, sup, files, counters>>

\* All steps ran: back to the agent phase.
StepsDone ==
  /\ pc = "steps" /\ todo = 0
  /\ EnterSwitch(IF why = "setupOpen" THEN "setupClose" ELSE "validateClose")
  /\ UNCHANGED <<todo, identity, exists, gw, sup, inside, counters>>

\* _stop_leftovers_before_discard: best effort, only with discard paths.
StopLeftovers ==
  /\ pc = "leftovers"
  /\ left' \in IF HasDiscard THEN SUBSET left ELSE {left}
  /\ pc' = "download"
  /\ UNCHANGED <<why, pending, todo, identity, exists, gw, sup, fg, files, counters>>

\* Discard, download, records: run() returns or raises to its caller, who
\* may call it again.
Download ==
  /\ pc = "download"
  /\ pc' = "ready"
  /\ UNCHANGED <<why, pending, todo, identity, exists, gw, sup, inside, counters>>

-----------------------------------------------------------------------------
(* The end of a session, and what happens around it                        *)

\* The caller keeps the sandbox and exits.
KeepSandbox ==
  /\ pc \in {"ready", "raised"}
  /\ pc' = "down"
  /\ UNCHANGED <<why, pending, todo, identity, exists, gw, sup, inside, counters>>

\* stop(): the sandbox is deleted and its identity cleared.  When the delete
\* raises, the identity stays, when the query before it fails, only the
\* identity goes; the gateway stops anyway, and the next one may or may not
\* still know the sandbox.
Stop ==
  /\ pc \in {"ready", "raised"}
  /\ pc' = "down"
  /\ identity' \in {identity, FALSE}
  /\ SandboxGone \/ SandboxStays
  /\ UNCHANGED <<why, pending, todo, counters>>

\* The host process dies.  What it was executing in the sandbox may go on, and
\* an env script it had not moved yet keeps its temporary name.
Crash ==
  /\ pc # "down"
  /\ pc' = "down" /\ fg' = "none"
  /\ left' \in {left, left \cup ({fg} \ {"none"})}
  /\ stray' = (stray \/ pc = "rename")
  /\ UNCHANGED <<why, pending, todo, identity, exists, gw, sup, cred, counters>>

Host == \/ Switch \/ Setup \/ Delete \/ Clear \/ Create \/ Prepare \/ Save
        \/ BeginRun \/ UploadEnvScript \/ RenameEnvScript \/ Launch \/ AgentReturns
        \/ StartStep \/ StepReturns \/ StepsDone \/ StopLeftovers \/ Download

\* One poll of the supervisor: the environment first, then the policy.
PollEnv ==
  /\ exists /\ supEnv # gwAttached
  /\ supEnv' = gwAttached
  /\ UNCHANGED <<host, identity, exists, gw, supPolicy, supRule, inside, counters>>

PollPolicy ==
  /\ exists /\ supEnv = gwAttached
  /\ <<supPolicy, supRule>> # gw
  /\ supPolicy' = gwPolicy /\ supRule' = gwAttached
  /\ UNCHANGED <<host, identity, exists, gw, supEnv, inside, counters>>

\* The agent, running or left behind, starts daemons and writes, or removes,
\* credential files; it may remove a stray script.  The other copies an agent
\* may make of what it reads are not followed.
AgentActs ==
  /\ fg = "agent" \/ "agent" \in left
  /\ left' \in {left, left \cup {"agent"}} /\ cred' \in BOOLEAN
  /\ stray' \in {stray, FALSE}
  /\ UNCHANGED <<host, identity, exists, gw, sup, fg, counters>>

LeftoverExits ==
  /\ \E k \in left : left' = left \ {k}
  /\ UNCHANGED <<host, identity, exists, gw, sup, fg, files, counters>>

Next == \/ Host \/ StartSession \/ KeepSandbox \/ Stop \/ Crash
        \/ PollEnv \/ PollPolicy \/ AgentActs \/ LeftoverExits

Spec == Init /\ [][Next]_vars

\* The calls that end: those of a switch, a step and the kill before the
\* discard have a timeout each.  The agent's stream, upload, download, mv,
\* create and delete have none.
Bounded == Switch \/ StartStep \/ StepReturns \/ StepsDone \/ StopLeftovers

\* A host process that is alive gets to the end of a bounded call and makes
\* the next.  Nobody promises that the supervisor polls, that a leftover exits,
\* that another call returns or that a process is not killed.
FairSpec == Spec /\ WF_vars(Bounded)

-----------------------------------------------------------------------------
(* Properties                                                              *)

\* The kinds of processes in the sandbox.
Tenants == left \cup ({fg} \ {"none"})

Running(k) == k \in Tenants

\* Some process, present or started now, could spend the provider's key.
KeySpendable == gwAttached \/ supRule \/ supEnv

\* Repo code of a setup step or validate command runs only while no process
\* of another kind is left in the sandbox, its own phase is in force at the
\* gateway and at the supervisor, the provider's key can be neither injected
\* nor spent, and, for validate, every file _credential_files() lists is gone.
\* An env script that an earlier call left under its temporary name is not on
\* that list, and may be there.
StepIsolation ==
  fg \in ShimPhases =>
    /\ left \subseteq {fg}
    /\ gwPolicy = fg /\ supPolicy = fg
    /\ ~KeySpendable
    /\ fg = "validate" => ~cred

\* An agent the host waits for was started in the agent phase, can
\* authenticate, and works next to no process of a setup step or validate
\* command, whatever earlier switches failed at.
AgentGate ==
  fg = "agent" =>
    /\ gwPolicy = "agent"
    /\ left \cap ShimPhases = {}
    /\ HasKey => gwAttached /\ supEnv

\* Whatever lives in the sandbox, left by a run that died or was given up on
\* included, lives under the gateway policy of its own phase: no agent under
\* shim rules, no setup or validate process under the agent's.
ProcessesMatchPolicy == \A k \in Phases : Running(k) => gwPolicy = k

\* For agents, the same of the policy the supervisor really enforces: what
\* _set_egress_phase asks for ("must be in effect before the agent starts").
ShimRulesGoneBeforeAgent == Running("agent") => supPolicy = "agent"

\* A sandbox whose identity is saved is past its setup phase for good: no
\* setup process lives in it and no setup rule is served, so reusing it never
\* needs the setup steps again.
SavedSandboxIsPastSetup ==
  identity /\ exists => ~Running("setup") /\ gwPolicy # "setup"

\* A copy of the env script under a temporary name.
ScriptCopy == stray \/ pc = "rename"

\* No credential file and no copy of the env script appears in the sandbox
\* unless the agent phase is in force at the gateway and nothing a shim phase
\* ran is still there.
CredentialsOnlyInAgentPhase ==
  [][(~cred /\ cred') \/ (~ScriptCopy /\ ScriptCopy') =>
       gwPolicy = "agent" /\ ~Running("setup") /\ ~Running("validate")]_vars

\* The backend forgets that it lost the agent phase only on its way to create
\* another sandbox, or when the one it has is empty, under the agent policy and
\* able to authenticate.
PendingClearedByRepair ==
  [][pending /\ ~pending' /\ pc # "down" =>
       \/ pc' = "create"
       \/ left = {} /\ gwPolicy' = "agent" /\ (HasKey => gwAttached' /\ supEnv')]_vars

\* A switch never hangs, even when the supervisor stops polling for good.
SwitchEnds == pc \in SwitchPcs ~> pc \notin SwitchPcs

\* A setup or validate phase that a call began to open is left again, opened
\* or not, its steps hanging or not: setup() comes to save the sandbox or
\* raises, run() comes to its download, or the host process has died.
ShimPhaseEnds ==
  pc = "leftovers" \/ (pc = "kill" /\ why \in {"setupOpen", "validateOpen"}) ~>
    pc \in {"save", "raised", "download", "down"}

\* The promise this module implements, and how its state shows it.
Promise == INSTANCE PhaseIsolation WITH
  tenants <- Tenants, serving <- gwPolicy, key <- KeySpendable

ImplementsIsolation == Promise!Spec
=============================================================================
