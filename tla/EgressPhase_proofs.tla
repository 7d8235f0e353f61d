-------------------------- MODULE EgressPhase_proofs --------------------------
(***************************************************************************)
(* Proofs about EgressPhase, for every number of setup steps, validate     *)
(* commands, sessions and runs.  IInv says, call by call, how far a switch *)
(* has come and what a sandbox with processes in it looks like; the safety *)
(* properties and the refinement of PhaseIsolation follow from it.         *)
(***************************************************************************)
EXTENDS EgressPhase, TLAPS

AgentPhaseInForce == gwPolicy = "agent" /\ (HasKey => gwAttached /\ supEnv)

KeyOutOfReach == ~KeySpendable

\* The host waits for exactly the kind of process its call started.
ForegroundOfCall ==
  fg = IF pc = "agent" THEN "agent" ELSE IF pc = "step" THEN Target(why) ELSE "none"

\* Which callers reach a call of a switch.
CallsOfReason ==
  /\ pc \in {"steps", "step"} => why \in {"setupOpen", "validateOpen"}
  /\ pc \in SwitchPcs \cup {"steps", "step"} /\ why # "reuse" => pending
  /\ pc = "wipe" => why = "validateOpen"
  /\ pc \in {"probe", "detach", "awaitDetached"} => Target(why) # "agent"
  /\ pc \in {"probe", "attach", "awaitAttached", "detach", "awaitDetached"} => HasKey

\* Nothing is left of a sandbox that does not exist.
NoSandbox ==
  /\ ~exists => left = {} /\ ~cred /\ gwPolicy = "agent" /\ supPolicy = "agent" /\ KeyOutOfReach
  /\ pc \notin {"down", "setup", "clear", "create", "raised"} => exists
  /\ ~HasKey => KeyOutOfReach

\* Processes live under their own phase, with the hold on the key it gives.
TenantsOfPhase ==
  \A k \in Tenants :
    /\ gwPolicy = k
    /\ IF k = "agent" THEN AgentPhaseInForce ELSE KeyOutOfReach

\* How far an opening switch has come.
SwitchProgress ==
  /\ pc \in SwitchPcs \ {"kill"} => left = {}
  /\ pc \in SwitchPcs \ {"awaitDetached"} /\ Target(why) # "agent" => gwPolicy = "agent"
  /\ pc \in SwitchPcs \ {"kill", "wipe"} /\ why = "validateOpen" => ~cred
  /\ pc = "policy" /\ Target(why) # "agent" => ~gwAttached
  /\ pc = "awaitDetached" =>
       gwPolicy = Target(why) /\ supPolicy = Target(why) /\ ~gwAttached /\ ~supRule
  /\ pc \in {"attach", "awaitAttached"} /\ Target(why) = "agent" => gwPolicy = "agent"
  /\ pc = "awaitAttached" => gwAttached
  /\ pc \in {"steps", "step"} =>
       /\ left \subseteq {Target(why)}
       /\ gwPolicy = Target(why) /\ supPolicy = Target(why) /\ KeyOutOfReach
       /\ why = "validateOpen" => ~cred

\* When the backend counts on the agent phase.
AgentPhaseKept ==
  /\ pc \in {"script", "rename", "launch", "agent", "leftovers", "save", "prepare"} =>
       AgentPhaseInForce
  /\ pc \in {"ready", "download"} /\ ~pending => AgentPhaseInForce

\* The identity is not saved while setup steps are still to come.
IdentityOfSetup ==
  /\ pc \in {"create", "prepare", "save"} => ~identity
  /\ pc \in SwitchPcs \cup {"steps", "step"} /\ why \in {"setupOpen", "setupClose"} => ~identity
  /\ identity /\ exists => gwPolicy # "setup"

IInv ==
  /\ TypeOK /\ ForegroundOfCall /\ CallsOfReason /\ NoSandbox /\ TenantsOfPhase
  /\ SwitchProgress /\ AgentPhaseKept /\ IdentityOfSetup

USE ConstantsAssumption DEF host, gw, sup, inside, files, counters, Target

-----------------------------------------------------------------------------
(* Type correctness                                                        *)

\* A fresh machine is well typed.
LEMMA InitTyped == Init => TypeOK
<1> SUFFICES ASSUME Init PROVE TypeOK
  OBVIOUS
<1>1. HostOK
  BY DEF Init, HostOK, Pcs, SwitchPcs, Reasons
<1>2. RecordOK /\ EgressOK /\ InsideOK
  BY DEF Init, RecordOK, EgressOK, InsideOK, Phases
<1>3. CountersOK
  BY DEF Init, CountersOK, ConstantsAssumption
<1>4. QED
  BY <1>1, <1>2, <1>3 DEF TypeOK

\* Every call leaves the host process with a call, a caller and flags of
\* their types.
LEMMA HostTyped == ASSUME TypeOK, [Next]_vars PROVE HostOK'
<1> USE DEF TypeOK, HostOK, Pcs, SwitchPcs, Reasons
<1>1. CASE Kill
  BY <1>1 DEF Kill, AfterKill, SwitchRaises, EnterSwitch, Goto
<1>2. CASE Wipe
  BY <1>2 DEF Wipe, SwitchRaises, EnterSwitch, Goto
<1>3. CASE Probe
  BY <1>3 DEF Probe, Goto
<1>4. CASE Attach
  BY <1>4 DEF Attach, SwitchRaises, EnterSwitch, Goto
<1>5. CASE AwaitAttached
  BY <1>5 DEF AwaitAttached, SwitchSucceeds, SwitchRaises, EnterSwitch, Goto
<1>6. CASE Detach
  BY <1>6 DEF Detach, SwitchRaises, EnterSwitch, Goto
<1>7. CASE Policy
  BY <1>7 DEF Policy, PolicyUnchanged, PolicySet, PolicyFails, AfterPolicy,
     SwitchSucceeds, SwitchRaises, EnterSwitch, Goto
<1>8. CASE AwaitDetached
  BY <1>8 DEF AwaitDetached, SwitchSucceeds, SwitchRaises, EnterSwitch
<1>9. CASE Setup
  BY <1>9 DEF Setup, EnterSwitch
<1>10. CASE Delete
  BY <1>10 DEF Delete
<1>11. CASE Clear
  BY <1>11 DEF Clear
<1>12. CASE Create
  BY <1>12 DEF Create
<1>13. CASE Prepare
  BY <1>13 DEF Prepare, EnterSwitch
<1>14. CASE Save
  BY <1>14 DEF Save
<1>15. CASE BeginRun
  BY <1>15 DEF BeginRun, EnterSwitch
<1>16. CASE UploadEnvScript \/ RenameEnvScript
  <2>1. CASE UploadEnvScript
    BY <2>1 DEF UploadEnvScript
  <2>2. CASE RenameEnvScript
    BY <2>2 DEF RenameEnvScript
  <2>3. QED
    BY <1>16, <2>1, <2>2
<1>17. CASE Launch
  BY <1>17 DEF Launch
<1>18. CASE AgentReturns
  BY <1>18 DEF AgentReturns, EnterSwitch
<1>19. CASE StartStep
  BY <1>19 DEF StartStep
<1>20. CASE StepReturns
  BY <1>20 DEF StepReturns
<1>21. CASE StepsDone
  BY <1>21 DEF StepsDone, EnterSwitch
<1>22. CASE StopLeftovers
  BY <1>22 DEF StopLeftovers
<1>23. CASE Download
  BY <1>23 DEF Download
<1>24. CASE StartSession
  BY <1>24 DEF StartSession
<1>25. CASE KeepSandbox
  BY <1>25 DEF KeepSandbox
<1>26. CASE Stop
  BY <1>26 DEF Stop
<1>27. CASE Crash
  BY <1>27 DEF Crash
<1>28. CASE PollEnv
  BY <1>28 DEF PollEnv
<1>29. CASE PollPolicy
  BY <1>29 DEF PollPolicy
<1>30. CASE AgentActs
  BY <1>30 DEF AgentActs
<1>31. CASE LeftoverExits
  BY <1>31 DEF LeftoverExits
<1>32. CASE UNCHANGED vars
  BY <1>32 DEF vars
<1>33. QED
  BY <1>1, <1>2, <1>3, <1>4, <1>5, <1>6, <1>7, <1>8, <1>9, <1>10, <1>11,
     <1>12, <1>13, <1>14, <1>15, <1>16, <1>17, <1>18, <1>19, <1>20, <1>21,
     <1>22, <1>23, <1>24, <1>25, <1>26, <1>27, <1>28, <1>29, <1>30, <1>31,
     <1>32 DEF Next, Host, Switch

\* The same of the sandbox, its gateway and its supervisor.
LEMMA SandboxTyped ==
  ASSUME TypeOK, [Next]_vars PROVE RecordOK' /\ EgressOK' /\ InsideOK' /\ CountersOK'
<1> USE DEF TypeOK, HostOK, RecordOK, EgressOK, InsideOK, CountersOK, Reasons, Phases
<1>1. CASE Kill
  BY <1>1 DEF Kill
<1>2. CASE Wipe
  BY <1>2 DEF Wipe
<1>3. CASE Probe
  BY <1>3 DEF Probe
<1>4. CASE Attach
  <2>1. CASE ProviderChanges(TRUE)
    BY <1>4, <2>1 DEF Attach, ProviderChanges, Loaded
  <2>2. CASE ProviderFails(TRUE)
    BY <1>4, <2>2 DEF Attach, ProviderFails
  <2>3. QED
    BY <1>4, <2>1, <2>2 DEF Attach
<1>5. CASE AwaitAttached
  BY <1>5 DEF AwaitAttached
<1>6. CASE Detach
  <2>1. CASE ProviderChanges(FALSE)
    BY <1>6, <2>1 DEF Detach, ProviderChanges, Loaded
  <2>2. CASE ProviderFails(FALSE)
    BY <1>6, <2>2 DEF Detach, ProviderFails
  <2>3. QED
    BY <1>6, <2>1, <2>2 DEF Detach
<1>7. CASE Policy
  <2>1. CASE PolicyUnchanged
    BY <1>7, <2>1 DEF Policy, PolicyUnchanged, PolicySet, PolicyFails
  <2>2. CASE PolicySet
    BY <1>7, <2>2 DEF Policy, PolicyUnchanged, PolicySet, PolicyFails
  <2>3. CASE PolicyFails
    BY <1>7, <2>3 DEF Policy, PolicyUnchanged, PolicySet, PolicyFails
  <2>4. QED
    BY <1>7, <2>1, <2>2, <2>3 DEF Policy
<1>8. CASE AwaitDetached
  BY <1>8 DEF AwaitDetached
<1>9. CASE Setup
  BY <1>9 DEF Setup
<1>10. CASE Delete
  BY <1>10 DEF Delete, SandboxGone, SandboxStays
<1>11. CASE Clear
  BY <1>11 DEF Clear
<1>12. CASE Create
  BY <1>12 DEF Create
<1>13. CASE Prepare
  BY <1>13 DEF Prepare
<1>14. CASE Save
  BY <1>14 DEF Save
<1>15. CASE BeginRun
  BY <1>15 DEF BeginRun
<1>16. CASE UploadEnvScript \/ RenameEnvScript
  <2>1. CASE UploadEnvScript
    BY <2>1 DEF UploadEnvScript
  <2>2. CASE RenameEnvScript
    BY <2>2 DEF RenameEnvScript
  <2>3. QED
    BY <1>16, <2>1, <2>2
<1>17. CASE Launch
  BY <1>17 DEF Launch
<1>18. CASE AgentReturns
  BY <1>18 DEF AgentReturns, Leaves
<1>19. CASE StartStep
  BY <1>19 DEF StartStep
<1>20. CASE StepReturns
  BY <1>20 DEF StepReturns, Leaves
<1>21. CASE StepsDone
  BY <1>21 DEF StepsDone
<1>22. CASE StopLeftovers
  BY <1>22 DEF StopLeftovers
<1>23. CASE Download
  BY <1>23 DEF Download
<1>24. CASE StartSession
  BY <1>24 DEF StartSession
<1>25. CASE KeepSandbox
  BY <1>25 DEF KeepSandbox
<1>26. CASE Stop
  BY <1>26 DEF Stop, SandboxGone, SandboxStays
<1>27. CASE Crash
  BY <1>27 DEF Crash
<1>28. CASE PollEnv
  BY <1>28 DEF PollEnv
<1>29. CASE PollPolicy
  BY <1>29 DEF PollPolicy
<1>30. CASE AgentActs
  BY <1>30 DEF AgentActs
<1>31. CASE LeftoverExits
  BY <1>31 DEF LeftoverExits
<1>32. CASE UNCHANGED vars
  BY <1>32 DEF vars
<1>33. QED
  BY <1>1, <1>2, <1>3, <1>4, <1>5, <1>6, <1>7, <1>8, <1>9, <1>10, <1>11,
     <1>12, <1>13, <1>14, <1>15, <1>16, <1>17, <1>18, <1>19, <1>20, <1>21,
     <1>22, <1>23, <1>24, <1>25, <1>26, <1>27, <1>28, <1>29, <1>30, <1>31,
     <1>32 DEF Next, Host, Switch

\* Type correctness of every reachable state of OpenShellBackend's phases.
THEOREM TypeCorrect == Spec => []TypeOK
<1>1. TypeOK /\ [Next]_vars => TypeOK'
  BY HostTyped, SandboxTyped DEF TypeOK
<1>2. QED
  BY InitTyped, <1>1, PTL DEF Spec

-----------------------------------------------------------------------------
(* The inductive invariant                                                 *)

\* A fresh machine has no sandbox and no switch in progress.
LEMMA InitIInv == Init => IInv
<1> SUFFICES ASSUME Init, TypeOK PROVE IInv
  BY InitTyped
<1>1. ForegroundOfCall /\ CallsOfReason /\ NoSandbox /\ TenantsOfPhase
  BY DEF Init, ForegroundOfCall, CallsOfReason, NoSandbox, TenantsOfPhase, Tenants,
     KeyOutOfReach, KeySpendable, SwitchPcs
<1>2. SwitchProgress /\ AgentPhaseKept /\ IdentityOfSetup
  BY DEF Init, SwitchProgress, AgentPhaseKept, IdentityOfSetup, SwitchPcs
<1>3. QED
  BY <1>1, <1>2 DEF IInv

\* Every call, with each of its outcomes, and every step of the supervisor
\* and of the processes in the sandbox keeps what the phases rely on.
LEMMA PhasesKept ==
  ASSUME IInv, [Next]_vars
  PROVE  /\ ForegroundOfCall' /\ CallsOfReason' /\ NoSandbox' /\ TenantsOfPhase'
         /\ SwitchProgress' /\ AgentPhaseKept' /\ IdentityOfSetup'
<1> USE DEF IInv, TypeOK, HostOK, RecordOK, EgressOK, InsideOK, Pcs, SwitchPcs, Reasons,
      Phases, ForegroundOfCall, CallsOfReason, NoSandbox, TenantsOfPhase, Tenants,
      SwitchProgress, AgentPhaseKept, IdentityOfSetup, AgentPhaseInForce, KeyOutOfReach,
      KeySpendable
<1>1. CASE Kill
  BY <1>1 DEF Kill, AfterKill, SwitchRaises, EnterSwitch, Goto
<1>2. CASE Wipe
  BY <1>2 DEF Wipe, SwitchRaises, EnterSwitch, Goto
<1>3. CASE Probe
  BY <1>3 DEF Probe, Goto
<1>4. CASE Attach
  BY <1>4 DEF Attach, SwitchRaises, EnterSwitch, Goto, ProviderChanges,
     ProviderFails, Loaded
<1>5. CASE AwaitAttached
  BY <1>5 DEF AwaitAttached, SwitchSucceeds, SwitchRaises, EnterSwitch, Goto
<1>6. CASE Detach
  BY <1>6 DEF Detach, SwitchRaises, EnterSwitch, Goto, ProviderChanges,
     ProviderFails, Loaded
<1>7. CASE Policy
  <2>1. CASE PolicyUnchanged
    BY <1>7, <2>1 DEF Policy, PolicyUnchanged, PolicySet, PolicyFails,
       AfterPolicy, SwitchSucceeds, SwitchRaises, EnterSwitch, Goto
  <2>2. CASE PolicySet /\ HasKey
    BY <1>7, <2>2 DEF Policy, PolicyUnchanged, PolicySet, PolicyFails,
       AfterPolicy, SwitchSucceeds, SwitchRaises, EnterSwitch, Goto
  <2>3. CASE PolicySet /\ ~HasKey /\ Target(why) = "agent"
    BY <1>7, <2>3 DEF Policy, PolicyUnchanged, PolicySet, PolicyFails,
       AfterPolicy, SwitchSucceeds, SwitchRaises, EnterSwitch, Goto
  <2>4. CASE PolicySet /\ ~HasKey /\ Target(why) # "agent"
    BY <1>7, <2>4 DEF Policy, PolicyUnchanged, PolicySet, PolicyFails,
       AfterPolicy, SwitchSucceeds, SwitchRaises, EnterSwitch, Goto
  <2>5. CASE PolicyFails
    BY <1>7, <2>5 DEF Policy, PolicyUnchanged, PolicySet, PolicyFails,
       AfterPolicy, SwitchSucceeds, SwitchRaises, EnterSwitch, Goto
  <2>6. QED
    BY <1>7, <2>1, <2>2, <2>3, <2>4, <2>5 DEF Policy
<1>8. CASE AwaitDetached
  BY <1>8 DEF AwaitDetached, SwitchSucceeds, SwitchRaises, EnterSwitch
<1>9. CASE Setup
  BY <1>9 DEF Setup, EnterSwitch
<1>10. CASE Delete
  <2>1. CASE SandboxGone
    BY <1>10, <2>1 DEF Delete, SandboxGone, SandboxStays
  <2>2. CASE SandboxStays
    BY <1>10, <2>2 DEF Delete, SandboxGone, SandboxStays
  <2>3. QED
    BY <1>10, <2>1, <2>2 DEF Delete
<1>11. CASE Clear
  BY <1>11 DEF Clear
<1>12. CASE Create
  BY <1>12 DEF Create
<1>13. CASE Prepare
  BY <1>13 DEF Prepare, EnterSwitch
<1>14. CASE Save
  BY <1>14 DEF Save
<1>15. CASE BeginRun
  BY <1>15 DEF BeginRun, EnterSwitch
<1>16. CASE UploadEnvScript \/ RenameEnvScript
  <2>1. CASE UploadEnvScript
    BY <2>1 DEF UploadEnvScript
  <2>2. CASE RenameEnvScript
    BY <2>2 DEF RenameEnvScript
  <2>3. QED
    BY <1>16, <2>1, <2>2
<1>17. CASE Launch
  BY <1>17 DEF Launch
<1>18. CASE AgentReturns
  BY <1>18 DEF AgentReturns, EnterSwitch, Leaves
<1>19. CASE StartStep
  BY <1>19 DEF StartStep
<1>20. CASE StepReturns
  BY <1>20 DEF StepReturns, Leaves
<1>21. CASE StepsDone
  BY <1>21 DEF StepsDone, EnterSwitch
<1>22. CASE StopLeftovers
  BY <1>22 DEF StopLeftovers
<1>23. CASE Download
  BY <1>23 DEF Download
<1>24. CASE StartSession
  BY <1>24 DEF StartSession
<1>25. CASE KeepSandbox
  BY <1>25 DEF KeepSandbox
<1>26. CASE Stop
  <2>1. CASE SandboxGone
    BY <1>26, <2>1 DEF Stop, SandboxGone, SandboxStays
  <2>2. CASE SandboxStays /\ identity' = identity
    BY <1>26, <2>2 DEF Stop, SandboxStays
  <2>3. CASE SandboxStays /\ identity' = FALSE
    BY <1>26, <2>3 DEF Stop, SandboxStays
  <2>4. identity' \in {identity, FALSE} /\ (SandboxGone \/ SandboxStays)
    BY ONLY <1>26 DEF Stop
  <2>5. QED
    BY ONLY <2>1, <2>2, <2>3, <2>4
<1>27. CASE Crash
  BY <1>27 DEF Crash
<1>28. CASE PollEnv
  BY <1>28 DEF PollEnv
<1>29. CASE PollPolicy
  BY <1>29 DEF PollPolicy
<1>30. CASE AgentActs
  BY <1>30 DEF AgentActs
<1>31. CASE LeftoverExits
  BY <1>31 DEF LeftoverExits
<1>32. CASE UNCHANGED vars
  BY <1>32 DEF vars
<1>33. QED
  BY <1>1, <1>2, <1>3, <1>4, <1>5, <1>6, <1>7, <1>8, <1>9, <1>10, <1>11,
     <1>12, <1>13, <1>14, <1>15, <1>16, <1>17, <1>18, <1>19, <1>20, <1>21,
     <1>22, <1>23, <1>24, <1>25, <1>26, <1>27, <1>28, <1>29, <1>30, <1>31,
     <1>32 DEF Next, Host, Switch

\* IInv is an invariant of every sequence of sessions, crashes included.
LEMMA IInvHolds == Spec => []IInv
<1>1. IInv /\ [Next]_vars => IInv'
  BY HostTyped, SandboxTyped, PhasesKept DEF IInv, TypeOK
<1>2. QED
  BY InitIInv, <1>1, PTL DEF Spec

-----------------------------------------------------------------------------
(* Safety                                                                  *)

\* No repo code of a setup step or validate command ever runs next to an
\* agent, under another phase's rules, or with the key or a file of
\* _credential_files() in reach.
THEOREM StepsIsolated == Spec => []StepIsolation
<1>1. IInv => StepIsolation
  BY DEF IInv, StepIsolation, ShimPhases, SwitchProgress, ForegroundOfCall, CallsOfReason,
     KeyOutOfReach
<1>2. QED
  BY <1>1, IInvHolds, PTL

\* No agent is ever started, whatever failed before, next to a process of a
\* setup step or validate command or without the key it needs.
THEOREM AgentGated == Spec => []AgentGate
<1>1. IInv => AgentGate
  BY DEF IInv, AgentGate, ShimPhases, TenantsOfPhase, Tenants, AgentPhaseInForce, TypeOK,
     InsideOK, Phases
<1>2. QED
  BY <1>1, IInvHolds, PTL

\* Processes a dead or failed run left behind never see another phase's
\* policy at the gateway.
THEOREM ProcessesUnderTheirPolicy == Spec => []ProcessesMatchPolicy
<1>1. IInv => ProcessesMatchPolicy
  BY DEF IInv, ProcessesMatchPolicy, TenantsOfPhase, Running
<1>2. QED
  BY <1>1, IInvHolds, PTL

\* The identity setup() saves last is never beside an open setup phase.
THEOREM SavedSandboxPastSetup == Spec => []SavedSandboxIsPastSetup
<1>1. IInv => SavedSandboxIsPastSetup
  BY DEF IInv, SavedSandboxIsPastSetup, TenantsOfPhase, Running, IdentityOfSetup
<1>2. QED
  BY <1>1, IInvHolds, PTL

-----------------------------------------------------------------------------
(* The promise of PhaseIsolation                                           *)

\* What the promise gives to whoever relies on it.
THEOREM PromiseIsolates == Promise!Spec => []Promise!Isolated
<1> USE DEF Promise!Isolated
<1>1. Promise!Init => Promise!Isolated
  BY DEF Promise!Init
<1>2. Promise!Isolated /\ [Promise!Next]_Promise!vars => Promise!Isolated'
  BY DEF Promise!Next, Promise!vars, Promise!Enter, Promise!Leave, Promise!SwitchPhase,
     Promise!TurnKey, Promise!Destroy
<1>3. QED
  BY <1>1, <1>2, PTL DEF Promise!Spec

\* Every step of the host, the supervisor and the sandbox's processes is a
\* step of the promise or changes nothing of it.
LEMMA PromiseStep == ASSUME IInv, [Next]_vars PROVE [Promise!Next]_Promise!vars
<1> USE DEF IInv, TypeOK, HostOK, RecordOK, EgressOK, InsideOK, Pcs, SwitchPcs, Reasons,
      Phases, ForegroundOfCall, CallsOfReason, NoSandbox, TenantsOfPhase, Tenants,
      SwitchProgress, AgentPhaseKept, AgentPhaseInForce, KeyOutOfReach, KeySpendable,
      Promise!Next, Promise!vars, Promise!Enter, Promise!Leave, Promise!SwitchPhase,
      Promise!TurnKey, Promise!Destroy, Promise!Phases
<1>1. CASE Kill
  BY <1>1 DEF Kill
<1>2. CASE Wipe
  BY <1>2 DEF Wipe
<1>3. CASE Probe
  BY <1>3 DEF Probe
<1>4. CASE Attach
  BY <1>4 DEF Attach, ProviderChanges, ProviderFails, Loaded
<1>5. CASE AwaitAttached
  BY <1>5 DEF AwaitAttached
<1>6. CASE Detach
  BY <1>6 DEF Detach, ProviderChanges, ProviderFails, Loaded
<1>7. CASE Policy
  <2>1. CASE PolicyUnchanged
    BY <1>7, <2>1 DEF Policy, PolicyUnchanged, PolicySet, PolicyFails
  <2>2. CASE PolicySet
    BY <1>7, <2>2 DEF Policy, PolicyUnchanged, PolicySet, PolicyFails
  <2>3. CASE PolicyFails
    BY <1>7, <2>3 DEF Policy, PolicyUnchanged, PolicySet, PolicyFails
  <2>4. QED
    BY <1>7, <2>1, <2>2, <2>3 DEF Policy
<1>8. CASE AwaitDetached
  BY <1>8 DEF AwaitDetached
<1>9. CASE Setup
  BY <1>9 DEF Setup
<1>10. CASE Delete
  <2>1. CASE SandboxGone
    BY <1>10, <2>1 DEF Delete, SandboxGone, SandboxStays
  <2>2. CASE SandboxStays
    BY <1>10, <2>2 DEF Delete, SandboxGone, SandboxStays
  <2>3. QED
    BY <1>10, <2>1, <2>2 DEF Delete
<1>11. CASE Clear
  BY <1>11 DEF Clear
<1>12. CASE Create
  BY <1>12 DEF Create
<1>13. CASE Prepare
  BY <1>13 DEF Prepare
<1>14. CASE Save
  BY <1>14 DEF Save
<1>15. CASE BeginRun
  BY <1>15 DEF BeginRun
<1>16. CASE UploadEnvScript \/ RenameEnvScript
  <2>1. CASE UploadEnvScript
    BY <2>1 DEF UploadEnvScript
  <2>2. CASE RenameEnvScript
    BY <2>2 DEF RenameEnvScript
  <2>3. QED
    BY <1>16, <2>1, <2>2
<1>17. CASE Launch
  BY <1>17 DEF Launch
<1>18. CASE AgentReturns
  BY <1>18 DEF AgentReturns, Leaves
<1>19. CASE StartStep
  BY <1>19 DEF StartStep
<1>20. CASE StepReturns
  BY <1>20 DEF StepReturns, Leaves
<1>21. CASE StepsDone
  BY <1>21 DEF StepsDone
<1>22. CASE StopLeftovers
  BY <1>22 DEF StopLeftovers
<1>23. CASE Download
  BY <1>23 DEF Download
<1>24. CASE StartSession
  BY <1>24 DEF StartSession
<1>25. CASE KeepSandbox
  BY <1>25 DEF KeepSandbox
<1>26. CASE Stop
  <2>1. CASE SandboxGone
    BY <1>26, <2>1 DEF Stop, SandboxGone, SandboxStays
  <2>2. CASE SandboxStays /\ identity' = identity
    BY <1>26, <2>2 DEF Stop, SandboxStays
  <2>3. CASE SandboxStays /\ identity' = FALSE
    BY <1>26, <2>3 DEF Stop, SandboxStays
  <2>4. identity' \in {identity, FALSE} /\ (SandboxGone \/ SandboxStays)
    BY ONLY <1>26 DEF Stop
  <2>5. QED
    BY ONLY <2>1, <2>2, <2>3, <2>4
<1>27. CASE Crash
  BY <1>27 DEF Crash
<1>28. CASE PollEnv
  BY <1>28 DEF PollEnv
<1>29. CASE PollPolicy
  BY <1>29 DEF PollPolicy
<1>30. CASE AgentActs
  BY <1>30 DEF AgentActs
<1>31. CASE LeftoverExits
  BY <1>31 DEF LeftoverExits
<1>32. CASE UNCHANGED vars
  BY <1>32 DEF vars
<1>33. QED
  BY <1>1, <1>2, <1>3, <1>4, <1>5, <1>6, <1>7, <1>8, <1>9, <1>10, <1>11,
     <1>12, <1>13, <1>14, <1>15, <1>16, <1>17, <1>18, <1>19, <1>20, <1>21,
     <1>22, <1>23, <1>24, <1>25, <1>26, <1>27, <1>28, <1>29, <1>30, <1>31,
     <1>32 DEF Next, Host, Switch

\* The backend implements the promise: phases change only in an empty
\* sandbox, and processes enter only under their own phase and hold on the key.
THEOREM BackendIsolates == Spec => ImplementsIsolation
<1>1. Init => Promise!Init
  BY DEF Init, Promise!Init, Tenants, KeySpendable
<1>2. QED
  BY <1>1, PromiseStep, IInvHolds, PTL DEF Spec, ImplementsIsolation, Promise!Spec

-----------------------------------------------------------------------------
(* Action properties                                                       *)

\* The env script and the agent's own files are the only way credentials get
\* into the sandbox, and both need the agent phase.
THEOREM CredentialsGated == Spec => CredentialsOnlyInAgentPhase
<1>1. ASSUME IInv, [Next]_vars, (~cred /\ cred') \/ (~ScriptCopy /\ ScriptCopy')
      PROVE  gwPolicy = "agent" /\ ~Running("setup") /\ ~Running("validate")
  <2> USE DEF IInv, TypeOK, InsideOK, TenantsOfPhase, Tenants, Running, AgentPhaseKept,
        AgentPhaseInForce, ForegroundOfCall, ScriptCopy
  <2>1. CASE UploadEnvScript
    BY <1>1, <2>1 DEF UploadEnvScript
  <2>2. CASE RenameEnvScript
    BY <1>1, <2>2 DEF RenameEnvScript
  <2>3. CASE AgentActs
    BY <1>1, <2>3 DEF AgentActs
  <2>4. CASE Wipe
    <3>1. cred' = FALSE \/ cred' = cred
      BY <2>4 DEF Wipe
    <3>2. stray' = stray /\ pc' # "rename"
      BY <2>4 DEF Wipe, Goto, SwitchRaises, EnterSwitch
    <3>3. QED
      BY <1>1, <3>1, <3>2
  <2>5. CASE Delete
    BY <1>1, <2>5 DEF Delete, SandboxGone, SandboxStays
  <2>6. CASE Stop
    BY <1>1, <2>6 DEF Stop, SandboxGone, SandboxStays
  <2>7. CASE Crash
    BY <1>1, <2>7 DEF Crash
  <2>8. CASE files' = files /\ (pc' # "rename" \/ pc' = pc)
    BY <1>1, <2>8
  <2>9. CASE UNCHANGED vars
    BY <1>1, <2>9 DEF vars
  <2>10. QED
    BY <1>1, <2>1, <2>2, <2>3, <2>4, <2>5, <2>6, <2>7, <2>8, <2>9
       DEF Next, Host, Switch, vars, Kill, AfterKill, Goto, SwitchRaises,
           SwitchSucceeds, EnterSwitch, Probe, Attach, AwaitAttached, Detach,
           Policy, PolicyUnchanged, PolicySet, PolicyFails, AfterPolicy,
           AwaitDetached, Setup, Clear, Create, Prepare, Save, BeginRun, Launch,
           AgentReturns, StartStep, StepReturns, StepsDone, StopLeftovers, Download,
           StartSession, KeepSandbox, PollEnv, PollPolicy, LeftoverExits
<1>2. QED
  BY <1>1, IInvHolds, PTL DEF Spec, CredentialsOnlyInAgentPhase

\* run() trusts the cleared flag to skip the repair, and may.
THEOREM PendingRepaired == Spec => PendingClearedByRepair
<1>1. ASSUME IInv, [Next]_vars, pending, ~pending', pc # "down"
      PROVE  \/ pc' = "create"
             \/ left = {} /\ gwPolicy' = "agent" /\ (HasKey => gwAttached' /\ supEnv')
  <2> USE DEF IInv, SwitchProgress, CallsOfReason, SwitchPcs
  <2>1. CASE Clear
    BY <1>1, <2>1 DEF Clear
  <2>2. CASE Policy
    BY <1>1, <2>2 DEF Policy, PolicyUnchanged, PolicySet, PolicyFails, AfterPolicy,
       SwitchSucceeds, SwitchRaises, EnterSwitch, Goto
  <2>3. CASE AwaitAttached
    BY <1>1, <2>3 DEF AwaitAttached, SwitchSucceeds, SwitchRaises, EnterSwitch, Goto
  <2>4. QED
    BY <1>1, <2>1, <2>2, <2>3 DEF Next, Host, Switch, vars, Kill, AfterKill,
       SwitchRaises, EnterSwitch, Goto, Wipe, Probe, Attach, Detach,
       AwaitDetached, SwitchSucceeds, Setup, Delete, Create, Prepare, Save,
       BeginRun, UploadEnvScript, RenameEnvScript, Launch, AgentReturns, StartStep, StepReturns,
       StepsDone, StopLeftovers, Download, StartSession, KeepSandbox, Stop,
       Crash, PollEnv, PollPolicy, AgentActs, LeftoverExits
<1>2. QED
  BY <1>1, IInvHolds, PTL DEF Spec, PendingClearedByRepair

-----------------------------------------------------------------------------
(* When no call the host gave up on takes effect later                     *)

\* The supervisor then enforces what the gateway holds, so the shim's rules
\* are gone before any agent starts.
THEOREM ShimRulesGone == ASSUME ~LateEffects PROVE Spec => []ShimRulesGoneBeforeAgent
<1> DEFINE Current == supPolicy = gwPolicy
<1>1. Init => Current
  BY DEF Init
<1>2. ASSUME Current, [Next]_vars PROVE Current'
  <2> USE <1>2
  <2>1. CASE Attach \/ Detach
    BY <2>1 DEF Attach, Detach, ProviderChanges, ProviderFails, Loaded
  <2>2. CASE Policy
    BY <2>2 DEF Policy, PolicyUnchanged, PolicySet, PolicyFails
  <2>3. CASE Delete \/ Stop
    BY <2>3 DEF Delete, Stop, SandboxGone, SandboxStays
  <2>4. CASE PollPolicy
    BY <2>4 DEF PollPolicy
  <2>5. QED
    BY <2>1, <2>2, <2>3, <2>4 DEF Next, Host, Switch, vars, Kill, Wipe, Probe,
       AwaitAttached, AwaitDetached, Setup, Clear, Create, Prepare, Save,
       BeginRun, UploadEnvScript, RenameEnvScript, Launch, AgentReturns, StartStep, StepReturns,
       StepsDone, StopLeftovers, Download, StartSession, KeepSandbox, Crash,
       PollEnv, AgentActs, LeftoverExits
<1>3. Current /\ IInv => ShimRulesGoneBeforeAgent
  BY DEF IInv, TenantsOfPhase, Running, ShimRulesGoneBeforeAgent
<1>4. QED
  BY <1>1, <1>2, <1>3, IInvHolds, PTL DEF Spec
=============================================================================
