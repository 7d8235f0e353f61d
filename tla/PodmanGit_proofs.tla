--------------------------- MODULE PodmanGit_proofs ---------------------------
(***************************************************************************)
(* What PodmanGit promises about host git holds for any number of calls    *)
(* and host edits.  IInv adds to the properties what is true while a call  *)
(* is under way: where a record exists, and when no agent can be alive.    *)
(***************************************************************************)
EXTENDS PodmanGit, TLAPS

\* A record of an untroubled backend is the host's latest; without one no
\* container runs and .git is the host's.
RecordIsNewest ==
  ~tainted => IF snap = NoSnapshot THEN git = Newest /\ box # "running" ELSE snap = Newest

\* Between runs there is no record; from the start of the container to the
\* end of the agent there is one.
RecordHeld ==
  ~tainted =>
    /\ pc = "ready" /\ call # "setup" => snap = NoSnapshot
    /\ pc \in {"start", "exec", "agent"} => snap # NoSnapshot

\* Until the agent is executed nothing of it lives or has written .git.
AgentAbsent ==
  ~tainted /\ pc \in {"ready", "setup", "start", "unpark", "exec"} => git = Newest /\ ~procs

\* A parked container holds no process, and a run does not start from one
\* without unparking it.
ParkedEmpty ==
  /\ parked => ~procs
  /\ pc \in {"exec", "agent"} => ~parked
  /\ call = "run" /\ pc \in {"setup", "start"} => ~parked
  /\ pc = "unpark" => parked

\* Processes live in a container that runs.
ProcessesInBox == procs => box = "running"

\* Which steps belong to which call, and that a restore follows a halt.
StepsOfCall ==
  /\ pc \in {"setup", "start"} => call \in {"setup", "run"}
  /\ pc \in {"unpark", "exec", "agent"} => call = "run"
  /\ pc \in {"halt", "restore", "discard"} => call \in {"run", "stop"}
  /\ pc = "restore" => box # "running"

IInv ==
  /\ TypeOK
  /\ RecordIsNewest
  /\ RecordHeld
  /\ AgentAbsent
  /\ ParkedEmpty
  /\ ProcessesInBox
  /\ StepsOfCall
  /\ LeftoversEnded

\* The control files a workdir can hold: no record is no such value, and
\* only the host's have a change number of the host's.
LEMMA ControlValues ==
  /\ Agents \in Controls /\ NoGit \in Controls /\ NoSnapshot \notin Controls
  /\ \A n \in 0..MaxEdits : Hosts(n) \in Controls
  /\ Agents.by # "host" /\ NoGit.by # "host"
<1>1. Agents \in Controls /\ NoGit \in Controls /\ \A n \in 0..MaxEdits : Hosts(n) \in Controls
  BY DEF Controls
<1>2. Agents.by # "host" /\ NoGit.by # "host"
  BY DEF Agents, NoGit
<1>3. \A c \in Controls : c.by \in {"agent", "none", "host"}
  BY DEF Controls, Agents, NoGit, Hosts
<1>4. NoSnapshot.by = "unset"
  BY DEF NoSnapshot
<1>5. NoSnapshot \notin Controls
  BY <1>3, <1>4
<1> QED
  BY <1>1, <1>2, <1>5

\* The initial state is typed and meets every part of IInv.
LEMMA InitIInv == Init => IInv
<1> SUFFICES ASSUME Init PROVE IInv
  OBVIOUS
<1>1. Newest \in Controls
  BY ControlValues, ConstantsAssumption DEF Init, Newest
<1>2. CallOK /\ ContainerOK
  BY DEF Init, CallOK, ContainerOK
<1>3. GitOK /\ CountersOK
  BY <1>1, ConstantsAssumption DEF Init, GitOK, CountersOK
<1> QED
  BY <1>2, <1>3
  DEF Init, IInv, TypeOK, RecordIsNewest, RecordHeld, AgentAbsent, ParkedEmpty, ProcessesInBox,
      StepsOfCall, LeftoversEnded

\* Every step keeps the types.
LEMMA NextTyped == TypeOK /\ [Next]_vars => TypeOK'
<1> SUFFICES ASSUME TypeOK, [Next]_vars PROVE TypeOK'
  OBVIOUS
<1> USE DEF TypeOK, caller, container
<1>1. CASE CallSetup
  <2> USE <1>1 DEF CallSetup, Call
  <2>1. CallOK'
    BY DEF CallOK
  <2>2. ContainerOK'
    BY DEF ContainerOK
  <2>3. GitOK'
    BY ControlValues DEF GitOK, CountersOK
  <2>4. CountersOK'
    BY ConstantsAssumption DEF CountersOK
  <2> QED
    BY <2>1, <2>2, <2>3, <2>4
<1>2. CASE CallRun
  <2> USE <1>2 DEF CallRun, Call
  <2>1. CallOK'
    BY DEF CallOK
  <2>2. ContainerOK'
    BY DEF ContainerOK
  <2>3. GitOK'
    BY ControlValues DEF GitOK, CountersOK
  <2>4. CountersOK'
    BY ConstantsAssumption DEF CountersOK
  <2> QED
    BY <2>1, <2>2, <2>3, <2>4
<1>3. CASE CallStop
  <2> USE <1>3 DEF CallStop, Call
  <2>1. CallOK'
    BY DEF CallOK
  <2>2. ContainerOK'
    BY DEF ContainerOK
  <2>3. GitOK'
    BY ControlValues DEF GitOK, CountersOK
  <2>4. CountersOK'
    BY ConstantsAssumption DEF CountersOK
  <2> QED
    BY <2>1, <2>2, <2>3, <2>4
<1>4. CASE Setup
  <2> USE <1>4 DEF Setup, SetupReturns, Recorded, Ended, Returns, Raises, Goto
  <2>1. CallOK'
    BY DEF CallOK
  <2>2. ContainerOK'
    BY DEF ContainerOK
  <2>3. GitOK'
    BY ControlValues DEF GitOK, CountersOK
  <2>4. CountersOK'
    BY ConstantsAssumption DEF CountersOK
  <2> QED
    BY <2>1, <2>2, <2>3, <2>4
<1>5. CASE Start
  <2> USE <1>5 DEF Start, SetupReturns, Returns, Raises, Goto
  <2>1. CallOK'
    BY DEF CallOK
  <2>2. ContainerOK'
    BY DEF ContainerOK
  <2>3. GitOK'
    BY ControlValues DEF GitOK, CountersOK
  <2>4. CountersOK'
    BY ConstantsAssumption DEF CountersOK
  <2> QED
    BY <2>1, <2>2, <2>3, <2>4
<1>6. CASE Unpark
  <2> USE <1>6 DEF Unpark, Recorded, Raises, Goto
  <2>1. CallOK'
    BY DEF CallOK
  <2>2. ContainerOK'
    BY DEF ContainerOK
  <2>3. GitOK'
    BY ControlValues DEF GitOK, CountersOK
  <2>4. CountersOK'
    BY ConstantsAssumption DEF CountersOK
  <2> QED
    BY <2>1, <2>2, <2>3, <2>4
<1>7. CASE Exec
  <2> USE <1>7 DEF Exec, Raises, Goto
  <2>1. CallOK'
    BY DEF CallOK
  <2>2. ContainerOK'
    BY DEF ContainerOK
  <2>3. GitOK'
    BY ControlValues DEF GitOK, CountersOK
  <2>4. CountersOK'
    BY ConstantsAssumption DEF CountersOK
  <2> QED
    BY <2>1, <2>2, <2>3, <2>4
<1>8. CASE AgentReturns
  <2> USE <1>8 DEF AgentReturns
  <2>1. CallOK'
    BY DEF CallOK
  <2>2. ContainerOK'
    BY DEF ContainerOK
  <2>3. GitOK'
    BY ControlValues DEF GitOK, CountersOK
  <2>4. CountersOK'
    BY ConstantsAssumption DEF CountersOK
  <2> QED
    BY <2>1, <2>2, <2>3, <2>4
<1>9. CASE Halt
  <2> USE <1>9 DEF Halt, Ended, Raises, Goto
  <2>1. CallOK'
    BY DEF CallOK
  <2>2. ContainerOK'
    BY DEF ContainerOK
  <2>3. GitOK'
    BY ControlValues DEF GitOK, CountersOK
  <2>4. CountersOK'
    BY ConstantsAssumption DEF CountersOK
  <2> QED
    BY <2>1, <2>2, <2>3, <2>4
<1>10. CASE Restore
  <2> USE <1>10 DEF Restore, Returns, Raises
  <2>1. CallOK'
    BY DEF CallOK
  <2>2. ContainerOK'
    BY DEF ContainerOK
  <2>3. GitOK'
    BY ControlValues DEF GitOK, CountersOK
  <2>4. CountersOK'
    BY ConstantsAssumption DEF CountersOK
  <2> QED
    BY <2>1, <2>2, <2>3, <2>4
<1>11. CASE Discard
  <2> USE <1>11 DEF Discard, Raises
  <2>1. CallOK'
    BY DEF CallOK
  <2>2. ContainerOK'
    BY DEF ContainerOK
  <2>3. GitOK'
    BY ControlValues DEF GitOK, CountersOK
  <2>4. CountersOK'
    BY ConstantsAssumption DEF CountersOK
  <2> QED
    BY <2>1, <2>2, <2>3, <2>4
<1>12. CASE HostEdits
  <2> USE <1>12 DEF HostEdits
  <2>1. CallOK'
    BY DEF CallOK
  <2>2. ContainerOK'
    BY DEF ContainerOK
  <2>3. CountersOK'
    BY ConstantsAssumption DEF CountersOK
  <2>4. GitOK'
    <3>1. edit + 1 \in 0..MaxEdits
      BY ConstantsAssumption DEF CountersOK
    <3>2. git' \in Controls
      BY <3>1, ControlValues
    <3> QED
      BY <3>2 DEF GitOK
  <2> QED
    BY <2>1, <2>2, <2>3, <2>4
<1>13. CASE AgentWrites
  <2> USE <1>13 DEF AgentWrites
  <2>1. CallOK'
    BY DEF CallOK
  <2>2. ContainerOK'
    BY DEF ContainerOK
  <2>3. GitOK'
    BY ControlValues DEF GitOK, CountersOK
  <2>4. CountersOK'
    BY ConstantsAssumption DEF CountersOK
  <2> QED
    BY <2>1, <2>2, <2>3, <2>4
<1>14. CASE BoxExpires
  <2> USE <1>14 DEF BoxExpires, Ended
  <2>1. CallOK'
    BY DEF CallOK
  <2>2. ContainerOK'
    BY DEF ContainerOK
  <2>3. GitOK'
    BY ControlValues DEF GitOK, CountersOK
  <2>4. CountersOK'
    BY ConstantsAssumption DEF CountersOK
  <2> QED
    BY <2>1, <2>2, <2>3, <2>4
<1>15. CASE UNCHANGED vars
  BY <1>15 DEF vars, CallOK, ContainerOK, GitOK, CountersOK
<1> QED
  BY <1>1, <1>2, <1>3, <1>4, <1>5, <1>6, <1>7, <1>8, <1>9, <1>10, <1>11, <1>12, <1>13, <1>14,
     <1>15 DEF Next

\* Every step of the caller, the backend, the agent and the container keeps
\* IInv.
LEMMA NextIInv == IInv /\ [Next]_vars => IInv'
<1> SUFFICES ASSUME IInv, [Next]_vars PROVE IInv'
  OBVIOUS
<1>0. TypeOK'
  BY NextTyped DEF IInv
<1> USE ControlValues
    DEF IInv, TypeOK, CallOK, ContainerOK, GitOK, RecordIsNewest, RecordHeld, AgentAbsent,
        ParkedEmpty, ProcessesInBox, StepsOfCall, LeftoversEnded, Newest, caller, container
<1>1. CASE CallSetup
  BY <1>0, <1>1 DEF CallSetup, Call
<1>2. CASE CallRun
  BY <1>0, <1>2 DEF CallRun, Call
<1>3. CASE CallStop
  BY <1>0, <1>3 DEF CallStop, Call
<1>4. CASE Setup
  BY <1>0, <1>4 DEF Setup, SetupReturns, Recorded, Ended, Returns, Raises, Goto
<1>5. CASE Start
  BY <1>0, <1>5 DEF Start, SetupReturns, Returns, Raises, Goto
<1>6. CASE Unpark
  BY <1>0, <1>6 DEF Unpark, Recorded, Raises, Goto
<1>7. CASE Exec
  BY <1>0, <1>7 DEF Exec, Raises, Goto
<1>8. CASE AgentReturns
  <2>1. procs' => procs
    BY <1>8 DEF AgentReturns
  <2>2. ProcessesInBox'
    <3>1. box' = box /\ pc' # "start"
      BY <1>8 DEF AgentReturns
    <3> QED
      BY <2>1, <3>1
  <2>3. ParkedEmpty'
    BY <1>8 DEF AgentReturns
  <2> QED
    BY <1>0, <1>8, <2>2, <2>3 DEF AgentReturns
<1>9. CASE Halt
  BY <1>0, <1>9 DEF Halt, Ended, Raises, Goto
<1>10. CASE Restore
  BY <1>0, <1>10 DEF Restore, Returns, Raises
<1>11. CASE Discard
  BY <1>0, <1>11 DEF Discard, Raises
<1>12. CASE HostEdits
  BY <1>0, <1>12 DEF HostEdits
<1>13. CASE AgentWrites
  BY <1>0, <1>13 DEF AgentWrites
<1>14. CASE BoxExpires
  BY <1>0, <1>14 DEF BoxExpires, Ended
<1>15. CASE UNCHANGED vars
  BY <1>0, <1>15 DEF vars
<1> QED
  BY <1>1, <1>2, <1>3, <1>4, <1>5, <1>6, <1>7, <1>8, <1>9, <1>10, <1>11, <1>12, <1>13, <1>14,
     <1>15 DEF Next

\* IInv holds in every reachable state.
LEMMA IInvHolds == Spec => []IInv
BY InitIInv, NextIInv, PTL DEF Spec

\* Types, the container's processes among them, are kept by every call.
THEOREM PodmanTyped == Spec => []TypeOK
BY IInvHolds, PTL DEF IInv

\* As long as no call of the backend raised, host git finds between calls the
\* control files the host left.
THEOREM HostGitKept == Spec => []HostGitAsLeft
<1>1. IInv => HostGitAsLeft
  BY DEF IInv, AgentAbsent, HostGitAsLeft
<1> QED
  BY <1>1, IInvHolds, PTL

\* A run() or stop() that returned ended every process of the agent.
THEOREM NoLeftovers == Spec => []LeftoversEnded
BY IInvHolds, PTL DEF IInv

\* A record is taken beside a living process of the agent only by a setup()
\* that missed and kept its container, and only after a call had raised;
\* _unpark() records with the container parked, which holds none.
THEOREM RecordsAreClean == Spec => RecordedWithoutAgent
<1> DEFINE Clean == snap = NoSnapshot /\ snap' # NoSnapshot /\ procs'
                      => tainted /\ pc' = "start" /\ box' = "running"
<1>1. IInv /\ [Next]_vars => [Clean]_vars
  <2> SUFFICES ASSUME IInv, [Next]_vars, snap = NoSnapshot, snap' # NoSnapshot, procs'
               PROVE  tainted /\ pc' = "start" /\ box' = "running"
    OBVIOUS
  <2>1. CASE Setup
    <3>1. pc' = "start" /\ procs /\ box' = box
      BY <2>1 DEF Setup, Recorded, Ended, Goto, container
    <3>2. tainted
      BY <2>1, <3>1 DEF Setup, IInv, AgentAbsent
    <3> QED
      BY <3>1, <3>2 DEF IInv, ProcessesInBox
  <2>2. CASE Unpark
    BY <2>2 DEF Unpark, IInv, ParkedEmpty
  <2> QED
    BY <2>1, <2>2
    DEF Next, CallSetup, CallRun, CallStop, Call, Start, Exec, AgentReturns, Halt, Restore,
        Discard, HostEdits, AgentWrites, BoxExpires, vars, caller, container
<1> QED
  BY <1>1, IInvHolds, PTL DEF Spec, RecordedWithoutAgent

\* An agent is executed only on a workdir whose latest control files are
\* recorded, as long as no call raised.
THEOREM AgentsAreRecorded == Spec => AgentRunsOnRecord
<1>1. IInv /\ [Next]_vars => [~procs /\ procs' /\ ~tainted => snap = Newest]_vars
  <2> SUFFICES ASSUME IInv, [Next]_vars, ~procs, procs', ~tainted PROVE snap = Newest
    OBVIOUS
  <2>1. CASE Exec
    BY <2>1 DEF Exec, IInv, RecordHeld, RecordIsNewest
  <2> QED
    BY <2>1
    DEF Next, CallSetup, CallRun, CallStop, Call, Setup, Start, Unpark, AgentReturns, Halt, Ended,
        Restore, Discard, HostEdits, AgentWrites, BoxExpires, vars, caller, container, IInv,
        ProcessesInBox
<1> QED
  BY <1>1, IInvHolds, PTL DEF Spec, AgentRunsOnRecord
=============================================================================
