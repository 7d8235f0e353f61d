------------------------------ MODULE PodmanGit ------------------------------
(***************************************************************************)
(* The host's .git beside an agent that can write it: PodmanBackend mounts *)
(* the workdir into the container, so it records the git control files     *)
(* while only the host can write them, ends every process of the agent     *)
(* after a run and puts the record back before host git runs again.        *)
(*                                                                         *)
(* The caller uses one backend object: setup() and run() in any order,     *)
(* also after one that raised (classify() goes on then), and stop() last,  *)
(* host git and host edits in between.  The agent's processes write .git   *)
(* whenever the container runs; the container may also end by itself.      *)
(***************************************************************************)
EXTENDS Integers

CONSTANTS
  Repo,      \* the workdir is a repository: it has a .git directory
  MaxCalls,  \* bound: calls of setup(), run() and stop()
  MaxEdits   \* bound: changes the host makes to its git config

ASSUME ConstantsAssumption == Repo \in BOOLEAN /\ MaxCalls \in Nat /\ MaxEdits \in Nat

VARIABLES
  pc,       \* the step the call makes next, "ready" between calls
  call,     \* the method that was called
  err,      \* an exception is on its way through a finally block
  ended,    \* how the last call ended
  tainted,  \* some call of this backend has raised
  box,      \* the container
  procs,    \* processes of the agent live in it
  parked,   \* PodmanBackend._parked
  snap,     \* Backend._host_git
  git,      \* whose control files .git holds
  edit,     \* number of the host's latest change of them
  calls

caller == <<call, ended, tainted, calls>>
container == <<box, procs, parked>>
vars == <<pc, err, caller, container, snap, git, edit>>

\* Control files: the host's after its nth change, ones the agent wrote, or
\* none at all; NoSnapshot is the record that was not taken.
Hosts(n) == [by |-> "host", edit |-> n]
Agents == [by |-> "agent", edit |-> 0]
NoGit == [by |-> "none", edit |-> 0]
NoSnapshot == [by |-> "unset", edit |-> 0]

Controls == {Agents, NoGit} \cup {Hosts(n) : n \in 0..MaxEdits}

\* What the host last left in the workdir.
Newest == IF Repo THEN Hosts(edit) ELSE NoGit

CallOK ==
  /\ pc \in {"ready", "setup", "start", "unpark", "exec", "agent", "halt", "restore", "discard"}
  /\ call \in {"none", "setup", "run", "stop"} /\ err \in BOOLEAN
  /\ ended \in {"none", "returned", "raised"} /\ tainted \in BOOLEAN

ContainerOK ==
  box \in {"none", "running", "stopped"} /\ procs \in BOOLEAN /\ parked \in BOOLEAN

GitOK == snap \in Controls \cup {NoSnapshot} /\ git \in Controls

CountersOK == edit \in 0..MaxEdits /\ calls \in 0..MaxCalls

TypeOK == CallOK /\ ContainerOK /\ GitOK /\ CountersOK

Init ==
  /\ pc = "ready" /\ call = "none" /\ err = FALSE /\ ended = "none" /\ tainted = FALSE
  /\ box = "none" /\ procs = FALSE /\ parked = FALSE
  /\ snap = NoSnapshot /\ edit = 0 /\ git = Newest
  /\ calls = 0

Returns ==
  /\ pc' = "ready" /\ err' = FALSE /\ UNCHANGED <<call, calls>>
  /\ ended' = (IF err THEN "raised" ELSE "returned")
  /\ tainted' = (tainted \/ err)

Raises ==
  /\ pc' = "ready" /\ err' = FALSE /\ ended' = "raised" /\ tainted' = TRUE
  /\ UNCHANGED <<call, calls>>

Goto(step) == pc' = step /\ UNCHANGED <<err, caller>>

-----------------------------------------------------------------------------
(* The calls                                                               *)

Call(method, step) ==
  /\ pc = "ready" /\ calls < MaxCalls /\ (call = "stop" => method = "stop")
  /\ pc' = step /\ call' = method /\ calls' = calls + 1
  /\ UNCHANGED <<err, ended, tainted, snap, git, edit>>

CallSetup == Call("setup", "setup") /\ UNCHANGED container

\* run() starts a parked container again, executes in one that runs, and sets
\* up one that does not.  is_running() is also False when podman cannot inspect
\* a container that runs.
CallRun ==
  /\ \/ parked /\ Call("run", "unpark")
     \/ ~parked /\ box = "running" /\ Call("run", "exec")
     \/ ~parked /\ Call("run", "setup")
  /\ UNCHANGED container

CallStop == Call("stop", "halt") /\ parked' = FALSE /\ UNCHANGED <<box, procs>>

-----------------------------------------------------------------------------
(* setup()                                                                 *)

\* The container, and with it every process in it, is gone or stopped.
Ended(state) == box' = state /\ procs' = FALSE

\* _snapshot_host_git: a record that exists is kept.
Recorded == snap' = IF snap = NoSnapshot THEN git ELSE snap

\* What setup() returns to: its caller, or the run() that called it.
SetupReturns == IF call = "run" THEN Goto("exec") ELSE Returns

\* Mutant: the record is taken before the container is looked at.
SetupRecordsFirst ==
  /\ pc = "setup" /\ Recorded
  /\ \/ Raises /\ UNCHANGED container
     \/ box = "running" /\ SetupReturns /\ UNCHANGED container
     \/ Goto("start") /\ UNCHANGED parked /\ (Ended("none") \/ UNCHANGED <<box, procs>>)
  /\ UNCHANGED <<git, edit>>

\* Credentials, image or host setup steps may raise.  A container seen to run
\* is used as it is, with no record: an agent may have written .git.  Otherwise
\* (is_running() may have missed one) a leftover container is removed, best
\* effort, and .git recorded.
Setup ==
  /\ pc = "setup"
  /\ \/ Raises /\ UNCHANGED <<container, snap>>
     \/ box = "running" /\ SetupReturns /\ UNCHANGED <<container, snap>>
     \/ /\ Recorded /\ Goto("start") /\ UNCHANGED parked
        /\ Ended("none") \/ UNCHANGED <<box, procs>>
  /\ UNCHANGED <<git, edit>>

\* podman pull and podman run; a name that is taken fails the latter.
Start ==
  /\ pc = "start"
  /\ \/ box = "none" /\ box' = "running" /\ SetupReturns
     \/ box' \in {box} \cup (IF box = "none" THEN {"stopped"} ELSE {}) /\ Raises
  /\ UNCHANGED <<procs, parked, snap, git, edit>>

-----------------------------------------------------------------------------
(* run()                                                                   *)

\* Mutant: the container restarts without a new record.
UnparkUnrecorded ==
  /\ pc = "unpark"
  /\ \/ box # "none" /\ box' = "running" /\ parked' = FALSE /\ Goto("exec")
     \/ Raises /\ UNCHANGED <<box, parked>>
  /\ UNCHANGED <<procs, snap, git, edit>>

\* _unpark: record the host's files, then podman start.
Unpark ==
  /\ pc = "unpark" /\ Recorded
  /\ \/ box # "none" /\ box' = "running" /\ parked' = FALSE /\ Goto("exec")
     \/ Raises /\ UNCHANGED <<box, parked>>
  /\ UNCHANGED <<procs, git, edit>>

\* The arguments of the exec are built before the try, so an exception there
\* leaves the container running; from then on the finally block ends it.
Exec ==
  /\ pc = "exec"
  /\ \/ box = "running" /\ procs' = TRUE /\ Goto("agent")
     \/ box # "running" /\ Goto("agent") /\ UNCHANGED procs
     \/ Raises /\ UNCHANGED procs
  /\ UNCHANGED <<box, parked, snap, git, edit>>

\* The stream ends, or an exception (an interrupt included) ends it; what the
\* agent started may go on.
AgentReturns ==
  /\ pc = "agent" /\ pc' = "halt"
  /\ err' \in BOOLEAN /\ procs' \in {procs, FALSE}
  /\ UNCHANGED <<caller, box, parked, snap, git, edit>>

\* Mutant: run() ends the exec it waited for, not the container.
HaltKeepsContainer ==
  /\ pc = "halt" /\ Goto("restore")
  /\ IF call = "run" THEN UNCHANGED <<box, procs>> ELSE box' = "none" /\ procs' = FALSE
  /\ UNCHANGED <<parked, snap, git, edit>>

\* _halt_then_restore: run() parks the container, or removes it when that
\* fails; stop() removes it.  When nothing worked an agent may live on.  An
\* interrupt passes both the restore and the discard.
Halt ==
  /\ pc = "halt"
  /\ \/ call = "run" /\ box # "none" /\ Ended("stopped") /\ parked' = TRUE /\ Goto("restore")
     \/ Ended("none") /\ parked' = FALSE /\ Goto("restore")
     \/ box # "none" /\ parked' = FALSE /\ Goto("discard") /\ UNCHANGED <<box, procs>>
     \/ Raises /\ UNCHANGED parked /\ \/ UNCHANGED <<box, procs>>
                                      \/ box # "none" /\ Ended("stopped")
  /\ UNCHANGED <<snap, git, edit>>

\* Mutant: the record is not released.
RestoreKeepsRecord ==
  /\ pc = "restore"
  /\ \/ snap = NoSnapshot /\ Returns /\ UNCHANGED git
     \/ snap # NoSnapshot /\ (snap # NoGit => git # NoGit) /\ git' = snap /\ Returns
     \/ snap # NoSnapshot /\ git' \in {git, NoGit} /\ Raises
  /\ UNCHANGED <<container, snap, edit>>

\* Mutant: a record that was not taken is restored like any other.
RestoreUntaken ==
  /\ pc = "restore" /\ snap' = NoSnapshot
  /\ \/ (snap # NoGit => git # NoGit) /\ git' = snap /\ Returns
     \/ git' \in {git, NoGit} /\ Raises
  /\ UNCHANGED <<container, edit>>

\* restore_git_control and the release of the record.  It raises when the
\* agent removed or replaced .git, or when the record cannot be written: .git
\* is then moved aside, or the error says that it could not be.
Restore ==
  /\ pc = "restore" /\ snap' = NoSnapshot
  /\ \/ snap = NoSnapshot /\ Returns /\ UNCHANGED git
     \/ snap # NoSnapshot /\ (snap # NoGit => git # NoGit) /\ git' = snap /\ Returns
     \/ snap # NoSnapshot /\ git' \in {git, NoGit} /\ Raises
  /\ UNCHANGED <<container, edit>>

\* _discard_host_git: .git is moved aside, unless that fails too; the error of
\* the halt propagates.
Discard ==
  /\ pc = "discard" /\ snap' = NoSnapshot /\ Raises
  /\ git' \in {git} \cup (IF snap = NoSnapshot THEN {} ELSE {NoGit})
  /\ UNCHANGED <<container, edit>>

-----------------------------------------------------------------------------
(* Around the calls                                                        *)

\* The host changes its git config, before setup() or between runs; what it
\* changed between setup() and run() the restore would undo.
HostEdits ==
  /\ pc = "ready" /\ call # "setup" /\ git.by = "host" /\ edit < MaxEdits
  /\ edit' = edit + 1 /\ git' = Hosts(edit + 1)
  /\ UNCHANGED <<pc, err, caller, container, snap>>

\* A process of the agent writes control files, or removes or replaces .git.
AgentWrites ==
  /\ procs /\ git' \in {Agents, NoGit}
  /\ UNCHANGED <<pc, err, caller, container, snap, edit>>

\* The container's sleep is over.
BoxExpires ==
  /\ box = "running" /\ Ended("stopped")
  /\ UNCHANGED <<pc, err, caller, parked, snap, git, edit>>

Next == \/ CallSetup \/ CallRun \/ CallStop
        \/ Setup \/ Start \/ Unpark \/ Exec \/ AgentReturns \/ Halt \/ Restore \/ Discard
        \/ HostEdits \/ AgentWrites \/ BoxExpires

Spec == Init /\ [][Next]_vars

-----------------------------------------------------------------------------
(* Properties                                                              *)

\* Between calls of a backend none of whose calls raised, host git finds the
\* control files exactly as the host last left them: nothing of the agent,
\* no change of the host's undone, no repository lost or gained.
HostGitAsLeft == pc = "ready" /\ ~tainted => git = Newest

\* A run() or stop() that returned leaves no process of the agent behind,
\* whatever earlier calls failed at.
LeftoversEnded == pc = "ready" /\ ended = "returned" /\ call # "setup" => ~procs

\* A record is taken while a process of the agent lives only after a call had
\* raised, by a setup() that podman did not tell of the running container, that
\* could not remove it and that is therefore going to raise.
RecordedWithoutAgent ==
  [][snap = NoSnapshot /\ snap' # NoSnapshot /\ procs'
       => tainted /\ pc' = "start" /\ box' = "running"]_vars

\* An agent starts only on a workdir whose newest control files are recorded,
\* as long as no call raised.
AgentRunsOnRecord == [][~procs /\ procs' /\ ~tainted => snap = Newest]_vars

\* docs/backends/podman.md, of a run that returned: "Host-side git after the
\* run [...] never honors hooks, fsmonitor, filter or diff drivers or other
\* config the agent set".
AgentConfigNeverHonored ==
  pc = "ready" /\ call = "run" /\ ended = "returned" => git # Agents
=============================================================================
