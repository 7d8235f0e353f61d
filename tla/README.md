# A TLA+ model of agentic-ci

agentic-ci runs coding agents (Claude Code, Codex, OpenCode) on repositories from CI jobs:
it sets a sandbox up, provisions it, runs the agent in it, reads its output and telemetry,
gates what came out, pushes it and reports to a forge and to Jira. The agent and the
repository's own scripts are not trusted with the host's git, with each other's files or with
the credentials, other people and jobs use the same remotes and caches, and every call can
fail, time out after it took effect, or die with its process. These modules model the parts
that keep their promises over all that, written from the Python package
`src/src/agentic_ci/`.

Paths below are relative to that package unless they start with `docs/` or `README.md`.

## 1. Inventory

| component | state it keeps | operations | hard behaviour | what makes it correct |
|---|---|---|---|---|
| egress phases: `backends/openshell/__init__.py` (`_set_egress_phase`), `sandbox.py` | pending flag, main process; at the gateway policy and attached provider; at the supervisor what it loaded | open `setup`/`validate`, return to `agent` | supervisor lags, processes outlive their exec, every call can time out after taking effect, crash anywhere | repo steps and agents never meet, steps cannot reach the key, agents never have shim rules |
| sandbox lifecycle: the same file, `gateway.py`, `provider.py` | gateway process and `gateway.toml`, provider, profiles, sandbox, saved identity | `setup`, reuse, recreate, `run`, `stop` | a process that ends half way, a key, image or auth mode that changed, a query that fails | an agent's sandbox is complete and made for its own request |
| toolchains: `toolchains.py`, `backends/openshell/provision.py` | the host's cache and records, markers in the sandbox | resolve, fetch, install, reuse | sources that move, a damaged cache, a script that outlives its host | what is put on PATH is whole and what was asked for |
| steps, wipe, discard: `steps.py` | child processes, stash and manifest, step records | `run_step`, `wipe_files`, `discard_paths`, `restore_discarded` | daemons, killed wrappers, partial discard | no process or credential file survives |
| stream and exit code: `backend.py`, `stream.py`, `backends/local.py` | completion flag, the agent process | `_process_stream`, `_resolve_exit_code` | completion, exit, signals and timeouts race | reading ends |
| telemetry: `otel.py`, `telemetry.py`, `mlflow.py`, `cost.py` | collector, log | start, receive, stitch, inject, sum | lost and repeated batches, new log per session | one trace, every event counted once |
| skill pipeline: `skill.py` | retry counters, cached decision, session | `run_skill`, `run_routed_skill` | retries of retries, hooks that raise, files of earlier calls | one report, bounded runs, gated verdicts, released sessions |
| routing: `routing.py` | `_run/route.json` | `classify`, `forced_route` | stale file, its copy in the sandbox, classifier that fails | decision from this call's file only |
| podman backend: `backends/podman.py` | container, parked flag | `setup`, `run`, `stop` | halt that fails, interrupt, container that expires | the agent's `.git` never meets host git |
| host git files: `git.py`, `backend.py` | the record | snapshot, restore, discard | agent deletes or replaces `.git` | host edits kept, agent's dropped |
| git branches: `git.py`, `branch.py` | remote ref, tracking ref, lease | `push_branch` | push applied but timed out, another writer | success is true, nobody's commits are overwritten |
| forge clients: `forge/` | merge requests, checks, access levels and their cache | create or reuse, update, status, feedback | lost answers, shifting pages, withdrawn access | answers are true at some moment of the call |
| Jira clients: `jira/` | field cache, issues and changelog | writes over acli and REST, label author | fallback after an effect, rate limits, growing changelog | a write that returns was done |
| phase policy, sandbox profiles: `policy.py`, `sandbox_profile.py`, `environment.py` | none (pure) | rebind, compose, merge, format | none across steps | data |
| harnesses, plugins, gates, CLI | files and arguments | parse, merge, format | none across steps | mostly data |
| images, scripts, workflows | none in the package | build, release | none | out of scope |

Interactions. `run_skill` makes a session per container run (`_AgentSession`), which starts a
collector and one backend and stops both. A routed session calls the backend twice: the
classifier, then the skill. The OpenShell backend drives the gateway by subprocess calls; the
gateway serves policies and provider environments to a supervisor in the sandbox, which polls.
Every backend reads its agent through `_process_stream`. The podman backend shares the
workdir, `.git` included, with the container. Jobs share a host's toolchain cache, a branch's
remote, its merge requests and its Jira issue with others, who act at any moment. Calls of one
process are sequential: concurrency comes from the supervisor, from processes left in a
container, from a host process that is killed and a later one that finds what it left, from
calls that take effect after the host gave up on them, and from everybody else.

## 2. Modules

| module | what it is |
|---|---|
| `PhaseIsolation` | the abstract promise of the egress phases: a phase is served, only its processes live, it changes when none live, the key is at hand for agents alone |
| `EgressPhase` | the switch, call by call, inside `setup()`, `run()` and `stop()`; implements `PhaseIsolation` through `Promise` |
| `SandboxLifecycle` | `setup()`, `run()`, `stop()` of one host process after the other on what the earlier ones left |
| `SkillRun` | `run_skill` and `run_routed_skill`, sessions and files included |
| `PodmanGit` | the podman backend and the host's git control files |
| `LeasedBranch` | the abstract promise of a push: the remote branch is a compare-and-swap register, written only under a lease that allows it |
| `GitPush` | `push_branch` against a remote that others write to; implements `LeasedBranch` through `Lease` |
| `ForgeClient` | merge requests, CI status and trusted feedback of a GitLab or GitHub client |
| `JiraClient` | writes over acli and REST, and `get_label_author` |
| `Toolchains` | one toolchain of a sandbox profile over the runs of a sandbox |
| `RunStream` | reading and ending one agent process |
| `OtelCollector` | the OTEL log of a run, its traces and its token totals |
| `RunServices` | the six components before it, as a run uses them |
| `MCRunServices` | the instance of `RunServices` that TLC checks (its versions are tuples) |
| `RemoteServices_proofs` | theorems about `GitPush`, `JiraClient` and `ForgeClient` |
| `RunOutput_proofs` | theorems about `RunStream` and `OtelCollector` |
| the other `*_proofs` | theorems about the module of that name |

The operators whose comment starts with "Mutant:" are the code with a plausible bug. They are
part of no behaviour; each shows that one property would notice that bug.

### EgressPhase

| state | code |
|---|---|
| `pc`, `why`, `todo` | the call the host makes next, the caller of `_set_egress_phase`, the steps still to run |
| `pending` | `_agent_phase_pending` |
| `identity` | the identity file, which holds the main process that a switch spares |
| `exists`, `gwPolicy`, `gwAttached` | sandbox, its policy and its provider at the gateway |
| `supPolicy`, `supRule`, `supEnv` | what the supervisor has loaded: policy, composed provider rule, placeholder |
| `fg`, `left` | the exec waited for, what earlier execs left |
| `cred`, `stray` | a file `_credential_files()` lists is there; an env script is, under its temporary name |

A switch is `Kill`, for validate `Wipe`, then to a shim phase `Probe`, perhaps `Attach` and
`AwaitAttached`, `Detach`, `Policy`, `AwaitDetached`, and to the agent phase `Policy`, `Attach`,
`AwaitAttached`. Each is one action with the outcomes its call has; `SwitchSucceeds` and
`SwitchRaises` say what each of the six callers does then. `setup()` is `Setup`, `Delete`,
`Clear`, `Create`, `Prepare`, `Save`; `run()` is `BeginRun`, `UploadEnvScript`,
`RenameEnvScript` (the script is uploaded and then moved by a call of its own), `Launch`,
`AgentReturns`, `StartStep`, `StepReturns`, `StepsDone`, `StopLeftovers`, `Download`. Around
them: `StartSession`, `KeepSandbox`, `Stop`, `Crash`, the supervisor's `PollEnv` and
`PollPolicy`, and `AgentActs` and `LeftoverExits` for what lives in the sandbox.

A policy is abstracted to the phase it was built for, a process to the kind of exec that
started it. With `LateEffects`, a gateway call that failed for the host may have been applied.

### SandboxLifecycle

| state | code |
|---|---|
| `pc`, `then` | the call the process makes next; what follows a stop of the gateway |
| `want` | auth mode, spec (harness, image, profile), key and driver images of this process |
| `old`, `updated` | `existing_auth_mode` and `profile_updated` of `setup()` |
| `config`, `identity` | `gateway.toml` and the saved sandbox identity on the disk |
| `registered`, `driver` | the CLI's registration, and the images of the gateway that listens |
| `profiles`, `prov`, `box` | what the gateway's database has: provider profiles, provider, sandbox |
| `cut` | which windows a call that failed or was killed has left open |

`ValidateCredentials`, `CheckConfig` and `FindGateway` (the gateway's status is asked twice, and
either answer may be wrong), the stop (`StopBox`, `Deregister`, `Kill`), the start
(`Start`, `Register`), `Inspect` (which provider is there and whether its profile is the
packaged one), `Decide`, then either `Reuse` or `DeleteBox`, `DeleteProvider`, `SetupProvider`,
`Configure`, `Rotate`, `ClearIdentity`, `Create`, `Prepare`, `SaveIdentity`; then `BeginRun`,
`RunEnds`, `Keep` and `Stop`. Nearly every call has its failures, and `Crash` ends a process
between any two. `EarlierRelease` and `HandEdit` are the states older releases and people
leave. The phase switches that `EgressPhase` has call by call are one step here that may fail.

Six windows are named rather than assumed away, because the code has them: a gateway that
listens although nobody counts on it (`gateway`), a status query that timed out so that the
gateway's settings were not compared (`config`), a profile updated by a process that ended
before it deleted the sandbox (`profile`), a provider stored without its refresh (`token`), a
failing provider query, which the code takes for "no provider" (`query`), and a failing
`sandbox get`, which it takes for "no sandbox" (`box`). Each property says which of them it
excepts; `sandbox_drift` is about what happens in one of them.

### SkillRun

One ticket from pre-gates to report: hooks, then container runs (`Enter`, `Setup`, `Route`,
`ClassifierReturns`, `Launch`, `AgentReturns`, `Exit`), each followed by `Judge` (retry, go on
or report), then `LoadCost`, `PostGates`, `LoadVerdict` (which may lead to one more container
run) and `Label`. `verdict` and `route` are files with the number of the run that wrote them,
so a stale file is told from a fresh one. `log` holds the runs whose metrics the OTEL log has,
`metered` those any collector received. Exit codes are classes: ok, transient (124, 137, 143)
and fatal; `Resolved` is the promotion of `_resolve_exit_code`. Hooks, gates, loaders and
`backend.run` may raise wherever the code lets them, `classify` before its `try` included.

`copied` is the kind of backend, chosen at the start: podman and local runs work on work_dir
itself, OpenShell's on a copy (`copy` is the route file in it) that `setup` uploads and every run
downloads (`SetsUp`, `ClassifierReturns`, `AgentReturns`). A `start_collector` that raises is
swallowed, perhaps with its child alive (`orphan`), and a `backend.stop` that raises leaves the
backend (`backend = "left"`) and ends the call (`Stops`).

### PodmanGit

`git` says whose control files `.git` holds (the host's after its nth change, an agent's, or
none), `snap` is the record `_host_git`, `box` and `procs` the container and agent processes in
it, `parked` the flag. The caller makes any calls in any order until `stop()`, goes on after one
that raised, as `classify()` does, and may change its git config between runs. `tainted`
remembers that some call raised: most promises are only made while none has. `is_running()` is
also false when podman cannot inspect a container that runs, and the `podman rm -f` of `setup()`
may fail unnoticed, so `CallRun` and `Setup` can go past a live agent. `Restore` and `Discard`
cover a `.git` the agent removed or replaced and a restore that fails half way.

### GitPush

`push` is the call of `push_branch` with its lease (the tracking ref, no branch, or a recorded
commit), what git read and the attempts made; `remote`, `tracking` and `head` the refs. git
checks the lease against what it read (`Attempt`) and then asks the server to move the ref from
that value (`Update`), which may succeed with the answer lost, be refused, fail for good, or be
killed at the timeout with the update under way: then it is in `late` and may land at any later
moment (`Lands`). `Others`, `TrackingMoves` and `Commits` are everybody else. `been` remembers
what the remote branch was during the call.

`LeasedBranch` says the same without git: a push may start a write from what the branch is, under
a lease that allows it; the write lands while the branch is still that, or never; and success is
claimed of what the branch was. In `GitPush` the writes under way (`UnderWay`) are the update the
call waits for and those in `late`; begin, compare, swap and answer are several calls of git
there, with retries between them.

### ForgeClient

One client of either forge (`kind`) and one call at a time (`forgeCall`): `ListRequests` and
`Send` create, reuse or change merge requests, a lost answer being sent again (`SendAgain`) after
the forge may have accepted; `ReadHead`, `ReadChecks` and `ReadStatuses` derive the CI status
from a list of which a page holds one check; `ReadThreads` and `ReadAuthors` read feedback, with
GitLab's cache of access levels (`levelCache`). `checks` has the state of every check and its
place in the list, newest first: a check that starts takes the first place and moves the others
back while the client turns pages. Comments and the notes of a thread are sets, since neither
their order nor a repetition changes what is kept. Others open and close requests, move checks
and give or take access between any two of its requests. `theme` keeps one behaviour to one of the
three. `openSeen`, `steady` and `had` remember what was true during the call.

### JiraClient

A write goes to acli or to REST (`BeginWrite`), acli may fail after it took effect and then
falls back (`RunAcli`), REST reads what the write needs (`RestRead`; a read that fails may leave
an empty field cache) and writes (`RestWrite`); 429 is sent again, nothing else is. `effects`
counts what Jira did. `get_label_author` reads the changelog page by page (`ReadChangelog`) and
then the reporter (`ReadReporter`) while `LabelChanges` appends to it. Two outcomes of the code
are named in `JiraWritesDone`: with acli a write may be done twice, and an attachment whose
upload is sent again has lost its contents, because the file was read to its end (`Resent`).

### Toolchains

`job` is the host's progress through one run: resolve (`ReadIndex`, `ReadDigest`, `CheckPin`),
`CheckInstalled`, the shared cache (`CacheHit`, `CacheMiss`, `Download`, `WriteAlias`),
`Upload`, then the install script in the sandbox (`TakeCopy`, `ScriptRemoves`, `ScriptRenames`,
`ScriptFails`), which may outlive its host's exec (`InstallTimesOut`) or the host (`HostDies`)
and may leave a part of the directory it was replacing. `saved` is the identity with its
toolchain records, `dirs` the directories with their markers. `SourceMoves`, `CacheMoves`,
`AliasMoves`, `AgentTampers` and `RepoMoves` are the official sources, other jobs and disks, the
agent, and commits. `tool` selects how a catalog entry is resolved: seven kinds of resolver,
with partial versions, `auto`, vendored tables and separate digest files. `torn` names
directories that a host died over while it installed.

### RunStream

`reader` is where `_process_stream` is: `ReadLine`, `ReadEof`, `GraceEnds` (the wait for the
telemetry exporter), `Terminate`, `Await` (ten seconds, then SIGKILL) and `Resolve`. The agent
writes lines, exits, closes its stdout, leaves a helper that holds it (`StartsHelper`) or
ignores SIGTERM (`stubborn`). Lines are told apart as the processors do: progress, final,
failure, the skills' end marker, and JSON that is no object, which makes a processor raise; the
write of any line to the output file may raise as well.

### OtelCollector

Either spans or usage events (`otelTheme`). `PostSpan` and `PostUsage` are `do_POST`: any span
may never arrive, a batch whose answer is lost arrives twice (`lost`). After `StopCollector`,
`Stitch` is `_stitch_run_traces`, `Inject` is `inject_root_spans`, and `ReadUsage`,
`AppendUsage`, `ReadAgain` are `_parse_metrics` before and after `append_codex_usage`.

### RunServices

`RunServices` EXTENDS the six modules before it. They share no variable in the code either (a
push does not look at a toolchain), so a behaviour exercises one of them, which `part` names,
and the others rest in a fixed initial state: their product would add no interleaving the code
has. Its own theorem says that each behaviour is one of the part's specification.

## 3. Runs

| run | what it checks | result |
|---|---|---|
| `egress_phases` | all properties of `EgressPhase` that hold but one, with a provider, late effects | holds, 26,916 states |
| `egress_oauth` | `ShimRulesGoneBeforeAgent` without a provider, no late effects | holds, 10,629 states |
| `egress_late_effect` | the same with late effects | violated |
| `sandbox_lifecycle` | all properties of `SandboxLifecycle` that hold | holds, 1.1 million states |
| `sandbox_drift` | `DriftedNeverReused` | violated |
| `skill_run` | all properties of `SkillRun` that hold, two routed calls on one work_dir or on copies of it | holds, 2.8 million states |
| `skill_ungated_rerun` | `ReportedOutputIsGated` | violated |
| `skill_lost_cost` | `CostIncludesClassifier` | violated |
| `podman_git` | all properties of `PodmanGit` that hold | holds, 12,159 states |
| `podman_failed_halt` | `AgentConfigNeverHonored` | violated |
| `run_services` | the properties of the six service modules | holds, 2.7 million states |
| `trace_roots` | `RootReusesMissing` | violated |

What the six violations show:

- `egress_late_effect`. A `policy set --wait` back to the agent phase times out, but the
  gateway has it. The retried switch compares policies at the gateway, finds them equal and
  waits for nothing; without a provider no other wait follows, and the agent starts while the
  supervisor still enforces the shim phase. The docstring and `docs/sandbox-profiles.md` say
  the agent phase must be in effect by then.
- `sandbox_drift`. `setup()` updates a drifted provider profile and remembers that only in a
  local variable; when the process ends before the sandbox is deleted, the next one finds the
  profile in order and the identity matching, and reuses the sandbox that ran under the drifted
  rule, which `docs/backends/openshell.md` says cannot be.
- `skill_ungated_rerun`. The run after an unreadable verdict changes the work_dir after the
  post-gates have looked at it, and its verdict is reported.
- `skill_lost_cost`. A transient retry starts a new OTEL log and the cached decision means no
  new classifier run, so the classifier's cost is lost, against `README.md`.
- `podman_failed_halt`. When a container can be neither stopped nor removed, the record is
  dropped and the next run executes in it unrecorded, so its restore has nothing to restore.
- `trace_roots`. The synthetic root of a trace without one takes the most common parent id,
  those of exported spans included: when the lost span has one child and that child two, the
  root is written with the id of the exported child, which then is its own parent. The comment
  and `docs/otel-architecture.md` speak of the most common missing parent.

What some of the passing properties say, beyond their names:

- `AgentsSandboxFits` relates what a process wants to a sandbox that another process made,
  through the identity, the provider's key and the queries that failed. Its key is the one the
  sandbox was made with; in the window `box` the provider may have got another since.
- `StepIsolation` speaks of the files `_credential_files()` lists, `CredentialsOnlyInAgentPhase`
  of every copy of the env script as well: one may outlast the agent phase, but none appears
  outside it.
- `SessionsReleased` allows one thing to be left running, a backend whose own stop raised, and
  says that the call ends raising then, without a report. `RouteOfThisCall` is restricted to
  runs on work_dir itself, where it is also proved; for copies it fails (below).
- `RecordedWithoutAgent` says exactly when a record is taken beside a live agent: after a call
  had raised, in a `setup()` that is about to raise because the container is still there.
- `PinnedLeaseHeld` is about every move of the remote, those of updates that land after the
  call has returned included. `SuccessMeansPushed` says "at some moment of the call": others
  may have pushed since.
- `ForgeAnswerTrue`: the request handed out is the project's own, was open at some moment of the
  call, and `created` is true exactly when this call's POST made it. An answer lost on the
  creation leads to a refusal, which the code reports as an error rather than as a request.
- `SuccessCoversChecks` excepts by name what the code does not read: commit statuses GitHub
  refused to show, and GitLab jobs beyond the one page that is read when checks are ignored.
- `ToolchainsWhole` excepts the directories a host died over (`torn`), half removed ones
  included: their record is not withdrawn, so there the marker, which the agent can write, has
  the last word.
- `UsageOnce` excepts batches the exporter repeated after a lost answer: the log has no ids to
  recognise them by.
- `StreamEnds` excepts a line that makes the processor raise, and promises nothing while a
  helper holds the agent's stdout and nothing announced completion: the code waits then.

Six behaviours are excepted from passing properties because the code has them, and deserve to
be known; dropping the exception named in brackets makes TLC show each:

- The env script, which holds secrets, is uploaded under a temporary name and moved by an exec of
  its own. When that exec raises, the copy stays; the next switch to validate wipes the files
  `_credential_files()` lists, which has the final name only, and a validate command can read the
  copy, against the docstring of that function. (`~stray` beside `~cred` in `StepIsolation`)
- `setup()` asks twice whether the gateway runs. When the first query times out, the comparison
  with the wanted images is skipped; when the second one answers, the process goes on with the
  gateway as it is, where the comment says the new config takes effect. (`"config"` in
  `DriverAsConfigured`)
- A process with a rotated key misses the sandbox (any failure of `sandbox get` counts as none),
  puts its key into the provider and dies before it clears the saved identity. The next process,
  with the first key, finds everything in order and reuses the sandbox without another look at the
  provider, which now holds the other key. (`"box"` in `AgentsSandboxFits`)
- `classify()` removes the route file of an earlier call from work_dir, but on OpenShell `setup()`
  has uploaded it by then, and the download after the classifier brings it back. A classifier
  that exits with 0 and writes nothing is taken to have given the old rating, where `README.md`
  says that a missing file falls back to the default. (`~copied` in `RouteOfThisCall`)
- `start_collector` reads the port file as soon as it exists; one that is still empty raises with
  the child alive. `__enter__` swallows that, and nobody stops the child, where
  `docs/otel-architecture.md` has every collector stopped. (`~orphan` in `SessionsReleased`)
- After a halt that failed, an inspect that fails too makes podman's `setup()` take the running
  container for gone; its `podman rm -f` is not checked, and the record is taken of files a live
  agent has written. `setup()` then raises, since the name is taken, but the record stays and a
  later call keeps it, against `Backend._snapshot_host_git`. (the consequent of
  `RecordedWithoutAgent`)

Bounds, and why they are enough.

- `EgressPhase`: three host processes (one that dies, one that finds its sandbox, one that
  recreates it), three runs in all (one that loses the agent phase, one that repairs it, one
  after that), two setup steps (so that a step can find what the previous one left), one or
  two validate commands. The theorems hold for every value.
- `SandboxLifecycle`: three processes (one that makes a sandbox, one that is cut short over it,
  one that finds what that left), two faults (failures, kills or hand edits), one auth mode of
  each kind (minted token, injected key, no provider) and two of everything that can differ.
  The theorems hold for every value.
- `SkillRun`: two calls, so that the second finds the files of the first; one retry, the
  default. The theorems hold for any number of both.
- `PodmanGit`: four calls (`setup`, two runs, `stop`, in any order) and two host edits, one
  before and one after a run. The theorems hold for every value.
- `GitPush`: three attempts (the default), two calls, so that a late update of the first meets
  the second, two commits on each side. The theorems hold for every value.
- `ForgeClient`: two calls (the second meets what the first made or cached), three sends, three
  moves of others (an own and a foreign request, one closed; a check that starts, fails and
  starts again), two projects and two pages, one check per page, two notes in a thread
  (`MaxNotes`: a kept and a dropped one, or two authors with different access). The theorems hold
  for every value.
- `JiraClient`: three sends, two calls, four changelog entries: one before, one between and one
  after two pages. The theorems hold for every value.
- `Toolchains`: three runs (install, tamper or fail, reuse), two moves of the others, two builds,
  a two-number release and two patch releases of it. The theorem holds for every value.
- `RunStream`: two lines, one that decides and one before or after it. The theorem holds for any
  number.
- `OtelCollector`: four spans, the least with which a child is named more often than the lost
  parent; two traces, two batches, token counts up to 2. The theorems hold for any finite number
  of spans, any traces, batches and counts.
- Deadlock is not checked: the last session, call or backend may be the end of the job.

Fairness. `EgressPhase` has weak fairness of `Bounded` alone: the calls of a switch and of a
step, each of which has a timeout or a deadline (`_POLICY_SET_TIMEOUT_SECONDS`,
`_PROVIDER_WAIT_SECONDS`, `_PROCESS_EXEC_TIMEOUT_SECONDS`, the timeouts of `run_step` and of the
kill before the discard). Upload, download, create, delete and the agent's own stream have none,
and nothing is assumed of them, nor of the supervisor, of leftovers or of crashes. So
`SwitchEnds` says that a switch that began ends, and `ShimPhaseEnds` that a setup or validate
phase that a call began to open is left again, with the call at its next unbounded step.
`RunServices` has weak fairness of `RunStream`'s host thread, whose waits after the read loop
have timeouts, and of `SignalEnds`: the kernel delivers a signal that was sent, SIGTERM ending
only an agent that does not ignore it. Nothing is assumed of the agent or its helper: they may
run, stay silent or hold their stdout for ever.

## 4. Proofs

Each `*_proofs` module proves, for every value of the constants, what its module's runs check on
an instance. The named ASSUMEs are the only assumptions: types of the constants, that values
which stand for "none" are not among the others, and that the spans of a run are numbered from 1
to some number as they start.

- `EgressPhase_proofs`: the type invariant, all four safety invariants, the two action
  properties, that `EgressPhase` implements `PhaseIsolation`, that `PhaseIsolation` implies
  `Isolated`, and, assuming `~LateEffects`, `ShimRulesGoneBeforeAgent` (the assumption that
  `egress_late_effect` shows to be needed). The safety properties speak of moments when a
  process runs, while what makes them true is the progress of a switch that is under way. So
  `IInv` adds which callers reach which call (`CallsOfReason`), how far a switch has come
  (`SwitchProgress`), when the backend counts on the agent phase (`AgentPhaseKept`), what a
  process in the sandbox implies (`TenantsOfPhase`), what a missing sandbox implies
  (`NoSandbox`) and when an identity can exist (`IdentityOfSetup`).
- `SandboxLifecycle_proofs`: the type invariant and every invariant of `sandbox_lifecycle`, for
  any number of processes and faults. An agent's state says little about why its sandbox fits;
  `IInv` says what may be relied on at every call: that a gateway that is counted on is there
  (`GatewayUp`) and, outside its two windows, was started with what is wanted (`GatewayKnown`),
  that what was found out about the provider is still so (`ProviderKnown`, `ProviderFits`), that
  the old sandbox and its identity go before the new one comes unless a query missed it
  (`OneAtATime`), and how sandbox,
  provider, drift and token go together between processes (`BoxFits`, `DriftKnown`,
  `TokenKnown`). One step per call, under it one per part of the invariant.
- `PodmanGit_proofs`: every property of `podman_git`. `IInv` adds where a record exists while a
  call is under way (`RecordIsNewest`, `RecordHeld`), when no agent can be alive (`AgentAbsent`,
  `ParkedEmpty`, `ProcessesInBox`) and which steps belong to which call (`StepsOfCall`).
- `SkillRun_proofs`: every property of `skill_run`. `IInv` adds, for every place of a call, that
  nothing was reported yet (`Reported`), which runs were made and whose output the gates saw
  (`Seen`), who decided on the model (`Routes`) and what the runs so far add up to
  (`RunsCounted`); `RunsBounded` and `VerdictOnlyAfterGates` speak of the end of a call only and
  are not inductive without them.
- `RemoteServices_proofs`, for any number of calls, sends, pages, checks, projects and people:
  - `GitPush`: `SuccessMeansPushed`, `PinnedLeaseHeld`, and that `GitPush` implements
    `LeasedBranch` (`PushIsLeased`), whose own promises follow from its steps alone
    (`RegisterKept`). `PushInv` adds that an update under way, and each one given up on, asks for
    the value its lease was checked against (`UpdateUnderLease`, `LateUnderLease`), which is what
    a late landing has to rely on, and that a call under way has not answered (`CallOpen`), which
    keeps a claim from outliving the call it belongs to.
  - `JiraClient`: `JiraWritesDone` and `LabelAuthorCurrent`. `JiraInv` adds that without acli
    nothing has happened before the REST write (`WithoutAcli`), and that the search has seen
    every addition on the pages it has read (`PagesSeen`).
  - `ForgeClient`: types, `ForgeAnswerTrue`, `SuccessCoversChecks` and `TrustedFeedback`.
    `RequestInv` adds that what is open was seen open (`OpenIsSeen`) and that a request carries
    this call's number only after its POST (`MadeByCalls`). `StatusInv` adds that the list has no
    gaps (`ListWhole`) and where a steady check can be that has not been read: on the page that
    comes next or a later one, because a list that grows at its head moves checks only towards
    the pages still to be read (`PagesRead`). `FeedbackInv` adds that a level that is cached or
    told with a comment was true once (`LevelsWereTrue`).
- `RunOutput_proofs`:
  - `RunStream`: no agent is signalled before its run is over, none outlives the call, and
    success is an exit with 0 or a run that was said to be complete (`StoppedWhenOver`, stated in
    this module; TLC found it to hold on the instance of `run_services`).
  - `OtelCollector`: `OneTrace`, from `TracesOfLog` (so many traces before the stitching, one at
    most after it); `UsageOnce`, from `StoredOnce` and `ReadingCurrent`, with lemmas about the sum
    of a function over any batches; and `RootAlwaysFound`. The last one is about the model as
    much as the code: `Stitch` and `Inject` choose a root among the most common missing parents,
    and a step that cannot choose would quietly not happen. It is proved that they always can,
    whatever spans were lost, because spans are born after their parents: the earliest span of a
    trace without a root names a parent that is not there (`EarliestDangles`). So the fallback
    of the code for a trace with neither is never needed for spans that the agent made.
- `Toolchains_proofs`: `ToolchainsWhole`, with lemmas about prefixes of versions. `ToolInv` adds
  what a record is worth at every moment of a run (`RecordsTrue`), whose script may still run in
  the sandbox (`ScriptKnown`), and that markers tell the truth unless the agent wrote them
  or an install was cut short (`MarkersTrue`).
- `RunServices_proofs`: the composition implements the specification of each of its six parts
  (`PartsImplemented`), so every safety property of `run_services` holds of it.

With these every safety property that a passing run checks is also a theorem. Model-checked only
are the liveness properties `SwitchEnds`, `ShimPhaseEnds` and `StreamEnds` (the prover has no
ENABLED and no liveness under fairness) and, of course, the six violations.
`ImplementsLease`, `RootFound` and `StoppedWhenOver` are theorems that no run lists;
`ImplementsLease` and `StoppedWhenOver` were tried with TLC first, on the instances of `GitPush`
and `RunStream` that `run_services` contains (584,592 and 48,744 states). No module declares a
recursive operator.

## 5. Not modelled

- The contents of policies, profiles, environments and records; the text of prompts, logs and
  comments; argument parsing. They are data, or pure functions: rebinding and composing policies
  (`policy.py`), merging sandbox profiles (`sandbox_profile.py`), environment files
  (`environment.py`), harness command lines and settings (`harness.py`), prices and MLflow.
- The discard and restore scripts of `steps.py`, which move a tree of files in the sandbox, and
  the step records.
- Token rotation after the first one: it needs a clock.
- Several backends on one sandbox at once: a job owns its runner. Toolchains of one profile are
  provisioned one after the other, so `Toolchains` has one.
- What an agent does with a secret it read: `EgressPhase` follows the files the backend writes
  and those `_credential_files()` lists, not copies an agent makes of them.
- The sandbox's copies of other files than the route file: a verdict an agent did not write
  stays what it was on the host. An interrupt (`KeyboardInterrupt`) in the middle of `__exit__`.
- `HostEdits` between `setup()` and the first `run()`: the record is older and the restore
  undoes such a change. Nothing in the repository says otherwise.
- A host killed by SIGKILL during a podman run: the record is in memory, so there is nothing
  a later process could restore.
- Plugins and marketplaces, images and workflows: sequential file operations and builds.

## 6. Plan

What would come next, the most useful first:

1. `RunRecords`: discard, stash, restore and download over several runs, with the host's
   records and those the sandbox brings back. Property: nothing discarded reaches the host and
   nothing is lost for the next run. To be proved.
2. `PhasePolicy` and `ProfileMerge`: parking, unparking, composition and merging as pure
   operators, checked against reference definitions over small documents.
3. An abstract promise for `SandboxLifecycle` (an agent, its request and the sandbox it is owed,
   across processes) that the lifecycle implements outside its named windows, as `PhaseIsolation`
   and `LeasedBranch` are for theirs.
4. The windows of `SandboxLifecycle` as theorems of their own: which single call, made atomic,
   closes each of them.
