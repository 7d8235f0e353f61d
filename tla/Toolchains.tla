------------------------------ MODULE Toolchains ------------------------------
(***************************************************************************)
(* Provisioning one toolchain of a sandbox profile, over the runs that     *)
(* reuse a sandbox (toolchains.py, backends/openshell/provision.py and     *)
(* _provision_toolchains): the version is resolved against the official    *)
(* sources, the archive fetched through the host's shared cache, uploaded  *)
(* and installed by a script in the sandbox.  Official sources move, other *)
(* jobs use the cache, disks damage it, the agent writes what it likes in  *)
(* the sandbox and the repository, and every call can fail or time out.    *)
(***************************************************************************)
EXTENDS Integers, Sequences, FiniteSets

CONSTANTS
  Tools,          \* catalog entries a behaviour may provision, by resolver
  Releases,       \* exact versions, tuples of numbers, official sources may list
  Requests,       \* versions, exact or partial, a profile or repo file may ask for
  Builds,         \* the archives a release is built as over time
  FirstBuild,     \* the build agentic-ci's vendored tables name
  MaxToolRuns,        \* bound: runs on one machine
  MaxToolMoves        \* bound: moves of sources, disks, other jobs and agents

ASSUME ToolchainAssumption ==
  /\ Tools \subseteq {"go", "pnpm", "python", "rust", "node", "protoc", "sums", "yq"}
  /\ \A v \in Releases \cup Requests : v \in Seq(Nat) /\ Len(v) \in 1..3
  /\ FirstBuild \in Builds /\ MaxToolRuns \in Nat /\ MaxToolMoves \in Nat

VARIABLES
  tool,       \* the catalog entry
  asked,      \* the profile's version: a request or Automatic
  repo,       \* repo files `auto` reads: two version lines and pnpm's hash
  listed,     \* build of each release the official source lists now
  blobs,      \* host cache: archives there, and whether they are damaged
  alias,      \* host cache: archive a sha512 alias names
  dirs,       \* sandbox: marker and content of each <name>-<version> directory
  given,      \* ghost: archive the host last installed whole in each directory
  torn,       \* ghost: directories a host died over after it began to install
  saved,      \* whether an identity is saved, and its toolchain records
  upload,     \* the uploaded archive in the sandbox's working directory
  script,     \* the install script in the sandbox, after it took its copy
  job,        \* the host's progress through one run
  toolRuns, toolMoves

toolVars ==
  <<tool, asked, repo, listed, blobs, alias, dirs, given, torn, saved, upload,
    script, job, toolRuns, toolMoves>>

\* No version and no archive; the version `auto`; a build not listed.
None == <<>>
Automatic == <<0>>
Unlisted == "unlisted"

\* What is neither: a damaged archive, a directory the agent changed.
Damaged == <<"damaged">>
Agents == <<"agent">>

\* An archive is a build of a release; equal archives have equal digests.
Archives == Releases \X Builds

\* ------------------------------------------------------------- versions

MinParts == IF tool = "protoc" THEN 2 ELSE 3

\* Catalog entries for which a partial version, and `auto`, resolve.
Partial == tool \in {"go", "node", "pnpm", "python", "rust"}

Part(v, i) == IF i <= Len(v) THEN v[i] ELSE 0

Padded(v) == [i \in 1..3 |-> Part(v, i)]

Newer(v, w) ==
  \E i \in 1..3 : Part(v, i) > Part(w, i) /\ \A j \in 1..(i-1) : Part(v, j) = Part(w, j)

StartsWith(v, w) == Len(w) <= Len(v) /\ SubSeq(v, 1, Len(w)) = w

\* Mutant: the first release that matches, not the newest.
PickAny(cands, wanted) == {v \in cands : StartsWith(v, wanted)}

\* _pick: the release with the same numbers, or the newest with these parts.
Pick(cands, wanted) ==
  IF Len(wanted) >= MinParts
  THEN {v \in cands : Padded(v) = Padded(wanted)}
  ELSE {v \in cands : /\ StartsWith(v, wanted)
                      /\ \A u \in cands : StartsWith(u, wanted) => ~Newer(u, v)}

\* auto_version: go takes the higher of the toolchain and go lines, the
\* others the first file that is there; None when no file names a version.
AutoVersion ==
  IF tool = "go" /\ repo.first # None /\ repo.second # None
  THEN IF Newer(repo.second, repo.first) THEN repo.second ELSE repo.first
  ELSE IF repo.first # None THEN repo.first ELSE repo.second

Wanted == IF asked = Automatic THEN AutoVersion ELSE asked

\* resolve() refuses these before any download.
RefusedVersion(wanted) ==
  \/ wanted = None
  \/ asked = Automatic /\ ~Partial
  \/ Len(wanted) > (IF tool = "protoc" THEN 2 ELSE 3)
  \/ Len(wanted) < MinParts /\ ~Partial
  \/ tool = "rust" /\ Len(wanted) = 1

\* ------------------------------------------------------------ resolution

\* Only go and protoc publish releases of two numbers.
Publishable(v) == Len(v) = 3 \/ tool \in {"go", "protoc"}

Listed == {v \in Releases : listed[v] # Unlisted}

Resolutions == {<<v, listed[v]>> : v \in Listed}

\* The build that agentic-ci's own tables give protoc's releases and python's
\* earlier ones.
Vendored(v) == <<v, FirstBuild>>

\* The first read of the official source: releases with their digest, or
\* with "later" where the digest is in a file of the chosen release.
IndexAnswers(wanted) ==
  CASE tool \in {"go", "pnpm"} ->
         {a \in Resolutions : a[1] \in Pick(Listed, wanted)}
    [] tool \in {"sums", "yq"} -> {<<wanted, "later">>}
    [] tool = "node" ->
         IF Len(wanted) < MinParts THEN {<<v, "later">> : v \in Pick(Listed, wanted)}
         ELSE {<<wanted, "later">>}
    [] tool = "rust" ->
         IF Len(wanted) = 2 THEN {<<v, "later">> : v \in Pick(Listed, wanted)}
         ELSE {<<wanted, "later">>}
    [] tool = "protoc" ->
         {Vendored(v) : v \in Releases \cap {wanted}} \cup {<<wanted, "later">>}
    [] tool = "python" ->
         IF Pick(Listed, wanted) # {}
         THEN {a \in Resolutions : a[1] \in Pick(Listed, wanted)}
         ELSE IF Len(wanted) >= MinParts THEN {<<wanted, "later">>} ELSE {}

\* The checksum file of the chosen release; python's earlier builds come from
\* the release agentic-ci's table names.
Digest(v) ==
  IF v \notin Releases THEN <<v, Unlisted>>
  ELSE IF tool = "python" THEN Vendored(v) ELSE <<v, listed[v]>>

\* ---------------------------------------------------------------- install

Job(pc) == job' = [job EXCEPT !.pc = pc]

Recorded(v) == IF v \in DOMAIN job.records THEN job.records[v] ELSE None

\* Mutant: a failed toolchain keeps the record of an earlier install.
FailKeepingRecord == job' = [job EXCEPT !.pc = "provisioned", !.env = None]

\* A failure after the version is known may have removed its directory, so
\* its record goes; the run goes on without the toolchain.
Fail ==
  job' = [job EXCEPT !.pc = "provisioned", !.env = None,
                     !.records = [v \in DOMAIN @ \ {job.version} |-> @[v]]]

\* A failure to resolve names no version and touches no record.
FailUnresolved == job' = [job EXCEPT !.pc = "provisioned", !.env = None]

Succeed ==
  job' = [job EXCEPT
    !.pc = "provisioned", !.env = job.version,
    !.records = [v \in DOMAIN @ \cup {job.version} |->
                   IF v = job.version THEN job.digest ELSE @[v]]]

NoScript == [version |-> None, archive |-> None, step |-> "none"]

Unsaved == [made |-> FALSE, records |-> <<>>]

NoDir == [marker |-> None, content |-> None]

Resting ==
  [pc |-> "idle", version |-> None, digest |-> None, env |-> None,
   wanted |-> None, known |-> {}, records |-> <<>>]

ToolInit ==
  /\ tool \in Tools /\ asked \in Requests \cup {Automatic}
  /\ repo \in [first : Requests \cup {None}, second : Requests \cup {None}, pin : {None}]
  /\ asked # Automatic => repo.first = None /\ repo.second = None
  /\ tool # "go" /\ repo.first # None => repo.second = None
  /\ listed \in [Releases -> {Unlisted, FirstBuild}]
  /\ \A v \in Releases :
       IF Publishable(v)
       THEN listed[v] = Unlisted => ~\E u \in Releases : Newer(u, v)
       ELSE listed[v] = Unlisted
  /\ blobs = [a \in Archives |-> "absent"] /\ alias = [a \in Archives |-> None]
  /\ dirs = [v \in Releases |-> NoDir] /\ given = [v \in Releases |-> None]
  /\ torn = {}
  /\ saved = Unsaved /\ upload = None /\ script = NoScript
  /\ job = Resting /\ toolRuns = 0 /\ toolMoves = 0

hostCache == <<blobs, alias>>
inSandbox == <<dirs, given, upload, script>>
official == <<tool, asked, repo, listed>>

\* setup(): a sandbox with a saved identity is reused through a phase switch
\* that kills what still runs in it; any other is deleted and created anew.
BeginProvision ==
  /\ job.pc = "idle" /\ toolRuns < MaxToolRuns
  /\ toolRuns' = toolRuns + 1
  /\ script' = NoScript
  /\ IF ~saved.made
     THEN /\ dirs' = [v \in Releases |-> NoDir] /\ given' = [v \in Releases |-> None]
          /\ upload' = None /\ torn' = {}
     ELSE UNCHANGED <<dirs, given, upload, torn>>
  /\ job' = [Resting EXCEPT !.pc = "resolve", !.records = saved.records]
  /\ UNCHANGED <<official, hostCache, saved, toolMoves>>

\* resolve(): the repo files are read, then the release index.  Every fetch
\* may fail once its retries are used up.
ReadIndex ==
  /\ job.pc = "resolve"
  /\ \/ FailUnresolved
     \/ /\ ~RefusedVersion(Wanted)
        /\ \E a \in IndexAnswers(Wanted) :
             job' = [job EXCEPT
               !.pc = IF a[2] = "later" THEN "digest" ELSE "resolved",
               !.version = a[1], !.digest = IF a[2] = "later" THEN None ELSE a,
               !.wanted = Wanted, !.known = Listed]
  /\ UNCHANGED <<official, hostCache, inSandbox, saved, torn, toolRuns, toolMoves>>

ReadDigest ==
  /\ job.pc = "digest"
  /\ \/ FailUnresolved
     \/ /\ Digest(job.version)[2] # Unlisted
        /\ job' = [job EXCEPT !.pc = "resolved", !.digest = Digest(job.version)]
  /\ UNCHANGED <<official, hostCache, inSandbox, saved, torn, toolRuns, toolMoves>>

\* The hash package.json pins must be the registry's.
CheckPin ==
  /\ job.pc = "resolved"
  /\ IF tool = "pnpm" /\ asked = Automatic /\ repo.pin \notin {None, job.digest}
     THEN FailUnresolved
     ELSE Job(IF tool = "pnpm" THEN "fetch" ELSE "check")
  /\ UNCHANGED <<official, hostCache, inSandbox, saved, torn, toolRuns, toolMoves>>

\* Mutant: the marker in the sandbox is enough.
MarkerInstalled == dirs[job.version].marker = job.digest

\* is_installed: the host's record and the marker both name the digest.
Installed == Recorded(job.version) = job.digest /\ dirs[job.version].marker = job.digest

\* A directory the host did not record is not looked at; the in-sandbox check
\* of a recorded one may fail.  A sha512 toolchain is checked after the fetch.
CheckInstalled ==
  /\ job.pc = "check"
  /\ \/ Installed /\ Succeed
     \/ ~Installed /\ Job(IF tool = "pnpm" THEN "upload" ELSE "fetch")
     \/ Recorded(job.version) = job.digest /\ Fail
  /\ UNCHANGED <<official, hostCache, inSandbox, saved, torn, toolRuns, toolMoves>>

Fetched == IF tool = "pnpm" THEN "check" ELSE "upload"

\* The archive the cache holds for the digest, through the alias for sha512.
Cached == IF tool = "pnpm" THEN alias[job.digest] ELSE job.digest

Holds == Cached = job.digest /\ blobs[job.digest] = "good"

\* _cached: a cached archive is hashed again; one that does not verify is
\* removed and downloaded.
CacheHit ==
  /\ job.pc = "fetch" /\ Holds
  /\ Job(Fetched)
  /\ UNCHANGED <<official, hostCache, inSandbox, saved, torn, toolRuns, toolMoves>>

CacheMiss ==
  /\ job.pc = "fetch" /\ ~Holds
  /\ blobs' = IF Cached = None THEN blobs ELSE [blobs EXCEPT ![Cached] = "absent"]
  /\ Job("download")
  /\ UNCHANGED <<official, alias, inSandbox, saved, torn, toolRuns, toolMoves>>

\* fetch_archive: the download reaches the cache only under its own verified
\* digest; a wrong or broken one is discarded.
Download ==
  /\ job.pc = "download"
  /\ \/ blobs' = [blobs EXCEPT ![job.digest] = "good"] /\ Job("alias")
     \/ Fail /\ UNCHANGED blobs
  /\ UNCHANGED <<official, alias, inSandbox, saved, torn, toolRuns, toolMoves>>

WriteAlias ==
  /\ job.pc = "alias"
  /\ alias' = IF tool = "pnpm" THEN [alias EXCEPT ![job.digest] = job.digest] ELSE alias
  /\ Job(Fetched)
  /\ UNCHANGED <<official, blobs, inSandbox, saved, torn, toolRuns, toolMoves>>

\* OpenShellInstaller.install uploads the blob as it is now; a failed or
\* late upload is discarded, as well as it can be.
Upload ==
  /\ job.pc = "upload"
  /\ \/ blobs[job.digest] = "good" /\ upload' = job.digest /\ Job("install")
     \/ blobs[job.digest] = "damaged" /\ upload' = Damaged /\ Job("install")
     \/ upload' \in {None, upload} /\ Fail
  /\ UNCHANGED <<official, hostCache, dirs, given, script, saved, torn, toolRuns, toolMoves>>

\* Mutant: the upload is not hashed in the sandbox.
TakeCopyUnchecked ==
  /\ job.pc = "install" /\ script = NoScript /\ upload # None
  /\ script' = [version |-> job.version, archive |-> upload, step |-> "copied"]
  /\ UNCHANGED job
  /\ UNCHANGED <<official, hostCache, dirs, given, upload, saved, torn, toolRuns, toolMoves>>

\* private_copy: the script hashes the copy it makes; a mismatch is refused
\* and removes the upload.
TakeCopy ==
  /\ job.pc = "install" /\ script = NoScript /\ upload # None
  /\ IF upload = job.digest
     THEN /\ script' = [version |-> job.version, archive |-> upload, step |-> "copied"]
          /\ UNCHANGED <<job, upload>>
     ELSE Fail /\ upload' = None /\ UNCHANGED script
  /\ UNCHANGED <<official, hostCache, dirs, given, saved, torn, toolRuns, toolMoves>>

\* Extracted beside the target, with the marker; the old target goes first.
ScriptRemoves ==
  /\ script # NoScript /\ script.step = "copied"
  /\ dirs' = [dirs EXCEPT ![script.version] = NoDir]
  /\ given' = [given EXCEPT ![script.version] = None]
  /\ script' = [script EXCEPT !.step = "removed"]
  /\ UNCHANGED <<official, hostCache, upload, job, saved, torn, toolRuns, toolMoves>>

\* The rename makes the new directory visible whole.  The script of a host
\* that gave up, or died, does so too.
ScriptRenames ==
  /\ script # NoScript /\ script.step = "removed"
  /\ dirs' = [dirs EXCEPT ![script.version] =
                [marker |-> script.archive, content |-> script.archive]]
  /\ given' = [given EXCEPT ![script.version] = script.archive]
  /\ script' = NoScript /\ upload' = None
  /\ IF job.pc = "install" THEN Succeed ELSE UNCHANGED job
  /\ UNCHANGED <<official, hostCache, saved, torn, toolRuns, toolMoves>>

\* The archive is refused or the disk is full, before or after the old
\* target is gone; or the script is killed with the host's exec, perhaps while
\* it removes the old target, which then stays in part, with its marker.
ScriptFails ==
  /\ script # NoScript
  /\ script' = NoScript /\ upload' = None
  /\ \/ UNCHANGED <<dirs, given>>
     \/ /\ script.step = "copied" /\ dirs[script.version] # NoDir
        /\ dirs' = [dirs EXCEPT ![script.version].content = Damaged]
        /\ given' = [given EXCEPT ![script.version] = None]
  /\ IF job.pc = "install" THEN Fail ELSE UNCHANGED job
  /\ UNCHANGED <<official, hostCache, saved, torn, toolRuns, toolMoves>>

\* The exec times out on the host; the script it started may run on.
InstallTimesOut ==
  /\ job.pc = "install"
  /\ upload' = None /\ Fail
  /\ UNCHANGED <<official, hostCache, dirs, given, script, saved, torn, toolRuns, toolMoves>>

\* The environment names what was provisioned; the identity is saved with the
\* records and the agent starts.
StartAgent ==
  /\ job.pc = "provisioned"
  /\ saved' = [made |-> TRUE, records |-> job.records]
  /\ Job("agent")
  /\ UNCHANGED <<official, hostCache, inSandbox, torn, toolRuns, toolMoves>>

EndRun ==
  /\ job.pc = "agent" /\ job' = Resting
  /\ UNCHANGED <<official, hostCache, inSandbox, saved, torn, toolRuns, toolMoves>>

\* The host process dies; what it saved, and what runs in the sandbox, stays:
\* its records are older than an install it had begun.
HostDies ==
  /\ job.pc \notin {"idle", "agent"} /\ toolMoves < MaxToolMoves
  /\ job' = Resting /\ toolMoves' = toolMoves + 1
  /\ torn' = IF job.pc \in {"install", "provisioned"} THEN torn \cup {job.version} ELSE torn
  /\ UNCHANGED <<official, hostCache, inSandbox, saved, toolRuns>>

\* ------------------------------------------------------------ the others

OutsideMoves == toolMoves < MaxToolMoves /\ toolMoves' = toolMoves + 1

\* A release appears; python's newest release rebuilds or drops versions.
SourceMoves ==
  /\ OutsideMoves
  /\ \E v \in Releases, b \in Builds \cup {Unlisted} :
       /\ Publishable(v) /\ b # listed[v] /\ (tool = "python" \/ listed[v] = Unlisted)
       /\ listed' = [listed EXCEPT ![v] = b]
  /\ UNCHANGED <<tool, asked, repo, hostCache, inSandbox, saved, job, torn, toolRuns>>

\* Another job stores or removes an archive, or the disk damages one.
CacheMoves ==
  /\ OutsideMoves
  /\ \E a \in Archives, s \in {"absent", "good", "damaged"} :
       /\ job.digest = a /\ s # blobs[a]
       /\ s = "damaged" => blobs[a] = "good"
       /\ blobs' = [blobs EXCEPT ![a] = s]
  /\ UNCHANGED <<official, alias, inSandbox, saved, job, torn, toolRuns>>

\* An alias file names another archive.
AliasMoves ==
  /\ OutsideMoves /\ tool = "pnpm"
  /\ \E a, b \in Archives :
       job.digest = a /\ a # b /\ alias' = [alias EXCEPT ![a] = b]
  /\ UNCHANGED <<official, blobs, inSandbox, saved, job, torn, toolRuns>>

\* The agent writes a toolchain directory, markers included.
AgentTampers ==
  /\ OutsideMoves /\ job.pc = "agent"
  /\ \E v \in Releases, b \in Builds :
       dirs' = [dirs EXCEPT ![v] = [marker |-> <<v, b>>, content |-> Agents]]
  /\ UNCHANGED <<official, hostCache, given, upload, script, saved, job, torn, toolRuns>>

\* The agent, or a commit, changes the files `auto` reads.
RepoMoves ==
  /\ OutsideMoves /\ job.pc \in {"idle", "agent"} /\ asked = Automatic
  /\ \E r \in Requests :
     \E p \in {None} \cup {a \in Archives : tool = "pnpm" /\ a[1] = r} :
       repo' = [repo EXCEPT !.first = r, !.pin = p]
  /\ UNCHANGED <<tool, asked, listed, hostCache, inSandbox, saved, job, torn, toolRuns>>

ToolNext ==
  \/ BeginProvision \/ ReadIndex \/ ReadDigest \/ CheckPin \/ CheckInstalled
  \/ CacheHit \/ CacheMiss \/ Download \/ WriteAlias \/ Upload
  \/ TakeCopy \/ ScriptRemoves \/ ScriptRenames \/ ScriptFails \/ InstallTimesOut
  \/ StartAgent \/ EndRun \/ HostDies
  \/ SourceMoves \/ CacheMoves \/ AliasMoves \/ AgentTampers \/ RepoMoves

\* -------------------------------------------------------------- properties

\* toolchains.provision: a toolchain the run puts on PATH is the release that
\* was asked for - the newest of those listed for a partial version - and the
\* host itself installed, in this sandbox and as the last thing there, the very
\* archive the official source names for it; only the agent may have changed
\* the directory since.  A marker or a cache entry somebody else wrote, an
\* install that failed half way or went on after its host gave up, or an
\* archive damaged on the way never passes for it.  What a host that died over
\* an install leaves is excepted: its record is not withdrawn, so there the
\* marker, which the agent can write, has the last word.
ToolchainsWhole ==
  LET v == job.env  d == job.digest  w == job.wanted IN
  job.pc = "provisioned" /\ v # None =>
    /\ StartsWith(Padded(v), w)
    /\ Len(w) < MinParts =>
         ~\E u \in job.known : StartsWith(u, w) /\ Newer(u, v)
    /\ dirs[v].marker = d
    /\ \/ given[v] = d /\ dirs[v].content \in {d, Agents}
       \/ v \in torn

=============================================================================
