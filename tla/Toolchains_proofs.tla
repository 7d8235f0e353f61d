--------------------------- MODULE Toolchains_proofs ---------------------------
(***************************************************************************)
(* ToolchainsWhole for any catalog entry, releases, requests and builds,   *)
(* and any number of runs and of moves by the sources, other jobs and the  *)
(* agent.  ToolInv says what the host's record is worth at every moment:   *)
(* it names what the host installed last, unless an install is under way   *)
(* there or a host died over one.                                          *)
(***************************************************************************)
EXTENDS Toolchains, SequenceTheorems, TLAPS

ToolSpec == ToolInit /\ [][ToolNext]_toolVars

\* Places of a run before the upload is installed, and once a release with
\* its digest is known.
BeforeInstall ==
  {"resolve", "digest", "resolved", "check", "fetch", "download", "alias", "upload"}
Known == {"resolved", "check", "fetch", "download", "alias", "upload", "install"}

Pcs == BeforeInstall \cup {"idle", "install", "provisioned", "agent"}

Versions == {v \in Seq(Nat) : Len(v) \in 1..3}

\* The shape of the state, as far as the proof needs it.
Shaped ==
  /\ tool \in Tools /\ asked \in Requests \cup {Automatic}
  /\ repo.first \in Requests \cup {None} /\ repo.second \in Requests \cup {None}
  /\ DOMAIN repo = {"first", "second", "pin"}
  /\ DOMAIN listed = Releases
  /\ DOMAIN dirs = Releases /\ DOMAIN given = Releases
  /\ \A v \in Releases : DOMAIN dirs[v] = {"marker", "content"}
  /\ DOMAIN job = {"pc", "version", "digest", "env", "wanted", "known", "records"}
  /\ DOMAIN script = {"version", "archive", "step"}
  /\ DOMAIN saved = {"made", "records"}
  /\ job.pc \in Pcs

\* A release that is known is one there is, with a digest.
Resolved ==
  /\ job.pc \in Known => job.version \in Releases /\ job.digest # None
  /\ script # NoScript => script.version \in Releases /\ script.archive # None

\* The version is what was wanted, and the newest of those that were listed.
Fits(v, w, known) ==
  /\ StartsWith(Padded(v), w)
  /\ Len(w) < MinParts => ~\E u \in known : StartsWith(u, w) /\ Newer(u, v)

VersionFits ==
  job.pc \in Known \cup {"digest"} \/ (job.env # None)
    => Fits(job.version, job.wanted, job.known)

\* At most one script runs, that of the install under way or one whose host
\* gave up or died; then no record names its directory, or the directory is torn.
ScriptKnown ==
  /\ job.pc \in BeforeInstall => script = NoScript
  /\ job.pc = "install" /\ script # NoScript =>
       script.version = job.version /\ script.archive = job.digest
  /\ job.pc # "install" /\ script # NoScript =>
       /\ script.version \notin DOMAIN job.records \/ script.version \in torn
       /\ job.pc # "provisioned" =>
            script.version \notin DOMAIN saved.records \/ script.version \in torn
       /\ job.pc = "provisioned" => script.version = job.version

\* A record names the archive the host installed last.
RecordsTrue ==
  /\ \A v \in DOMAIN job.records :
       v \in torn \/ job.records[v] = given[v] \/ (job.pc = "install" /\ v = job.version)
  /\ \A v \in DOMAIN saved.records :
       \/ v \in torn \/ saved.records[v] = given[v]
       \/ job.pc \in {"install", "provisioned"} /\ v = job.version
  /\ ~saved.made => DOMAIN saved.records = {}

\* What a marker names is there, or something of the agent, unless an install
\* that was cut short left a part of an older one.
MarkersTrue ==
  \A v \in Releases : dirs[v].content \in {dirs[v].marker, Agents} \/ given[v] = None

\* A toolchain on PATH is the release of this run, installed or found.
OnPath ==
  job.env # None =>
    /\ job.pc \in {"provisioned", "agent"} /\ script = NoScript
    /\ job.env = job.version /\ job.env \in Releases
    /\ job.pc = "provisioned" =>
         /\ given[job.env] = job.digest \/ job.env \in torn
         /\ dirs[job.env].marker = job.digest /\ job.digest # None

ToolInv ==
  /\ Shaped
  /\ Resolved
  /\ VersionFits
  /\ ScriptKnown
  /\ RecordsTrue
  /\ MarkersTrue
  /\ OnPath

\* A prefix of a sequence is a version with the same numbers.
LEMMA PrefixEqual ==
  ASSUME NEW p \in Seq(Nat), NEW w \in Seq(Nat), Len(w) <= Len(p),
         \A i \in 1..Len(w) : p[i] = w[i]
  PROVE  SubSeq(p, 1, Len(w)) = w
<1> DEFINE n == Len(w)
<1>1. n \in Nat
  OBVIOUS
<1>2. \A i \in 1..n : p[i] \in Nat
  BY ElementOfSeq
<1> HIDE DEF n
<1>3. /\ SubSeq(p, 1, n) \in Seq(Nat)
      /\ Len(SubSeq(p, 1, n)) = IF 1 <= n THEN n - 1 + 1 ELSE 0
      /\ \A i \in 1..(n - 1 + 1) : SubSeq(p, 1, n)[i] = p[1 + i - 1]
  BY <1>1, <1>2, SubSeqProperties
<1>4. Len(SubSeq(p, 1, n)) = n
  BY <1>1, <1>3
<1>5. \A i \in 1..n : SubSeq(p, 1, n)[i] = w[i]
  BY <1>1, <1>3 DEF n
<1>6. SubSeq(p, 1, n) = w
  BY <1>3, <1>4, <1>5, SeqEqual DEF n
<1> QED
  BY <1>6 DEF n

\* A version whose numbers begin as those of w do starts with w, padded or not.
LEMMA PaddedStarts ==
  ASSUME NEW v \in Versions, NEW w \in Versions, Len(w) <= Len(v),
         \A i \in 1..Len(w) : v[i] = w[i]
  PROVE  StartsWith(Padded(v), w)
<1> DEFINE p == <<Part(v, 1), Part(v, 2), Part(v, 3)>>
<1>1. Padded(v) = p
  BY DEF Padded
<1>2. \A i \in 1..Len(v) : v[i] \in Nat
  BY ElementOfSeq DEF Versions
<1>3. p \in Seq(Nat) /\ Len(p) = 3
  BY <1>2 DEF Part, Versions
<1>4. \A i \in 1..Len(w) : p[i] = w[i] /\ p[i] \in Nat
  <2> TAKE i \in 1..Len(w)
  <2>1. i \in 1..Len(v) /\ i \in 1..3
    BY DEF Versions
  <2>2. p[i] = Part(v, i)
    BY <2>1
  <2> QED
    BY <1>2, <2>1, <2>2 DEF Part
<1> HIDE DEF p
<1>5. SubSeq(p, 1, Len(w)) = w
  BY <1>3, <1>4, PrefixEqual DEF Versions
<1>6. Len(w) <= Len(p)
  <2>1. Len(w) \in 1..3
    BY DEF Versions
  <2>2. Len(p) = 3
    BY <1>3
  <2> QED
    BY <2>1, <2>2
<1> QED
  BY <1>1, <1>5, <1>6 DEF StartsWith

\* An exact version starts with itself.
LEMMA ExactStarts ==
  ASSUME NEW v \in Versions
  PROVE  StartsWith(Padded(v), v)
  BY PaddedStarts

\* What starts with w begins as w does.
LEMMA PrefixStarts ==
  ASSUME NEW v \in Versions, NEW w \in Versions, StartsWith(v, w)
  PROVE  StartsWith(Padded(v), w)
<1>1. Len(w) <= Len(v) /\ SubSeq(v, 1, Len(w)) = w
  BY DEF StartsWith
<1>2. \A i \in 1..Len(w) : v[i] \in Nat
  BY <1>1, ElementOfSeq DEF Versions
<1>3. \A i \in 1..Len(w) : SubSeq(v, 1, Len(w))[i] = v[i]
  BY <1>1, <1>2, SubSeqProperties DEF Versions
<1> QED
  BY <1>1, <1>3, PaddedStarts

\* Versions are tuples of one to three numbers.
LEMMA AllVersions == Releases \subseteq Versions /\ Requests \subseteq Versions
  BY ToolchainAssumption DEF Versions

\* What Pick returns is there, and is what was wanted, or the newest of that.
LEMMA PickFits ==
  ASSUME NEW w \in Versions, NEW v \in Pick(Listed, w)
  PROVE  v \in Listed /\ v \in Releases /\ Fits(v, w, Listed)
<1>1. Listed \subseteq Releases
  BY DEF Listed
<1>2. v \in Listed /\ v \in Releases /\ v \in Versions
  BY <1>1, AllVersions DEF Pick
<1>3. CASE Len(w) >= MinParts
  <2>1. Padded(v) = Padded(w)
    BY <1>3 DEF Pick
  <2>2. StartsWith(Padded(v), w)
    BY <2>1, ExactStarts
  <2>3. ~(Len(w) < MinParts)
    BY <1>3 DEF MinParts, Versions
  <2> QED
    BY <1>2, <2>2, <2>3 DEF Fits
<1>4. CASE ~(Len(w) >= MinParts)
  <2>1. StartsWith(v, w) /\ \A u \in Listed : StartsWith(u, w) => ~Newer(u, v)
    BY <1>4 DEF Pick
  <2>2. StartsWith(Padded(v), w)
    BY <1>2, <2>1, PrefixStarts
  <2> QED
    BY <1>2, <2>1, <2>2 DEF Fits
<1> QED
  BY <1>3, <1>4

\* A version with all its parts is what was wanted.
LEMMA ExactFits ==
  ASSUME NEW w \in Versions, ~(Len(w) < MinParts), NEW known
  PROVE  Fits(w, w, known)
  BY ExactStarts DEF Fits

\* What a run wants comes from the profile or from a file of the repository.
LEMMA WantedVersion ==
  ASSUME Shaped, Wanted # None
  PROVE  Wanted \in Versions
<1>1. Wanted \in Requests \cup {None}
  BY DEF Shaped, Wanted, AutoVersion
<1> QED
  BY <1>1, AllVersions

\* Whatever the catalog entry, an answer of the index is what was wanted, and
\* one with a digest is a release.
LEMMA AnswersFit ==
  ASSUME Shaped, ~RefusedVersion(Wanted), NEW a \in IndexAnswers(Wanted)
  PROVE  /\ Fits(a[1], Wanted, Listed)
         /\ a[2] # "later" => a[1] \in Releases /\ a # None
<1> DEFINE w == Wanted
<1>1. w \in Versions
  BY WantedVersion DEF RefusedVersion
<1>2. ~(Len(w) < MinParts) => Fits(w, w, Listed)
  BY <1>1, ExactFits
<1>3. \A v \in Pick(Listed, w) : v \in Releases /\ Fits(v, w, Listed)
  BY <1>1, PickFits
<1>4. \A b \in Resolutions : b[1] \in Releases /\ b # None
  BY DEF Resolutions, Listed, None
<1>5. \A v \in Releases : Vendored(v)[1] = v /\ Vendored(v) # None
  BY DEF Vendored, None
<1>6. tool \in {"go", "pnpm", "python", "rust", "node", "protoc", "sums", "yq"}
  BY ToolchainAssumption DEF Shaped
<1>7. Len(w) \in 1..3
  BY <1>1 DEF Versions
<1>8. ~Partial => ~(Len(w) < MinParts)
  BY DEF RefusedVersion
<1> HIDE DEF w
<1>9. CASE tool \in {"go", "pnpm"}
  BY <1>3, <1>4, <1>9 DEF IndexAnswers, w
<1>10. CASE tool \in {"sums", "yq"}
  <2>1. a = <<w, "later">>
    BY <1>10 DEF IndexAnswers, w
  <2> QED
    BY <1>2, <1>8, <1>10, <2>1 DEF Partial, w
<1>11. CASE tool = "node"
  <2>1. \/ \E v \in Pick(Listed, w) : a = <<v, "later">>
        \/ ~(Len(w) < MinParts) /\ a = <<w, "later">>
    BY <1>11 DEF IndexAnswers, w
  <2> QED
    BY <1>2, <1>3, <2>1 DEF w
<1>12. CASE tool = "rust"
  <2>1. \/ \E v \in Pick(Listed, w) : a = <<v, "later">>
        \/ Len(w) # 2 /\ a = <<w, "later">>
    BY <1>12 DEF IndexAnswers, w
  <2>2. Len(w) # 2 => ~(Len(w) < MinParts)
    BY <1>7, <1>12 DEF RefusedVersion, MinParts, w
  <2> QED
    BY <1>2, <1>3, <2>1, <2>2 DEF w
<1>13. CASE tool = "protoc"
  <2>1. ~(Len(w) < MinParts)
    BY <1>8, <1>13 DEF Partial
  <2>2. a = <<w, "later">> \/ (w \in Releases /\ a = Vendored(w))
    BY <1>13 DEF IndexAnswers, w
  <2> QED
    BY <1>2, <1>5, <2>1, <2>2 DEF w
<1>14. CASE tool = "python"
  <2>1. \/ a \in Resolutions /\ a[1] \in Pick(Listed, w)
        \/ Len(w) >= MinParts /\ a = <<w, "later">>
    BY <1>14 DEF IndexAnswers, w
  <2>2. Len(w) >= MinParts => ~(Len(w) < MinParts)
    BY <1>7 DEF MinParts
  <2> QED
    BY <1>2, <1>3, <1>4, <2>1, <2>2 DEF w
<1> QED
  BY <1>6, <1>9, <1>10, <1>11, <1>12, <1>13, <1>14

\* Nothing is known, installed or recorded at first.
LEMMA InitToolInv == ToolInit => ToolInv
<1> SUFFICES ASSUME ToolInit PROVE ToolInv
  OBVIOUS
<1> USE DEF ToolInit
<1>1. Shaped
  BY DEF Shaped, NoDir, Resting, NoScript, Unsaved, Pcs
<1>2. Resolved /\ VersionFits /\ OnPath
  BY DEF Resolved, VersionFits, OnPath, Resting, NoScript, Known, None
<1>3. ScriptKnown /\ RecordsTrue
  BY DEF ScriptKnown, RecordsTrue, Resting, NoScript, Unsaved, None
<1>4. MarkersTrue
  BY DEF MarkersTrue, NoDir
<1> QED
  BY <1>1, <1>2, <1>3, <1>4 DEF ToolInv

\* Every step keeps the invariant.  First, a toolchain that fails: its record goes.
LEMMA FailRecords ==
  ASSUME Shaped, Fail
  PROVE  /\ DOMAIN job' = DOMAIN job
         /\ job'.pc = "provisioned" /\ job'.env = None /\ job'.version = job.version
         /\ job'.digest = job.digest /\ job'.wanted = job.wanted /\ job'.known = job.known
         /\ DOMAIN job'.records = DOMAIN job.records \ {job.version}
         /\ \A v \in DOMAIN job'.records : job'.records[v] = job.records[v]
  BY DEF Shaped, Fail

\* One that succeeds is recorded under its digest.
LEMMA SucceedRecords ==
  ASSUME Shaped, Succeed
  PROVE  /\ DOMAIN job' = DOMAIN job
         /\ job'.pc = "provisioned" /\ job'.env = job.version /\ job'.version = job.version
         /\ job'.digest = job.digest /\ job'.wanted = job.wanted /\ job'.known = job.known
         /\ DOMAIN job'.records = DOMAIN job.records \cup {job.version}
         /\ job'.records[job.version] = job.digest
         /\ \A v \in DOMAIN job.records \ {job.version} : job'.records[v] = job.records[v]
  BY DEF Shaped, Succeed

\* Then each step of the host and of the script,
\* then what the others do.
LEMMA NextToolInv == ToolInv /\ [ToolNext]_toolVars => ToolInv'
<1> SUFFICES ASSUME ToolInv, [ToolNext]_toolVars PROVE ToolInv'
  OBVIOUS
<1> USE DEF ToolInv, official, hostCache, inSandbox
<1>1. CASE BeginProvision
  <2> USE <1>1 DEF BeginProvision, Resting, NoDir, NoScript
  <2>1. Shaped'
    BY DEF Shaped, Pcs, BeforeInstall
  <2>2. Resolved' /\ VersionFits'
    BY DEF Shaped, Resolved, VersionFits, Fits, MinParts, Known, None, OnPath
  <2>3. ScriptKnown'
    BY DEF Shaped, ScriptKnown, BeforeInstall
  <2>4. RecordsTrue' /\ MarkersTrue'
    BY DEF Shaped, RecordsTrue, MarkersTrue, ScriptKnown, Resolved, BeforeInstall, Known, None
  <2>5. OnPath'
    BY DEF Shaped, OnPath, Resolved, ScriptKnown, RecordsTrue, Known, BeforeInstall, None
  <2> QED
    BY <2>1, <2>2, <2>3, <2>4, <2>5
<1>2. CASE ReadIndex
  <2> USE <1>2 DEF ReadIndex, FailUnresolved
  <2>1. Shaped'
    BY DEF Shaped, Pcs, BeforeInstall
  <2>2. Resolved' /\ VersionFits'
    <3>1. CASE FailUnresolved
      BY <3>1 DEF Shaped, Resolved, VersionFits, Fits, MinParts, Known, OnPath
    <3>2. CASE ~FailUnresolved
      <4>1. ~RefusedVersion(Wanted)
        BY <3>2
      <4>2. PICK a \in IndexAnswers(Wanted) :
               job' = [job EXCEPT
                 !.pc = IF a[2] = "later" THEN "digest" ELSE "resolved",
                 !.version = a[1], !.digest = IF a[2] = "later" THEN None ELSE a,
                 !.wanted = Wanted, !.known = Listed]
        BY <3>2
      <4>3. Fits(a[1], Wanted, Listed) /\ (a[2] # "later" => a[1] \in Releases /\ a # None)
        BY <4>1, <4>2, AnswersFit
      <4>4. /\ job'.version = a[1] /\ job'.wanted = Wanted /\ job'.known = Listed
            /\ job'.pc \in {"digest", "resolved"}
            /\ job'.pc = "resolved" => a[2] # "later" /\ job'.digest = a
        BY <4>2 DEF Shaped
      <4>5. Resolved'
        BY <4>3, <4>4 DEF Resolved, Known
      <4>6. Fits(job.version, job.wanted, job.known)'
        BY <4>3, <4>4 DEF Fits, MinParts
      <4> QED
        BY <4>5, <4>6 DEF VersionFits
    <3> QED
      BY <3>1, <3>2
  <2>3. ScriptKnown'
    BY DEF Shaped, ScriptKnown, BeforeInstall
  <2>4. RecordsTrue' /\ MarkersTrue'
    BY DEF Shaped, RecordsTrue, MarkersTrue, ScriptKnown, Resolved, BeforeInstall, Known, None
  <2>5. OnPath'
    BY DEF Shaped, OnPath, Resolved, ScriptKnown, RecordsTrue, Known, BeforeInstall, None
  <2> QED
    BY <2>1, <2>2, <2>3, <2>4, <2>5
<1>3. CASE ReadDigest
  <2> USE <1>3 DEF ReadDigest, FailUnresolved, Digest, Vendored
  <2>1. Shaped'
    BY DEF Shaped, Pcs, BeforeInstall
  <2>2. Resolved' /\ VersionFits'
    <3>1. job'.pc = "resolved" => job'.version \in Releases /\ job'.digest # None
      <4>1. Digest(job.version)[2] # Unlisted =>
              job.version \in Releases /\ Digest(job.version) # None
        BY DEF Unlisted, None
      <4> HIDE DEF Digest, Vendored
      <4> QED
        BY <4>1 DEF Shaped
    <3>2. job'.pc \in {"resolved", "provisioned"} /\ script' = script
      BY DEF Shaped
    <3>3. /\ job'.version = job.version /\ job'.wanted = job.wanted
          /\ job'.known = job.known
          /\ job'.env = None \/ job'.pc = "resolved"
      BY DEF Shaped
    <3>4. Resolved'
      BY <3>1, <3>2 DEF Resolved, Known
    <3> QED
      BY <3>2, <3>3, <3>4 DEF VersionFits, Fits, MinParts, Known, Shaped
  <2>3. ScriptKnown'
    BY DEF Shaped, ScriptKnown, BeforeInstall
  <2>4. RecordsTrue' /\ MarkersTrue'
    BY DEF Shaped, RecordsTrue, MarkersTrue, ScriptKnown, Resolved, BeforeInstall, Known, None
  <2>5. OnPath'
    BY DEF Shaped, OnPath, Resolved, ScriptKnown, RecordsTrue, Known, BeforeInstall, None
  <2> QED
    BY <2>1, <2>2, <2>3, <2>4, <2>5
<1>4. CASE CheckPin
  <2> USE <1>4 DEF CheckPin, FailUnresolved, Job
  <2>1. Shaped'
    BY DEF Shaped, Pcs, BeforeInstall
  <2>2. Resolved' /\ VersionFits'
    BY DEF Shaped, Resolved, VersionFits, Fits, MinParts, Known, None, OnPath
  <2>3. ScriptKnown'
    BY DEF Shaped, ScriptKnown, BeforeInstall
  <2>4. RecordsTrue' /\ MarkersTrue'
    BY DEF Shaped, RecordsTrue, MarkersTrue, ScriptKnown, Resolved, BeforeInstall, Known, None
  <2>5. OnPath'
    BY DEF Shaped, OnPath, Resolved, ScriptKnown, RecordsTrue, Known, BeforeInstall, None
  <2> QED
    BY <2>1, <2>2, <2>3, <2>4, <2>5
<1>5. CASE CheckInstalled
  <2> USE <1>5 DEF CheckInstalled, Installed, Recorded, Job
  <2>1. Shaped'
    BY DEF Succeed, Fail, Shaped, Pcs, BeforeInstall
  <2>2. Resolved' /\ VersionFits'
    BY DEF Succeed, Fail, Shaped, Resolved, VersionFits, Fits, MinParts, Known, None, OnPath
  <2>3. ScriptKnown'
    BY DEF Succeed, Fail, Shaped, ScriptKnown, BeforeInstall
  <2>4. RecordsTrue' /\ MarkersTrue'
    BY SucceedRecords, FailRecords DEF Shaped, RecordsTrue, MarkersTrue, ScriptKnown, Resolved, BeforeInstall, Known, None
  <2>5. OnPath'
    BY DEF Succeed, Fail, Shaped, OnPath, Resolved, ScriptKnown, RecordsTrue, Known, BeforeInstall, None
  <2> QED
    BY <2>1, <2>2, <2>3, <2>4, <2>5
<1>6. CASE CacheHit
  <2> USE <1>6 DEF CacheHit, Job, Fetched
  <2>1. Shaped'
    BY DEF Shaped, Pcs, BeforeInstall
  <2>2. Resolved' /\ VersionFits'
    BY DEF Shaped, Resolved, VersionFits, Fits, MinParts, Known, None, OnPath
  <2>3. ScriptKnown'
    BY DEF Shaped, ScriptKnown, BeforeInstall
  <2>4. RecordsTrue' /\ MarkersTrue'
    BY DEF Shaped, RecordsTrue, MarkersTrue, ScriptKnown, Resolved, BeforeInstall, Known, None
  <2>5. OnPath'
    BY DEF Shaped, OnPath, Resolved, ScriptKnown, RecordsTrue, Known, BeforeInstall, None
  <2> QED
    BY <2>1, <2>2, <2>3, <2>4, <2>5
<1>7. CASE CacheMiss
  <2> USE <1>7 DEF CacheMiss, Job
  <2>1. Shaped'
    BY DEF Shaped, Pcs, BeforeInstall
  <2>2. Resolved' /\ VersionFits'
    BY DEF Shaped, Resolved, VersionFits, Fits, MinParts, Known, None, OnPath
  <2>3. ScriptKnown'
    BY DEF Shaped, ScriptKnown, BeforeInstall
  <2>4. RecordsTrue' /\ MarkersTrue'
    BY DEF Shaped, RecordsTrue, MarkersTrue, ScriptKnown, Resolved, BeforeInstall, Known, None
  <2>5. OnPath'
    BY DEF Shaped, OnPath, Resolved, ScriptKnown, RecordsTrue, Known, BeforeInstall, None
  <2> QED
    BY <2>1, <2>2, <2>3, <2>4, <2>5
<1>8. CASE Download
  <2> USE <1>8 DEF Download, Job
  <2>1. Shaped'
    BY DEF Fail, Shaped, Pcs, BeforeInstall
  <2>2. Resolved' /\ VersionFits'
    BY DEF Fail, Shaped, Resolved, VersionFits, Fits, MinParts, Known, None, OnPath
  <2>3. ScriptKnown'
    BY DEF Fail, Shaped, ScriptKnown, BeforeInstall
  <2>4. RecordsTrue' /\ MarkersTrue'
    BY FailRecords DEF Shaped, RecordsTrue, MarkersTrue, ScriptKnown, Resolved, BeforeInstall, Known, None
  <2>5. OnPath'
    BY DEF Fail, Shaped, OnPath, Resolved, ScriptKnown, RecordsTrue, Known, BeforeInstall, None
  <2> QED
    BY <2>1, <2>2, <2>3, <2>4, <2>5
<1>9. CASE WriteAlias
  <2> USE <1>9 DEF WriteAlias, Job, Fetched
  <2>1. Shaped'
    BY DEF Shaped, Pcs, BeforeInstall
  <2>2. Resolved' /\ VersionFits'
    BY DEF Shaped, Resolved, VersionFits, Fits, MinParts, Known, None, OnPath
  <2>3. ScriptKnown'
    BY DEF Shaped, ScriptKnown, BeforeInstall
  <2>4. RecordsTrue' /\ MarkersTrue'
    BY DEF Shaped, RecordsTrue, MarkersTrue, ScriptKnown, Resolved, BeforeInstall, Known, None
  <2>5. OnPath'
    BY DEF Shaped, OnPath, Resolved, ScriptKnown, RecordsTrue, Known, BeforeInstall, None
  <2> QED
    BY <2>1, <2>2, <2>3, <2>4, <2>5
<1>10. CASE Upload
  <2> USE <1>10 DEF Upload, Job
  <2>1. Shaped'
    BY DEF Fail, Shaped, Pcs, BeforeInstall
  <2>2. Resolved' /\ VersionFits'
    BY DEF Fail, Shaped, Resolved, VersionFits, Fits, MinParts, Known, None, OnPath
  <2>3. ScriptKnown'
    BY DEF Fail, Shaped, ScriptKnown, BeforeInstall
  <2>4. RecordsTrue' /\ MarkersTrue'
    BY FailRecords DEF Shaped, RecordsTrue, MarkersTrue, ScriptKnown, Resolved, BeforeInstall, Known, None
  <2>5. OnPath'
    BY DEF Fail, Shaped, OnPath, Resolved, ScriptKnown, RecordsTrue, Known, BeforeInstall, None
  <2> QED
    BY <2>1, <2>2, <2>3, <2>4, <2>5
<1>11. CASE TakeCopy
  <2> USE <1>11 DEF TakeCopy, NoScript
  <2>1. Shaped'
    BY DEF Fail, Shaped, Pcs, BeforeInstall
  <2>2. Resolved' /\ VersionFits'
    <3>1. CASE upload = job.digest
      BY <3>1 DEF Shaped, Resolved, VersionFits, Fits, MinParts, Known
    <3>2. CASE upload # job.digest
      BY <3>2, FailRecords DEF Shaped, Resolved, VersionFits, Fits, MinParts, Known
    <3> QED
      BY <3>1, <3>2
  <2>3. ScriptKnown'
    BY DEF Fail, Shaped, ScriptKnown, BeforeInstall
  <2>4. RecordsTrue' /\ MarkersTrue'
    BY FailRecords DEF Shaped, RecordsTrue, MarkersTrue, ScriptKnown, Resolved, BeforeInstall, Known, None
  <2>5. OnPath'
    BY DEF Fail, Shaped, OnPath, Resolved, ScriptKnown, RecordsTrue, Known, BeforeInstall, None
  <2> QED
    BY <2>1, <2>2, <2>3, <2>4, <2>5
<1>12. CASE ScriptRemoves
  <2> USE <1>12 DEF ScriptRemoves, NoDir, NoScript
  <2>1. Shaped'
    BY DEF Shaped, Pcs, BeforeInstall
  <2>2. Resolved' /\ VersionFits'
    BY DEF Shaped, Resolved, VersionFits, Fits, MinParts, Known, None, OnPath
  <2>3. ScriptKnown'
    BY DEF Shaped, ScriptKnown, BeforeInstall
  <2>4. RecordsTrue' /\ MarkersTrue'
    BY DEF Shaped, RecordsTrue, MarkersTrue, ScriptKnown, Resolved, BeforeInstall, Known, None
  <2>5. OnPath'
    BY DEF Shaped, OnPath, Resolved, ScriptKnown, RecordsTrue, Known, BeforeInstall, None
  <2> QED
    BY <2>1, <2>2, <2>3, <2>4, <2>5
<1>13. CASE ScriptRenames
  <2> USE <1>13 DEF ScriptRenames, NoScript
  <2>1. Shaped'
    BY DEF Succeed, Shaped, Pcs, BeforeInstall
  <2>2. Resolved' /\ VersionFits'
    BY DEF Succeed, Shaped, Resolved, VersionFits, Fits, MinParts, Known, None, OnPath
  <2>3. ScriptKnown'
    BY DEF Succeed, Shaped, ScriptKnown, BeforeInstall
  <2>4. RecordsTrue' /\ MarkersTrue'
    BY SucceedRecords DEF Shaped, RecordsTrue, MarkersTrue, ScriptKnown, Resolved, BeforeInstall, Known, None
  <2>5. OnPath'
    BY DEF Succeed, Shaped, OnPath, Resolved, ScriptKnown, RecordsTrue, Known, BeforeInstall, None
  <2> QED
    BY <2>1, <2>2, <2>3, <2>4, <2>5
<1>14. CASE ScriptFails
  <2> USE <1>14 DEF ScriptFails, NoScript
  <2>1. Shaped'
    BY DEF Fail, Shaped, Pcs, BeforeInstall
  <2>2. Resolved' /\ VersionFits'
    BY DEF Fail, Shaped, Resolved, VersionFits, Fits, MinParts, Known, None, OnPath
  <2>3. ScriptKnown'
    BY DEF Fail, Shaped, ScriptKnown, BeforeInstall
  <2>4. \A v \in Releases \ {script.version} : given'[v] = given[v] /\ dirs'[v] = dirs[v]
    BY DEF Shaped
  <2>5. \/ dirs' = dirs /\ given' = given
        \/ given'[script.version] = None
    BY DEF Shaped, Resolved, NoScript
  <2>6. RecordsTrue'
    <3>1. CASE given' = given
      BY <3>1, FailRecords DEF Shaped, RecordsTrue, ScriptKnown, BeforeInstall
    <3>2. CASE given' = [given EXCEPT ![script.version] = None]
      BY <3>2, FailRecords DEF Shaped, RecordsTrue, ScriptKnown, Resolved, BeforeInstall
    <3> QED
      BY <3>1, <3>2
  <2>7. MarkersTrue'
    BY <2>4, <2>5 DEF MarkersTrue
  <2>8. OnPath'
    BY DEF Fail, Shaped, OnPath, Resolved, ScriptKnown, RecordsTrue, Known, BeforeInstall, None
  <2> QED
    BY <2>1, <2>2, <2>3, <2>6, <2>7, <2>8
<1>15. CASE InstallTimesOut
  <2> USE <1>15 DEF InstallTimesOut
  <2>1. Shaped'
    BY DEF Fail, Shaped, Pcs, BeforeInstall
  <2>2. Resolved' /\ VersionFits'
    BY DEF Fail, Shaped, Resolved, VersionFits, Fits, MinParts, Known, None, OnPath
  <2>3. ScriptKnown'
    BY DEF Fail, Shaped, ScriptKnown, BeforeInstall
  <2>4. RecordsTrue' /\ MarkersTrue'
    BY FailRecords DEF Shaped, RecordsTrue, MarkersTrue, ScriptKnown, Resolved, BeforeInstall, Known, None
  <2>5. OnPath'
    BY DEF Fail, Shaped, OnPath, Resolved, ScriptKnown, RecordsTrue, Known, BeforeInstall, None
  <2> QED
    BY <2>1, <2>2, <2>3, <2>4, <2>5
<1>16. CASE StartAgent
  <2> USE <1>16 DEF StartAgent, Job
  <2>1. Shaped'
    BY DEF Shaped, Pcs, BeforeInstall
  <2>2. Resolved' /\ VersionFits'
    BY DEF Shaped, Resolved, VersionFits, Fits, MinParts, Known, None, OnPath
  <2>3. ScriptKnown'
    BY DEF Shaped, ScriptKnown, BeforeInstall
  <2>4. RecordsTrue' /\ MarkersTrue'
    BY DEF Shaped, RecordsTrue, MarkersTrue, ScriptKnown, Resolved, BeforeInstall, Known, None
  <2>5. OnPath'
    BY DEF Shaped, OnPath, Resolved, ScriptKnown, RecordsTrue, Known, BeforeInstall, None
  <2> QED
    BY <2>1, <2>2, <2>3, <2>4, <2>5
<1>17. CASE EndRun
  <2> USE <1>17 DEF EndRun, Resting
  <2>1. Shaped'
    BY DEF Shaped, Pcs, BeforeInstall
  <2>2. Resolved' /\ VersionFits'
    BY DEF Shaped, Resolved, VersionFits, Fits, MinParts, Known, None, OnPath
  <2>3. ScriptKnown'
    BY DEF Shaped, ScriptKnown, BeforeInstall
  <2>4. RecordsTrue' /\ MarkersTrue'
    BY DEF Shaped, RecordsTrue, MarkersTrue, ScriptKnown, Resolved, BeforeInstall, Known, None
  <2>5. OnPath'
    BY DEF Shaped, OnPath, Resolved, ScriptKnown, RecordsTrue, Known, BeforeInstall, None
  <2> QED
    BY <2>1, <2>2, <2>3, <2>4, <2>5
<1>18. CASE HostDies
  <2> USE <1>18 DEF HostDies, Resting
  <2>1. Shaped'
    BY DEF Shaped, Pcs, BeforeInstall
  <2>2. Resolved' /\ VersionFits'
    BY DEF Shaped, Resolved, VersionFits, Fits, MinParts, Known, None, OnPath
  <2>3. ScriptKnown'
    BY DEF Shaped, ScriptKnown, BeforeInstall
  <2>4. RecordsTrue' /\ MarkersTrue'
    BY DEF Shaped, RecordsTrue, MarkersTrue, ScriptKnown, Resolved, BeforeInstall, Known, None
  <2>5. OnPath'
    BY DEF Shaped, OnPath, Resolved, ScriptKnown, RecordsTrue, Known, BeforeInstall, None
  <2> QED
    BY <2>1, <2>2, <2>3, <2>4, <2>5
<1>19. CASE AgentTampers
  <2> USE <1>19 DEF AgentTampers, OutsideMoves
  <2>1. Shaped'
    BY DEF Shaped, Pcs, BeforeInstall
  <2>2. Resolved' /\ VersionFits'
    BY DEF Shaped, Resolved, VersionFits, Fits, MinParts, Known
  <2>3. ScriptKnown' /\ OnPath'
    BY DEF Shaped, ScriptKnown, OnPath, BeforeInstall
  <2>4. RecordsTrue'
    BY DEF RecordsTrue
  <2>5. MarkersTrue'
    <3>1. PICK v \in Releases, b \in Builds :
            dirs' = [dirs EXCEPT ![v] = [marker |-> <<v, b>>, content |-> Agents]]
      OBVIOUS
    <3> QED
      BY <3>1 DEF MarkersTrue, Shaped
  <2> QED
    BY <2>1, <2>2, <2>3, <2>4, <2>5
<1>20. CASE SourceMoves \/ CacheMoves \/ AliasMoves \/ RepoMoves \/ UNCHANGED toolVars
  <2> USE <1>20 DEF SourceMoves, CacheMoves, AliasMoves, RepoMoves, OutsideMoves, toolVars
  <2>1. Shaped'
    BY DEF Shaped, Pcs, BeforeInstall
  <2>2. /\ job' = job /\ script' = script /\ dirs' = dirs /\ given' = given
        /\ torn' = torn /\ saved' = saved /\ tool' = tool
    OBVIOUS
  <2> QED
    BY <2>1, <2>2
    DEF Resolved, VersionFits, Fits, MinParts, ScriptKnown, RecordsTrue, MarkersTrue, OnPath
<1> QED
  BY <1>1, <1>2, <1>3, <1>4, <1>5, <1>6, <1>7, <1>8, <1>9, <1>10, <1>11, <1>12, <1>13, <1>14, <1>15, <1>16, <1>17, <1>18,
     <1>19, <1>20
  DEF ToolNext

\* A toolchain on PATH is whole, from the parts of the invariant.
LEMMA WholeFromInv == ToolInv => ToolchainsWhole
<1> SUFFICES ASSUME ToolInv, job.pc = "provisioned", job.env # None
             PROVE  ToolchainsWhole
  BY DEF ToolchainsWhole
<1>1. job.env = job.version /\ job.env \in Releases
  BY DEF ToolInv, OnPath
<1>2. Fits(job.version, job.wanted, job.known)
  BY DEF ToolInv, VersionFits
<1>3. given[job.env] = job.digest \/ job.env \in torn
  BY DEF ToolInv, OnPath
<1>4. dirs[job.env].marker = job.digest
  BY DEF ToolInv, OnPath
<1>5. given[job.env] = job.digest => dirs[job.env].content \in {job.digest, Agents}
  BY <1>1, <1>4 DEF ToolInv, MarkersTrue, OnPath
<1> QED
  BY <1>1, <1>2, <1>3, <1>4, <1>5 DEF ToolchainsWhole, Fits

\* The toolchain a run puts on PATH is the one that was asked for, whole
\* (toolchains.provision, OpenShellInstaller.install).
THEOREM OnlyWholeToolchains == ToolSpec => []ToolchainsWhole
<1>1. ToolSpec => []ToolInv
  BY InitToolInv, NextToolInv, PTL DEF ToolSpec
<1> QED
  BY <1>1, WholeFromInv, PTL

=============================================================================
