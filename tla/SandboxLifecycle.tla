--------------------------- MODULE SandboxLifecycle ---------------------------
(***************************************************************************)
(* OpenShellBackend.setup(), run() and stop() as host processes that come  *)
(* one after the other to the same machine: each wants a sandbox for its   *)
(* own auth mode, key, spec (harness, image, profile) and driver images,   *)
(* and finds whatever gateway, provider, sandbox, gateway.toml and saved   *)
(* identity the ones before it left, complete or half made.  EgressPhase   *)
(* has the phase switches inside these calls; here they are one step that  *)
(* may fail.                                                               *)
(***************************************************************************)
EXTENDS Naturals

CONSTANTS
  ProviderAuths,    \* auth modes that the gateway's provider serves
  Minted,           \* those whose token the gateway mints (vertex, service account)
  Keyed,            \* those whose key reaches the agent through the provider only
  PlainAuths,       \* auth modes without a provider (oauth)
  Specs,            \* harness, image and sandbox profile, as one value
  Keys,             \* keys the caller may bring
  Drivers,          \* supervisor and sandbox runtime images
  None,
  MaxProcesses,     \* bound: host processes
  MaxFaults         \* bound: calls that fail, crashes and hand edits

ASSUME ConstantsAssumption ==
  /\ Minted \subseteq ProviderAuths /\ Keyed \subseteq ProviderAuths
  /\ Minted \cap Keyed = {} /\ ProviderAuths \cap PlainAuths = {}
  /\ None \notin ProviderAuths \cup PlainAuths \cup Keys \cup Drivers \cup {"legacy"}
  /\ "legacy" \notin ProviderAuths \cup PlainAuths
  /\ MaxProcesses \in Nat /\ MaxFaults \in Nat

VARIABLES
  pc,          \* the call the process makes next, "none" between processes
  then,        \* what follows the stop of a gateway that is under way
  want,        \* what this process wants a sandbox for
  updated,     \* profile_updated
  old,         \* existing_auth_mode
  config,      \* gateway.toml, None when missing
  identity,    \* the saved identity, None when missing
  registered,  \* the CLI knows the gateway
  driver,      \* driver images of the gateway that listens, None without one
  profiles,    \* the gateway's copy of each provider profile
  prov,        \* the provider, None without one
  box,         \* the sandbox, None without one
  cut,         \* what a call that failed or was killed left half done
  processes, faults

host == <<want, updated, old>>
disk == <<config, identity>>
gateway == <<registered, driver, profiles, prov, box>>
bounds == <<processes, faults>>
vars == <<pc, then, host, disk, gateway, cut, bounds>>

Auths == ProviderAuths \cup PlainAuths
Requires(auth) == auth \in ProviderAuths

\* What a process asks for.  A key is part of it only where credential_fingerprint
\* names one.
Wants == [auth : Auths, spec : Specs, key : Keys \cup {None}, driver : Drivers]
Fingerprint(w) == IF w.auth \in Keyed THEN w.key ELSE None

\* _sandbox_identity: what must be equal for a sandbox to fit.
Identities == [auth : Auths, spec : Specs, key : Keys \cup {None}]
IdentityOf(w) == [auth |-> w.auth, spec |-> w.spec, key |-> Fingerprint(w)]

\* A provider: "legacy" is one an earlier release made from a builtin profile.
\* Its token is minted, or still the placeholder it was created with.
Providers == [auth : ProviderAuths \cup {"legacy"}, key : Keys \cup {None}, minted : BOOLEAN]

\* A sandbox: what it was created for, the provider key then, which the
\* placeholders issued before an update keep resolving to, the driver of its
\* gateway, whether it ever ran under a profile that is not the packaged one,
\* and whether setup() came to its end.
Boxes == [auth : Auths, spec : Specs, key : Keys \cup {None}, driver : Drivers,
          drifted : BOOLEAN, done : BOOLEAN]

ASSUME NoneAssumption == None \notin Identities \cup Providers \cup Boxes

Calls == {"validate", "gateway", "status", "stopBox", "deregister", "kill", "start", "register",
          "inspect", "decide", "reuse", "deleteBox", "deleteProvider", "provider",
          "configure", "rotate", "clear", "create", "prepare", "save", "ready", "running"}
Exits == {"status", "none", "raised"}

\* The windows a call that is killed, fails or times out may leave open: a
\* gateway that listens although nobody counts on it, one whose config this
\* process did not look at, a sandbox of a profile that was just updated, a
\* provider whose refresh was not configured, a provider that a failed query
\* took for none, and a sandbox that one took for none, while it is still there.
Windows == {"gateway", "config", "profile", "token", "query", "box"}

TypeOK ==
  /\ pc \in Calls \cup {"none"} /\ then \in Exits
  /\ want \in Wants /\ updated \in BOOLEAN /\ old \in Auths \cup {"legacy", None}
  /\ config \in Drivers \cup {None} /\ identity \in Identities \cup {None}
  /\ registered \in BOOLEAN /\ driver \in Drivers \cup {None}
  /\ profiles \in [ProviderAuths -> {"absent", "ours", "drifted"}]
  /\ prov \in Providers \cup {None} /\ box \in Boxes \cup {None}
  /\ cut \subseteq Windows /\ processes \in 0..MaxProcesses /\ faults \in 0..MaxFaults

Absent == [a \in ProviderAuths |-> "absent"]
FreshDatabase == profiles' = Absent /\ prov' = None /\ box' = None

\* No sandbox is left that a query could have missed.
BoxGone == box' = None /\ cut' = cut \ {"box"}

\* A machine nothing ran on.
Init ==
  /\ pc = "none" /\ then = "none" /\ want \in Wants /\ updated = FALSE /\ old = None
  /\ want.key # None
  /\ config = None /\ identity = None /\ registered = FALSE /\ driver = None
  /\ profiles = Absent /\ prov = None /\ box = None
  /\ cut = {} /\ processes = 0 /\ faults = 0

Fails == faults < MaxFaults /\ faults' = faults + 1
Works == UNCHANGED faults
\* The call raises and setup() with it; __exit__ of the caller is not modelled:
\* the machine stays as it is until the next process.
Raises == pc' = "none" /\ Fails
Goes(call) == pc' = call /\ UNCHANGED then

-----------------------------------------------------------------------------
(* Processes                                                               *)

Begin ==
  /\ pc = "none" /\ processes < MaxProcesses /\ processes' = processes + 1
  /\ want' \in Wants /\ want'.key # None
  /\ updated' = FALSE /\ old' = None /\ cut' = cut \ {"config"}
  /\ Goes("validate")
  /\ UNCHANGED <<disk, gateway, faults>>

\* validate_credentials and credential_fingerprint: a key that OpenShell could
\* not inject is refused before anything is touched.
ValidateCredentials ==
  /\ pc = "validate"
  /\ \/ Goes("gateway") /\ Works
     \/ want.auth \in Keyed /\ Raises /\ UNCHANGED then
  /\ UNCHANGED <<host, disk, gateway, cut, processes>>

\* The process is killed between two calls.
Crash ==
  /\ pc \notin {"none", "ready"} /\ pc' = "none" /\ Fails
  /\ cut' = cut \cup (IF pc \in {"deregister", "kill", "register"} THEN {"gateway"} ELSE {})
              \cup (IF updated /\ pc \in {"decide", "deleteBox"} THEN {"profile"} ELSE {})
              \cup (IF pc = "configure" THEN {"token"} ELSE {})
  /\ UNCHANGED <<then, host, disk, gateway, processes>>

\* An earlier release: its provider, its sandbox and the identity it saved.
EarlierRelease ==
  /\ pc = "none" /\ processes = 0 /\ driver = None /\ Fails
  /\ \E d \in Drivers, a \in ProviderAuths, s \in Specs, k \in Keys :
       LET key == IF a \in Keyed THEN k ELSE None IN
       /\ driver' = d /\ config' = d /\ registered' = TRUE
       /\ prov' = [auth |-> "legacy", key |-> key, minted |-> TRUE]
       /\ box' = [auth |-> a, spec |-> s, key |-> key, driver |-> d,
                  drifted |-> TRUE, done |-> TRUE]
       /\ identity' = [auth |-> a, spec |-> s, key |-> key]
  /\ UNCHANGED <<pc, then, host, profiles, cut, processes>>

\* Somebody edits the gateway's copy of a profile; v0.1.2 recomposes the rule
\* of the running sandbox.
HandEdit ==
  /\ pc = "none" /\ driver # None /\ Fails
  /\ \E a \in ProviderAuths :
       /\ profiles[a] = "ours" /\ profiles' = [profiles EXCEPT ![a] = "drifted"]
       /\ box' = IF box # None /\ box.auth = a THEN [box EXCEPT !.drifted = TRUE] ELSE box
  /\ UNCHANGED <<pc, then, host, disk, registered, driver, prov, cut, processes>>

-----------------------------------------------------------------------------
(* The gateway                                                             *)

Running == registered /\ driver # None

\* Mutant: whether the running gateway still has the images wanted is not asked.
CheckConfigNotAsked ==
  /\ pc = "gateway" /\ Goes("status") /\ Works
  /\ UNCHANGED <<host, disk, gateway, cut, processes>>

\* Mutant: after the stop setup() goes on with the gateway it stopped.
CheckConfigNoRestart ==
  /\ pc = "gateway" /\ Running /\ config # want.driver
  /\ pc' = "stopBox" /\ then' = "inspect" /\ Works
  /\ UNCHANGED <<host, disk, gateway, cut, processes>>

\* is_running and config_is_current.  The status command has a timeout, so a
\* gateway that runs may look as if it did not: its config is not asked then.
CheckConfig ==
  /\ pc = "gateway"
  /\ \/ Running /\ config = want.driver /\ Goes("status") /\ UNCHANGED cut /\ Works
     \/ /\ Running /\ config # want.driver
        /\ pc' = "stopBox" /\ then' = "status" /\ UNCHANGED cut /\ Works
     \/ ~Running /\ Goes("status") /\ UNCHANGED cut /\ Works
     \/ Running /\ Goes("status") /\ cut' = cut \cup {"config"} /\ Fails
  /\ UNCHANGED <<host, disk, gateway, processes>>

\* is_running again, and not always with the same answer: use the gateway that
\* runs or start one.
FindGateway ==
  /\ pc = "status"
  /\ \/ Running /\ Goes("inspect") /\ UNCHANGED cut /\ Works
     \/ ~Running /\ Goes("start") /\ UNCHANGED cut /\ Works
     \/ Running /\ Goes("start") /\ cut' = cut \cup {"gateway"} /\ Fails
  /\ UNCHANGED <<host, disk, gateway, processes>>

\* OpenShellBackend.stop deletes the sandbox it can see and the identity; when
\* the deletion fails the gateway is stopped all the same and the error goes on.
\* When a query fails, it sees none and deletes the identity only.
StopBox ==
  /\ pc = "stopBox" /\ pc' = "deregister"
  /\ \/ Running /\ BoxGone /\ identity' = None /\ UNCHANGED then /\ Works
     \/ ~Running /\ UNCHANGED <<box, cut, then>> /\ identity' = None /\ Works
     \/ /\ Running /\ box # None /\ identity' = None
        /\ cut' = cut \cup {"box"} /\ UNCHANGED <<box, then>> /\ Fails
     \/ /\ Running /\ box # None /\ (BoxGone \/ UNCHANGED <<box, cut>>)
        /\ then' = "raised" /\ UNCHANGED identity /\ Fails
  /\ UNCHANGED <<host, config, registered, driver, profiles, prov, processes>>

\* gateway.stop forgets the registration first,
Deregister ==
  /\ pc = "deregister" /\ pc' = "kill"
  /\ \/ registered' = FALSE /\ Works
     \/ UNCHANGED registered /\ Fails
  /\ UNCHANGED <<then, host, disk, driver, profiles, prov, box, cut, processes>>

\* then kills whatever listens on the port.  Without ss, or when it takes too
\* long, it kills nothing and says nothing.
Kill ==
  /\ pc = "kill" /\ UNCHANGED then
  /\ \/ driver' = None /\ FreshDatabase /\ cut' = cut \ {"box"} /\ Works
     \/ UNCHANGED <<driver, profiles, prov, box>> /\ cut' = cut \cup {"gateway"} /\ Fails
  /\ pc' = IF then = "status" THEN "status" ELSE "none"
  /\ UNCHANGED <<host, disk, registered, processes>>

\* gateway.start writes gateway.toml and launches a gateway with a new
\* database.  When an old one still has the port the new one dies; nothing
\* asks which of them answers.
Start ==
  /\ pc = "start"
  /\ \/ /\ pc' = "register" /\ UNCHANGED then /\ Works
        /\ config' = want.driver
        /\ IF driver = None
           THEN driver' = want.driver /\ FreshDatabase
           ELSE UNCHANGED <<driver, profiles, prov, box>>
     \/ \* the version
        Raises /\ UNCHANGED <<then, config, driver, profiles, prov, box>>
     \/ \* the socket: before gateway.toml is touched
        /\ pc' = "deregister" /\ then' = "raised" /\ Fails
        /\ UNCHANGED <<config, driver, profiles, prov, box>>
     \/ \* the certificates: gateway.toml is new, the gateway is not
        /\ pc' = "deregister" /\ then' = "raised" /\ Fails
        /\ config' = want.driver /\ UNCHANGED <<driver, profiles, prov, box>>
  /\ UNCHANGED <<host, identity, registered, cut, processes>>

\* Ten attempts at the registration and 60 seconds for the health check; then
\* start() stops what it started.
Register ==
  /\ pc = "register"
  /\ \/ registered' = TRUE /\ Goes("inspect") /\ Works
     \/ registered' \in BOOLEAN /\ pc' = "deregister" /\ then' = "raised" /\ Fails
  /\ UNCHANGED <<host, disk, driver, profiles, prov, box, cut, processes>>

-----------------------------------------------------------------------------
(* What of the existing sandbox and provider fits                          *)

\* Which provider exists, and that the gateway's copy of its profile is the
\* packaged one: an update is remembered in updated.  A query that fails, for
\* whatever reason, says that there is none.
Inspect ==
  /\ pc = "inspect"
  /\ \/ /\ prov # None => prov.auth # want.auth
        /\ old' = (IF prov = None THEN None ELSE prov.auth)
        /\ Goes("decide") /\ Works /\ UNCHANGED <<updated, profiles, cut>>
     \/ /\ prov # None /\ Goes("decide") /\ Fails
        /\ cut' = cut \cup {"query"} /\ UNCHANGED <<old, updated, profiles>>
     \/ /\ prov # None /\ prov.auth = want.auth /\ old' = prov.auth
        /\ updated' = (profiles[want.auth] # "ours")
        /\ profiles' = [profiles EXCEPT ![want.auth] = "ours"]
        /\ \/ Goes("decide") /\ UNCHANGED cut /\ Works
           \/ /\ Raises /\ UNCHANGED then
              /\ cut' = cut \cup (IF updated' THEN {"profile"} ELSE {})
     \/ \* the provider's auth mode cannot be read, or the profile not be exported
        /\ prov # None /\ Raises /\ UNCHANGED <<then, old, updated, profiles, cut>>
  /\ UNCHANGED <<want, disk, registered, driver, prov, box, processes>>

AfterDelete == IF old \notin {None, want.auth} THEN "deleteProvider" ELSE "provider"
Known == IF old = None THEN identity.auth ELSE old
Matches == Known = want.auth /\ identity = IdentityOf(want)

\* Mutant: the provider's auth mode is not compared.
DecideByIdentity ==
  /\ pc = "decide"
  /\ \/ box = None /\ Goes(AfterDelete) /\ Works
     \/ /\ box # None
        /\ identity # None => old = None /\ Requires(identity.auth)
        /\ pc' = "none" /\ Works /\ UNCHANGED then
     \/ /\ box # None /\ identity # None /\ (old # None \/ ~Requires(identity.auth))
        /\ Goes(IF identity.spec = want.spec /\ ~updated THEN "reuse" ELSE "deleteBox")
        /\ Works
  /\ UNCHANGED <<host, disk, gateway, cut, processes>>

\* Mutant: whether the profile had to be updated is not asked.
DecideDrifted ==
  /\ pc = "decide"
  /\ \/ box = None /\ Goes(AfterDelete) /\ Works
     \/ /\ box # None /\ identity # None /\ (old # None \/ ~Requires(identity.auth))
        /\ Goes(IF Matches THEN "reuse" ELSE "deleteBox") /\ Works
  /\ UNCHANGED <<host, disk, gateway, cut, processes>>

\* A sandbox without an identity, or without the provider its identity needs,
\* is refused; one that is not for this request, or whose provider profile had
\* to be updated, is replaced.  Whether there is one was asked before the
\* provider was looked at: when sandbox.exists() failed, for whatever reason,
\* there is none, and setup() goes on to make one.
Decide ==
  /\ pc = "decide"
  /\ \/ box = None /\ Goes(AfterDelete) /\ UNCHANGED cut /\ Works
     \/ box # None /\ Goes(AfterDelete) /\ cut' = cut \cup {"box"} /\ Fails
     \/ /\ box # None
        /\ identity # None => old = None /\ Requires(identity.auth)
        /\ pc' = "none" /\ UNCHANGED <<then, cut>> /\ Works
     \/ /\ box # None /\ identity # None /\ (old # None \/ ~Requires(identity.auth))
        /\ Goes(IF Matches /\ ~updated THEN "reuse" ELSE "deleteBox")
        /\ UNCHANGED cut /\ Works
  /\ UNCHANGED <<host, disk, gateway, processes>>

\* _reuse_sandbox puts it in the agent phase; one that cannot be is recreated.
\* Toolchains and environment files are written again after that.
Reuse ==
  /\ pc = "reuse"
  /\ \/ Goes("ready") /\ Works
     \/ Goes("deleteBox") /\ Fails
     \/ Raises /\ UNCHANGED then
  /\ UNCHANGED <<host, disk, gateway, cut, processes>>

DeleteBox ==
  /\ pc = "deleteBox"
  /\ \/ Goes(AfterDelete) /\ BoxGone /\ Works
     \/ Raises /\ BoxGone /\ UNCHANGED then
     \/ /\ Raises /\ UNCHANGED <<box, then>>
        /\ cut' = cut \cup (IF updated THEN {"profile"} ELSE {})
  /\ UNCHANGED <<host, disk, registered, driver, profiles, prov, processes>>

DeleteProvider ==
  /\ pc = "deleteProvider"
  /\ \/ Goes("provider") /\ prov' = None /\ Works
     \/ Raises /\ prov' \in {prov, None} /\ UNCHANGED then
  /\ UNCHANGED <<host, disk, registered, driver, profiles, box, cut, processes>>

-----------------------------------------------------------------------------
(* A new sandbox                                                           *)

\* What is left behind when a provider is stored and its refresh is not.
CutToken == cut' = cut \cup (IF want.auth \in Minted THEN {"token"} ELSE {})

Stored == [auth |-> want.auth, key |-> Fingerprint(want), minted |-> want.auth \notin Minted]

Refreshed == IF want.auth \in Keyed THEN [prov EXCEPT !.key = want.key] ELSE prov

\* Mutant: a provider that exists is taken as it is.
SetupProviderUnrefreshed ==
  /\ pc = "provider" /\ UNCHANGED then
  /\ \/ ~Requires(want.auth) /\ pc' = "clear" /\ Works /\ UNCHANGED <<profiles, prov, cut>>
     \/ Requires(want.auth) /\ prov # None /\ pc' = "clear" /\ Works /\ UNCHANGED <<profiles, prov, cut>>
     \/ /\ Requires(want.auth) /\ prov = None
        /\ profiles' = [profiles EXCEPT ![want.auth] = "ours"]
        /\ \/ pc' = (IF want.auth \in Minted THEN "configure" ELSE "clear") /\ prov' = Stored
              /\ UNCHANGED cut /\ Works
           \/ Raises /\ prov' \in {None, Stored} /\ CutToken
  /\ UNCHANGED <<host, disk, registered, driver, box, processes>>

\* provider.setup.  One that exists gets the current key where the agent has no
\* other way to it, and otherwise stays what it is; a new one is made after its
\* profile was imported, and cannot be when the query failed over an old one.
SetupProvider ==
  /\ pc = "provider" /\ UNCHANGED then
  /\ \/ ~Requires(want.auth) /\ pc' = "clear" /\ Works /\ UNCHANGED <<profiles, prov, cut>>
     \/ /\ Requires(want.auth) /\ prov # None /\ UNCHANGED <<profiles, cut>>
        /\ \/ pc' = "clear" /\ prov' = Refreshed /\ Works
           \/ want.auth \in Keyed /\ Raises /\ prov' \in {prov, Refreshed}
     \/ /\ Requires(want.auth) /\ prov # None /\ Raises
        /\ profiles' = [profiles EXCEPT ![want.auth] = "ours"] /\ UNCHANGED <<prov, cut>>
     \/ /\ Requires(want.auth) /\ prov = None
        /\ profiles' = [profiles EXCEPT ![want.auth] = "ours"]
        /\ \/ pc' = (IF want.auth \in Minted THEN "configure" ELSE "clear") /\ prov' = Stored
              /\ UNCHANGED cut /\ Works
           \/ Raises /\ prov' \in {None, Stored} /\ CutToken
  /\ UNCHANGED <<host, disk, registered, driver, box, processes>>

\* Mutant: a refresh that could not be configured is only logged.
ConfigureLogged ==
  /\ pc = "configure" /\ UNCHANGED <<then, cut>> /\ pc' = "rotate"
  /\ \/ prov' = [prov EXCEPT !.minted = TRUE] /\ Works
     \/ UNCHANGED prov /\ Fails
  /\ UNCHANGED <<host, disk, registered, driver, profiles, box, processes>>

\* A service account's provider holds a placeholder until its refresh is
\* configured; then the gateway mints tokens.
Configure ==
  /\ pc = "configure" /\ UNCHANGED then
  /\ \/ pc' = "rotate" /\ prov' = [prov EXCEPT !.minted = TRUE] /\ UNCHANGED cut /\ Works
     \/ Raises /\ prov' \in {prov, [prov EXCEPT !.minted = TRUE]} /\ CutToken
  /\ UNCHANGED <<host, disk, registered, driver, profiles, box, processes>>

\* rotate_token: a first token at once, not only at the worker's next round.
Rotate ==
  /\ pc = "rotate"
  /\ (Goes("clear") /\ Works) \/ (Raises /\ UNCHANGED then)
  /\ UNCHANGED <<host, disk, gateway, cut, processes>>

\* Mutant: the identity of the sandbox before is left where it is.
ClearIdentityKept ==
  /\ pc = "clear" /\ Goes("create") /\ Works
  /\ UNCHANGED <<host, disk, gateway, cut, processes>>

ClearIdentity ==
  /\ pc = "clear" /\ Goes("create") /\ identity' = None /\ Works
  /\ UNCHANGED <<host, config, gateway, cut, processes>>

NewBox ==
  [auth |-> want.auth, spec |-> want.spec,
   key |-> IF Requires(want.auth) THEN prov.key ELSE None, driver |-> driver,
   drifted |-> Requires(want.auth) /\ profiles[want.auth] # "ours", done |-> FALSE]

\* create() makes the sandbox and then applies its policy.  It raises when
\* there is one of that name.
Create ==
  /\ pc = "create"
  /\ \/ box = None /\ Goes("prepare") /\ box' = NewBox /\ Works
     \/ box = None /\ Raises /\ box' \in {None, NewBox} /\ UNCHANGED then
     \/ box # None /\ pc' = "none" /\ Works /\ UNCHANGED <<box, then>>
  /\ UNCHANGED <<host, disk, registered, driver, profiles, prov, cut, processes>>

\* Mutant: the identity is saved before the sandbox is complete.
PrepareSaved ==
  /\ pc = "prepare" /\ identity' = IdentityOf(want)
  /\ \/ Goes("save") /\ box' = [box EXCEPT !.done = TRUE] /\ Works
     \/ Raises /\ UNCHANGED <<then, box>>
  /\ UNCHANGED <<host, config, registered, driver, profiles, prov, cut, processes>>

\* Main process, setup steps, workdir, toolchains, environment, config files.
Prepare ==
  /\ pc = "prepare"
  /\ \/ Goes("save") /\ box' = [box EXCEPT !.done = TRUE] /\ Works
     \/ Raises /\ UNCHANGED <<then, box>>
  /\ UNCHANGED <<host, disk, registered, driver, profiles, prov, cut, processes>>

SaveIdentity ==
  /\ pc = "save" /\ Goes("ready") /\ identity' = IdentityOf(want) /\ Works
  /\ UNCHANGED <<host, config, gateway, cut, processes>>

-----------------------------------------------------------------------------
(* A sandbox in use                                                        *)

BeginRun ==
  /\ pc = "ready" /\ Goes("running") /\ Works
  /\ UNCHANGED <<host, disk, gateway, cut, processes>>

\* run() returns or raises; its keepalive thread's rotations are only logged.
RunEnds ==
  /\ pc = "running" /\ Goes("ready") /\ Works
  /\ UNCHANGED <<host, disk, gateway, cut, processes>>

\* The caller keeps the sandbox for a later process, or stops everything.
Keep ==
  /\ pc = "ready" /\ Goes("none") /\ Works
  /\ UNCHANGED <<host, disk, gateway, cut, processes>>

Stop ==
  /\ pc = "ready" /\ pc' = "stopBox" /\ then' = "none" /\ Works
  /\ UNCHANGED <<host, disk, gateway, cut, processes>>

Next ==
  \/ Begin \/ ValidateCredentials \/ Crash \/ EarlierRelease \/ HandEdit
  \/ CheckConfig \/ FindGateway \/ StopBox \/ Deregister \/ Kill \/ Start \/ Register
  \/ Inspect \/ Decide \/ Reuse \/ DeleteBox \/ DeleteProvider
  \/ SetupProvider \/ Configure \/ Rotate \/ ClearIdentity \/ Create \/ Prepare
  \/ SaveIdentity \/ BeginRun \/ RunEnds \/ Keep \/ Stop

Spec == Init /\ [][Next]_vars

-----------------------------------------------------------------------------
(* Properties                                                              *)

\* An agent runs in a sandbox that some process completed, for exactly this
\* auth mode, harness, image and profile, made with the key this process
\* brought, at a provider that still holds that key; unless a query that failed
\* took the provider, or this very sandbox, for none, and provider.setup went on
\* beside it.
AgentsSandboxFits ==
  pc = "running" =>
    /\ box # None /\ box.done /\ box.auth = want.auth /\ box.spec = want.spec
    /\ "query" \notin cut => box.key = Fingerprint(want)
    /\ cut \cap {"query", "box"} = {} /\ Requires(want.auth) =>
         prov # None /\ prov.auth = want.auth /\ prov.key = box.key

\* A saved identity tells the truth about the sandbox the gateway has: it was
\* completed, for what the identity says, with the key it says.
IdentityDescribesSandbox ==
  identity # None /\ box # None =>
    /\ box.done
    /\ identity.auth = box.auth /\ identity.spec = box.spec
    /\ "query" \notin cut => identity.key = box.key

\* New driver images take effect: an agent's sandbox belongs to a gateway that
\* was started with the images wanted, unless a start or a stop was cut short
\* and left a gateway listening that nobody looks for, or this process could
\* not ask for the status of the gateway and left its config unread.
DriverAsConfigured ==
  pc = "running" /\ cut \cap {"gateway", "config"} = {} =>
    driver = want.driver /\ box.driver = want.driver

\* A sandbox that ever ran under a provider profile other than the packaged one
\* is not used for another agent (setup() recreates it when the profile had to
\* be updated), unless a process ended between the update and the deletion, or
\* went on without one: the process after it finds the profile in order.
DriftedNotReused ==
  pc = "running" /\ cut \cap {"profile", "query", "box"} = {} /\ Requires(want.auth) => ~box.drifted

\* No agent starts before the gateway can mint the token it needs, unless the
\* provider was stored by a process that did not get to configure its refresh.
TokenBehindAgent ==
  pc = "running" /\ "token" \notin cut /\ Requires(want.auth) => prov.minted

\* DriftedNotReused while every query was answered: what the comment in setup()
\* says of a sandbox that ran under the drifted rule.
DriftedNeverReused ==
  pc = "running" /\ cut \cap {"query", "box"} = {} /\ Requires(want.auth) => ~box.drifted
=============================================================================
