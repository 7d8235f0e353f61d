------------------------ MODULE SandboxLifecycle_proofs ------------------------
(***************************************************************************)
(* The properties of SandboxLifecycle for any auth modes, keys, specs and  *)
(* drivers, and any number of processes and faults.  IInv says what a      *)
(* process may rely on at each of its calls, and what the windows in `cut` *)
(* stand for: outside of them the gateway, the provider and the sandbox    *)
(* that one process leaves are what the next one takes them for.           *)
(***************************************************************************)
EXTENDS SandboxLifecycle, TLAPS

\* Calls made to a gateway that answers, in their order.
OldBox == {"decide", "reuse", "deleteBox"}
Replacing == {"deleteProvider", "provider", "configure", "rotate", "clear", "create"}
NewOne == {"prepare", "save"}
InUse == {"ready", "running"}
OnGateway == {"inspect"} \cup OldBox \cup Replacing \cup NewOne \cup InUse

Starting == {"start", "register", "deregister", "kill"}

\* A process that counts on a gateway has one, and what a gateway holds goes
\* with it.
GatewayUp ==
  /\ pc \in OnGateway => registered /\ driver # None
  /\ pc = "register" => driver # None
  /\ box # None => driver # None /\ box.driver = driver
  /\ prov # None => driver # None

\* Unless a gateway was left behind, the one that listens is registered and
\* was started with what gateway.toml says, and that is what was wanted.
GatewayKnown ==
  "gateway" \notin cut =>
    /\ pc \notin Starting /\ driver # None => registered /\ config = driver
    /\ pc = "start" => driver = None
    /\ pc = "register" => config = driver
    /\ pc \in OnGateway \cup {"register", "status"} /\ driver # None /\ "config" \notin cut =>
         driver = want.driver

\* What was found out about the provider is still so while it is acted upon.
ProviderKnown ==
  /\ pc \in {"validate", "gateway", "status", "start", "register", "inspect"} => old = None
  /\ pc \in {"stopBox", "deregister", "kill"} /\ then = "status" => old = None
  /\ pc \in OldBox \cup {"deleteProvider"} =>
       /\ old # None => prov # None /\ prov.auth = old
       /\ old = None /\ "query" \notin cut => prov = None
  /\ updated => old = want.auth

\* A provider serves the key of its auth mode, and one that is taken over is
\* of the auth mode wanted.
ProviderFits ==
  "query" \notin cut =>
    /\ prov # None /\ prov.auth \in ProviderAuths \ Keyed => prov.key = None
    /\ pc \in {"provider", "configure", "rotate", "clear", "create"} /\ Requires(want.auth)
         /\ prov # None => prov.auth = want.auth
    /\ pc \in {"configure", "rotate", "clear", "create"} /\ Requires(want.auth) =>
         prov.key = Fingerprint(want)
    /\ pc \in OldBox \cup Replacing /\ prov # None /\ prov.auth = want.auth =>
         profiles[want.auth] = "ours"
    /\ pc \in {"configure", "rotate", "clear", "create"} /\ Requires(want.auth) =>
         profiles[want.auth] = "ours"

\* A new sandbox is made with a provider, after the old one, unless a query
\* missed it, and its identity are gone.
OneAtATime ==
  /\ pc \in Replacing => box = None \/ "box" \in cut
  /\ pc \in {"configure", "rotate"} => want.auth \in Minted
  /\ pc \in {"configure", "rotate", "clear", "create"} /\ Requires(want.auth) => prov # None
  /\ pc \in {"create"} \cup NewOne => identity = None

\* A sandbox that exists goes with its provider, and its key.
BoxFits ==
  /\ box # None /\ Requires(box.auth) /\ cut \cap {"query", "box"} = {} =>
       prov # None /\ prov.key = box.key
  /\ pc \in NewOne \cup InUse \cup {"reuse"} =>
       /\ box # None /\ box.auth = want.auth /\ box.spec = want.spec
       /\ Requires(want.auth) => prov # None
       /\ "query" \notin cut =>
            /\ box.key = Fingerprint(want)
            /\ Requires(want.auth) => prov.auth = want.auth
  /\ pc \in InUse \cup {"reuse", "save"} => box.done
  /\ pc \in InUse \cup {"reuse"} => identity = IdentityOf(want)

\* A sandbox that ran under another profile is told by its provider, by that
\* profile, or by the process that has just updated it.
DriftKnown ==
  cut \cap {"profile", "query", "box"} = {} /\ box # None /\ Requires(box.auth) =>
    /\ box.drifted /\ identity # None =>
         \/ prov.auth = "legacy" \/ profiles[box.auth] # "ours"
         \/ updated /\ pc \in {"decide", "deleteBox"}
    /\ pc \in NewOne \cup InUse \cup {"reuse"} => ~box.drifted

\* A provider that mints its token does so, once its refresh is configured.
TokenKnown ==
  "token" \notin cut /\ prov # None => prov.minted \/ pc = "configure"

IInv ==
  /\ TypeOK
  /\ GatewayUp
  /\ GatewayKnown
  /\ ProviderKnown
  /\ ProviderFits
  /\ OneAtATime
  /\ BoxFits
  /\ DriftKnown
  /\ TokenKnown
  /\ IdentityDescribesSandbox

\* Nothing is there at first.
LEMMA InitIInv == Init => IInv
<1> SUFFICES ASSUME Init PROVE IInv
  OBVIOUS
<1> USE ConstantsAssumption DEF Init, Absent
<1>1. TypeOK
  <2>1. profiles \in [ProviderAuths -> {"absent", "ours", "drifted"}]
    OBVIOUS
  <2>2. 0 \in 0..MaxProcesses /\ 0 \in 0..MaxFaults
    OBVIOUS
  <2> QED
    BY <2>1, <2>2 DEF TypeOK, Calls, Exits, Auths, Wants
<1>2. GatewayUp /\ GatewayKnown /\ ProviderKnown /\ ProviderFits /\ OneAtATime
  BY DEF GatewayUp, GatewayKnown, ProviderKnown, ProviderFits, OneAtATime,
         OnGateway, OldBox, Replacing, NewOne, InUse, Starting
<1>3. BoxFits /\ DriftKnown /\ TokenKnown /\ IdentityDescribesSandbox
  BY DEF BoxFits, DriftKnown, TokenKnown, IdentityDescribesSandbox, NewOne, InUse
<1> QED
  BY <1>1, <1>2, <1>3 DEF IInv

\* Every step keeps the invariant.
LEMMA NextIInv == IInv /\ [Next]_vars => IInv'
<1> SUFFICES ASSUME IInv, [Next]_vars PROVE IInv'
  OBVIOUS
<1> USE ConstantsAssumption, NoneAssumption
        DEF IInv, host, disk, gateway, Fails, Works, Raises, Goes,
            OnGateway, OldBox, Replacing, NewOne, InUse, Starting,
            Requires, Fingerprint, IdentityOf
<1>1. CASE Begin
  <2> USE <1>1 DEF Begin
  <2>1. TypeOK'
    <3>1. pc' \in Calls \cup {"none"} /\ then' \in Exits
      BY DEF TypeOK, Calls, Exits
    <3>2. want' \in Wants /\ updated' \in BOOLEAN /\ old' \in Auths \cup {"legacy", None}
      BY DEF TypeOK, Auths, Providers
    <3>3. config' \in Drivers \cup {None} /\ identity' \in Identities \cup {None}
      BY DEF TypeOK, Wants
    <3>4. registered' \in BOOLEAN /\ driver' \in Drivers \cup {None}
      BY DEF TypeOK, Wants
    <3>5. profiles' \in [ProviderAuths -> {"absent", "ours", "drifted"}]
      BY DEF TypeOK
    <3>6. prov' \in Providers \cup {None}
      BY DEF TypeOK
    <3>7. box' \in Boxes \cup {None}
      BY DEF TypeOK
    <3>8. cut' \subseteq Windows
      BY DEF TypeOK, Windows
    <3>9. processes' \in 0..MaxProcesses /\ faults' \in 0..MaxFaults
      BY DEF TypeOK, bounds
    <3> QED
      BY <3>1, <3>2, <3>3, <3>4, <3>5, <3>6, <3>7, <3>8, <3>9 DEF TypeOK
  <2>2. GatewayUp' /\ GatewayKnown'
    BY DEF GatewayUp, GatewayKnown, OneAtATime
  <2>3. ProviderKnown' /\ OneAtATime'
    BY DEF ProviderKnown, OneAtATime, GatewayUp
  <2>4. ProviderFits' /\ TokenKnown'
    BY DEF ProviderFits, ProviderKnown, OneAtATime, TokenKnown
  <2>5. BoxFits'
    BY DEF BoxFits, ProviderFits, ProviderKnown, OneAtATime, IdentityDescribesSandbox
  <2>6. DriftKnown'
    BY DEF DriftKnown, BoxFits, ProviderFits, ProviderKnown, OneAtATime
  <2>7. IdentityDescribesSandbox'
    BY DEF IdentityDescribesSandbox, BoxFits, OneAtATime
  <2> QED
    BY <2>1, <2>2, <2>3, <2>4, <2>5, <2>6, <2>7
<1>2. CASE ValidateCredentials
  <2> USE <1>2 DEF ValidateCredentials
  <2>1. TypeOK'
    BY DEF TypeOK, Wants, Identities, Providers, Boxes, Calls, Exits, Windows, Auths,
       bounds, GatewayUp, OneAtATime, ProviderKnown
  <2>2. GatewayUp' /\ GatewayKnown'
    BY DEF GatewayUp, GatewayKnown, OneAtATime
  <2>3. ProviderKnown' /\ OneAtATime'
    BY DEF ProviderKnown, OneAtATime, GatewayUp
  <2>4. ProviderFits' /\ TokenKnown'
    BY DEF ProviderFits, ProviderKnown, OneAtATime, TokenKnown
  <2>5. BoxFits'
    BY DEF BoxFits, ProviderFits, ProviderKnown, OneAtATime, IdentityDescribesSandbox
  <2>6. DriftKnown'
    BY DEF DriftKnown, BoxFits, ProviderFits, ProviderKnown, OneAtATime
  <2>7. IdentityDescribesSandbox'
    BY DEF IdentityDescribesSandbox, BoxFits, OneAtATime
  <2> QED
    BY <2>1, <2>2, <2>3, <2>4, <2>5, <2>6, <2>7
<1>3. CASE Crash
  <2> USE <1>3 DEF Crash
  <2>1. TypeOK'
    BY DEF TypeOK, Wants, Identities, Providers, Boxes, Calls, Exits, Windows, Auths,
       bounds, GatewayUp, OneAtATime, ProviderKnown
  <2>2. GatewayUp' /\ GatewayKnown'
    BY DEF GatewayUp, GatewayKnown, OneAtATime
  <2>3. ProviderKnown' /\ OneAtATime'
    BY DEF ProviderKnown, OneAtATime, GatewayUp
  <2>4. ProviderFits' /\ TokenKnown'
    BY DEF ProviderFits, ProviderKnown, OneAtATime, TokenKnown
  <2>5. BoxFits'
    BY DEF BoxFits, ProviderFits, ProviderKnown, OneAtATime, IdentityDescribesSandbox
  <2>6. DriftKnown'
    BY DEF DriftKnown, BoxFits, ProviderFits, ProviderKnown, OneAtATime
  <2>7. IdentityDescribesSandbox'
    BY DEF IdentityDescribesSandbox, BoxFits, OneAtATime
  <2> QED
    BY <2>1, <2>2, <2>3, <2>4, <2>5, <2>6, <2>7
<1>4. CASE EarlierRelease
  <2> USE <1>4 DEF EarlierRelease
  <2>1. TypeOK'
    BY DEF TypeOK, Wants, Identities, Providers, Boxes, Calls, Exits, Windows, Auths,
       bounds, GatewayUp, OneAtATime, ProviderKnown
  <2>2. GatewayUp' /\ GatewayKnown'
    BY DEF GatewayUp, GatewayKnown, OneAtATime
  <2>3. ProviderKnown' /\ OneAtATime'
    BY DEF ProviderKnown, OneAtATime, GatewayUp
  <2>4. ProviderFits' /\ TokenKnown'
    BY DEF ProviderFits, ProviderKnown, OneAtATime, TokenKnown
  <2>5. BoxFits'
    <3>1. prov' \in Providers /\ box'.key = prov'.key
      BY DEF TypeOK, Providers
    <3>2. pc' = "none"
      OBVIOUS
    <3> QED
      BY <3>1, <3>2 DEF BoxFits
  <2>6. DriftKnown'
    BY DEF DriftKnown, BoxFits, ProviderFits, ProviderKnown, OneAtATime
  <2>7. IdentityDescribesSandbox'
    BY DEF IdentityDescribesSandbox, BoxFits, OneAtATime
  <2> QED
    BY <2>1, <2>2, <2>3, <2>4, <2>5, <2>6, <2>7
<1>5. CASE HandEdit
  <2> USE <1>5 DEF HandEdit
  <2>1. TypeOK'
    <3>1. pc' \in Calls \cup {"none"} /\ then' \in Exits
      BY DEF TypeOK, Calls, Exits
    <3>2. want' \in Wants /\ updated' \in BOOLEAN /\ old' \in Auths \cup {"legacy", None}
      BY DEF TypeOK, Auths, Providers
    <3>3. config' \in Drivers \cup {None} /\ identity' \in Identities \cup {None}
      BY DEF TypeOK, Wants
    <3>4. registered' \in BOOLEAN /\ driver' \in Drivers \cup {None}
      BY DEF TypeOK, Wants
    <3>5. profiles' \in [ProviderAuths -> {"absent", "ours", "drifted"}]
      BY DEF TypeOK
    <3>6. prov' \in Providers \cup {None}
      BY DEF TypeOK
    <3>7. box' \in Boxes \cup {None}
      <4>1. PICK a \in ProviderAuths :
              box' = IF box # None /\ box.auth = a THEN [box EXCEPT !.drifted = TRUE] ELSE box
        OBVIOUS
      <4> QED
        BY <4>1 DEF TypeOK, Boxes
    <3>8. cut' \subseteq Windows
      BY DEF TypeOK, Windows
    <3>9. processes' \in 0..MaxProcesses /\ faults' \in 0..MaxFaults
      BY DEF TypeOK, bounds
    <3> QED
      BY <3>1, <3>2, <3>3, <3>4, <3>5, <3>6, <3>7, <3>8, <3>9 DEF TypeOK
  <2>2. GatewayUp' /\ GatewayKnown'
    BY DEF GatewayUp, GatewayKnown, OneAtATime
  <2>3. ProviderKnown' /\ OneAtATime'
    BY DEF ProviderKnown, OneAtATime, GatewayUp
  <2>4. ProviderFits' /\ TokenKnown'
    BY DEF ProviderFits, ProviderKnown, OneAtATime, TokenKnown
  <2>5. BoxFits'
    BY DEF BoxFits, ProviderFits, ProviderKnown, OneAtATime, IdentityDescribesSandbox
  <2>6. DriftKnown'
    <3>1. PICK a \in ProviderAuths :
            /\ profiles[a] = "ours" /\ profiles' = [profiles EXCEPT ![a] = "drifted"]
            /\ box' = IF box # None /\ box.auth = a THEN [box EXCEPT !.drifted = TRUE] ELSE box
      OBVIOUS
    <3>2. pc' = "none" /\ prov' = prov /\ identity' = identity /\ cut' = cut
      OBVIOUS
    <3>3. profiles \in [ProviderAuths -> {"absent", "ours", "drifted"}] /\ box \in Boxes \cup {None}
      BY DEF TypeOK
    <3>4. CASE box # None /\ box.auth = a
      BY <3>1, <3>2, <3>3, <3>4 DEF Boxes, DriftKnown
    <3>5. CASE ~(box # None /\ box.auth = a)
      BY <3>1, <3>2, <3>3, <3>5 DEF DriftKnown
    <3> QED
      BY <3>4, <3>5
  <2>7. IdentityDescribesSandbox'
    BY DEF IdentityDescribesSandbox, BoxFits, OneAtATime
  <2> QED
    BY <2>1, <2>2, <2>3, <2>4, <2>5, <2>6, <2>7
<1>6. CASE CheckConfig
  <2> USE <1>6 DEF CheckConfig, Running
  <2>1. TypeOK'
    <3>1. pc' \in Calls \cup {"none"} /\ then' \in Exits
      BY DEF TypeOK, Calls, Exits
    <3>2. want' \in Wants /\ updated' \in BOOLEAN /\ old' \in Auths \cup {"legacy", None}
      BY DEF TypeOK, Auths, Providers
    <3>3. config' \in Drivers \cup {None} /\ identity' \in Identities \cup {None}
      BY DEF TypeOK, Wants
    <3>4. registered' \in BOOLEAN /\ driver' \in Drivers \cup {None}
      BY DEF TypeOK, Wants
    <3>5. profiles' \in [ProviderAuths -> {"absent", "ours", "drifted"}]
      BY DEF TypeOK
    <3>6. prov' \in Providers \cup {None}
      BY DEF TypeOK
    <3>7. box' \in Boxes \cup {None}
      BY DEF TypeOK
    <3>8. cut' \subseteq Windows
      BY DEF TypeOK, Windows
    <3>9. processes' \in 0..MaxProcesses /\ faults' \in 0..MaxFaults
      BY DEF TypeOK, bounds
    <3> QED
      BY <3>1, <3>2, <3>3, <3>4, <3>5, <3>6, <3>7, <3>8, <3>9 DEF TypeOK
  <2>2. GatewayUp' /\ GatewayKnown'
    BY DEF GatewayUp, GatewayKnown, OneAtATime
  <2>3. ProviderKnown' /\ OneAtATime'
    BY DEF ProviderKnown, OneAtATime, GatewayUp
  <2>4. ProviderFits' /\ TokenKnown'
    BY DEF ProviderFits, ProviderKnown, OneAtATime, TokenKnown
  <2>5. BoxFits'
    BY DEF BoxFits, ProviderFits, ProviderKnown, OneAtATime, IdentityDescribesSandbox
  <2>6. DriftKnown'
    BY DEF DriftKnown, BoxFits, ProviderFits, ProviderKnown, OneAtATime
  <2>7. IdentityDescribesSandbox'
    BY DEF IdentityDescribesSandbox, BoxFits, OneAtATime
  <2> QED
    BY <2>1, <2>2, <2>3, <2>4, <2>5, <2>6, <2>7
<1>7. CASE StopBox
  <2> USE <1>7 DEF StopBox, Running, BoxGone
  <2>1. TypeOK'
    <3>1. pc' \in Calls \cup {"none"} /\ then' \in Exits
      BY DEF TypeOK, Calls, Exits
    <3>2. want' \in Wants /\ updated' \in BOOLEAN /\ old' \in Auths \cup {"legacy", None}
      BY DEF TypeOK, Auths, Providers
    <3>3. config' \in Drivers \cup {None} /\ identity' \in Identities \cup {None}
      BY DEF TypeOK, Wants
    <3>4. registered' \in BOOLEAN /\ driver' \in Drivers \cup {None}
      BY DEF TypeOK, Wants
    <3>5. profiles' \in [ProviderAuths -> {"absent", "ours", "drifted"}]
      BY DEF TypeOK
    <3>6. prov' \in Providers \cup {None}
      BY DEF TypeOK
    <3>7. box' \in Boxes \cup {None}
      BY DEF TypeOK
    <3>8. cut' \subseteq Windows
      BY DEF TypeOK, Windows
    <3>9. processes' \in 0..MaxProcesses /\ faults' \in 0..MaxFaults
      BY DEF TypeOK, bounds
    <3> QED
      BY <3>1, <3>2, <3>3, <3>4, <3>5, <3>6, <3>7, <3>8, <3>9 DEF TypeOK
  <2>2. GatewayUp' /\ GatewayKnown'
    BY DEF GatewayUp, GatewayKnown, OneAtATime
  <2>3. ProviderKnown' /\ OneAtATime'
    BY DEF ProviderKnown, OneAtATime, GatewayUp
  <2>4. ProviderFits' /\ TokenKnown'
    BY DEF ProviderFits, ProviderKnown, OneAtATime, TokenKnown
  <2>5. BoxFits'
    BY DEF BoxFits, ProviderFits, ProviderKnown, OneAtATime, IdentityDescribesSandbox
  <2>6. DriftKnown'
    BY DEF DriftKnown, BoxFits, ProviderFits, ProviderKnown, OneAtATime
  <2>7. IdentityDescribesSandbox'
    BY DEF IdentityDescribesSandbox, BoxFits, OneAtATime
  <2> QED
    BY <2>1, <2>2, <2>3, <2>4, <2>5, <2>6, <2>7
<1>8. CASE Deregister
  <2> USE <1>8 DEF Deregister
  <2>1. TypeOK'
    <3>1. pc' \in Calls \cup {"none"} /\ then' \in Exits
      BY DEF TypeOK, Calls, Exits
    <3>2. want' \in Wants /\ updated' \in BOOLEAN /\ old' \in Auths \cup {"legacy", None}
      BY DEF TypeOK, Auths, Providers
    <3>3. config' \in Drivers \cup {None} /\ identity' \in Identities \cup {None}
      BY DEF TypeOK, Wants
    <3>4. registered' \in BOOLEAN /\ driver' \in Drivers \cup {None}
      BY DEF TypeOK, Wants
    <3>5. profiles' \in [ProviderAuths -> {"absent", "ours", "drifted"}]
      BY DEF TypeOK
    <3>6. prov' \in Providers \cup {None}
      BY DEF TypeOK
    <3>7. box' \in Boxes \cup {None}
      BY DEF TypeOK
    <3>8. cut' \subseteq Windows
      BY DEF TypeOK, Windows
    <3>9. processes' \in 0..MaxProcesses /\ faults' \in 0..MaxFaults
      BY DEF TypeOK, bounds
    <3> QED
      BY <3>1, <3>2, <3>3, <3>4, <3>5, <3>6, <3>7, <3>8, <3>9 DEF TypeOK
  <2>2. GatewayUp' /\ GatewayKnown'
    BY DEF GatewayUp, GatewayKnown, OneAtATime
  <2>3. ProviderKnown' /\ OneAtATime'
    BY DEF ProviderKnown, OneAtATime, GatewayUp
  <2>4. ProviderFits' /\ TokenKnown'
    BY DEF ProviderFits, ProviderKnown, OneAtATime, TokenKnown
  <2>5. BoxFits'
    BY DEF BoxFits, ProviderFits, ProviderKnown, OneAtATime, IdentityDescribesSandbox
  <2>6. DriftKnown'
    BY DEF DriftKnown, BoxFits, ProviderFits, ProviderKnown, OneAtATime
  <2>7. IdentityDescribesSandbox'
    BY DEF IdentityDescribesSandbox, BoxFits, OneAtATime
  <2> QED
    BY <2>1, <2>2, <2>3, <2>4, <2>5, <2>6, <2>7
<1>9. CASE Kill
  <2> USE <1>9 DEF Kill, FreshDatabase, Absent
  <2>1. TypeOK'
    <3>1. pc' \in Calls \cup {"none"} /\ then' \in Exits
      BY DEF TypeOK, Calls, Exits
    <3>2. want' \in Wants /\ updated' \in BOOLEAN /\ old' \in Auths \cup {"legacy", None}
      BY DEF TypeOK, Auths, Providers
    <3>3. config' \in Drivers \cup {None} /\ identity' \in Identities \cup {None}
      BY DEF TypeOK, Wants
    <3>4. registered' \in BOOLEAN /\ driver' \in Drivers \cup {None}
      BY DEF TypeOK, Wants
    <3>5. profiles' \in [ProviderAuths -> {"absent", "ours", "drifted"}]
      BY DEF TypeOK
    <3>6. prov' \in Providers \cup {None}
      BY DEF TypeOK
    <3>7. box' \in Boxes \cup {None}
      BY DEF TypeOK
    <3>8. cut' \subseteq Windows
      BY DEF TypeOK, Windows
    <3>9. processes' \in 0..MaxProcesses /\ faults' \in 0..MaxFaults
      BY DEF TypeOK, bounds
    <3> QED
      BY <3>1, <3>2, <3>3, <3>4, <3>5, <3>6, <3>7, <3>8, <3>9 DEF TypeOK
  <2>2. GatewayUp' /\ GatewayKnown'
    BY DEF GatewayUp, GatewayKnown, OneAtATime
  <2>3. ProviderKnown' /\ OneAtATime'
    <3>1. pc' = "none" \/ (then = "status" /\ pc' = "status")
      OBVIOUS
    <3>2. old' = old /\ want' = want /\ updated' = updated /\ pc = "kill"
      OBVIOUS
    <3> HIDE <1>9
    <3> QED
      BY <3>1, <3>2 DEF ProviderKnown, OneAtATime
  <2>4. ProviderFits' /\ TokenKnown'
    BY DEF ProviderFits, ProviderKnown, OneAtATime, TokenKnown
  <2>5. BoxFits'
    BY DEF BoxFits, ProviderFits, ProviderKnown, OneAtATime, IdentityDescribesSandbox
  <2>6. DriftKnown'
    BY DEF DriftKnown, BoxFits, ProviderFits, ProviderKnown, OneAtATime
  <2>7. IdentityDescribesSandbox'
    BY DEF IdentityDescribesSandbox, BoxFits, OneAtATime
  <2> QED
    BY <2>1, <2>2, <2>3, <2>4, <2>5, <2>6, <2>7
<1>10. CASE Start
  <2> USE <1>10 DEF Start, FreshDatabase, Absent
  <2>1. TypeOK'
    BY DEF TypeOK, Wants, Identities, Providers, Boxes, Calls, Exits, Windows, Auths,
       bounds, GatewayUp, OneAtATime, ProviderKnown
  <2>2. GatewayUp' /\ GatewayKnown'
    <3>1. CASE pc' = "register"
      BY <3>1 DEF TypeOK, Wants, GatewayUp, GatewayKnown
    <3>2. CASE pc' # "register"
      <4>1. /\ pc' \in {"none", "deregister"} /\ driver' = driver /\ box' = box /\ prov' = prov
            /\ registered' = registered /\ cut' = cut
        BY <3>2
      <4> QED
        BY <4>1 DEF GatewayUp, GatewayKnown
    <3> QED
      BY <3>1, <3>2
  <2>3. ProviderKnown' /\ OneAtATime'
    BY DEF ProviderKnown, OneAtATime, GatewayUp
  <2>4. ProviderFits' /\ TokenKnown'
    BY DEF ProviderFits, ProviderKnown, OneAtATime, TokenKnown
  <2>5. BoxFits'
    BY DEF BoxFits, ProviderFits, ProviderKnown, OneAtATime, IdentityDescribesSandbox
  <2>6. DriftKnown'
    BY DEF DriftKnown, BoxFits, ProviderFits, ProviderKnown, OneAtATime
  <2>7. IdentityDescribesSandbox'
    BY DEF IdentityDescribesSandbox, BoxFits, OneAtATime
  <2> QED
    BY <2>1, <2>2, <2>3, <2>4, <2>5, <2>6, <2>7
<1>11. CASE Register
  <2> USE <1>11 DEF Register
  <2>1. TypeOK'
    <3>1. pc' \in Calls \cup {"none"} /\ then' \in Exits
      BY DEF TypeOK, Calls, Exits
    <3>2. want' \in Wants /\ updated' \in BOOLEAN /\ old' \in Auths \cup {"legacy", None}
      BY DEF TypeOK, Auths, Providers
    <3>3. config' \in Drivers \cup {None} /\ identity' \in Identities \cup {None}
      BY DEF TypeOK, Wants
    <3>4. registered' \in BOOLEAN /\ driver' \in Drivers \cup {None}
      BY DEF TypeOK, Wants
    <3>5. profiles' \in [ProviderAuths -> {"absent", "ours", "drifted"}]
      BY DEF TypeOK
    <3>6. prov' \in Providers \cup {None}
      BY DEF TypeOK
    <3>7. box' \in Boxes \cup {None}
      BY DEF TypeOK
    <3>8. cut' \subseteq Windows
      BY DEF TypeOK, Windows
    <3>9. processes' \in 0..MaxProcesses /\ faults' \in 0..MaxFaults
      BY DEF TypeOK, bounds
    <3> QED
      BY <3>1, <3>2, <3>3, <3>4, <3>5, <3>6, <3>7, <3>8, <3>9 DEF TypeOK
  <2>2. GatewayUp' /\ GatewayKnown'
    BY DEF GatewayUp, GatewayKnown, OneAtATime
  <2>3. ProviderKnown' /\ OneAtATime'
    BY DEF ProviderKnown, OneAtATime, GatewayUp
  <2>4. ProviderFits' /\ TokenKnown'
    BY DEF ProviderFits, ProviderKnown, OneAtATime, TokenKnown
  <2>5. BoxFits'
    BY DEF BoxFits, ProviderFits, ProviderKnown, OneAtATime, IdentityDescribesSandbox
  <2>6. DriftKnown'
    BY DEF DriftKnown, BoxFits, ProviderFits, ProviderKnown, OneAtATime
  <2>7. IdentityDescribesSandbox'
    BY DEF IdentityDescribesSandbox, BoxFits, OneAtATime
  <2> QED
    BY <2>1, <2>2, <2>3, <2>4, <2>5, <2>6, <2>7
<1>12. CASE Inspect
  <2> USE <1>12 DEF Inspect
  <2>0. /\ pc' \in {"decide", "none"}
        /\ \/ old' = old /\ updated' = updated /\ profiles' = profiles
              /\ (pc' = "decide" => "query" \in cut')
              /\ prov # None
           \/ /\ prov # None => prov.auth # want.auth
              /\ old' = (IF prov = None THEN None ELSE prov.auth)
              /\ updated' = updated /\ profiles' = profiles /\ cut' = cut
           \/ /\ prov # None /\ prov.auth = want.auth /\ old' = prov.auth
              /\ updated' = (profiles[want.auth] # "ours")
              /\ profiles' = [profiles EXCEPT ![want.auth] = "ours"]
              /\ pc' = "none" /\ updated' => "profile" \in cut'
        /\ cut \subseteq cut'
    OBVIOUS
  <2>1. TypeOK'
    <3>1. pc' \in Calls \cup {"none"} /\ then' \in Exits
      BY DEF TypeOK, Calls, Exits
    <3>2. want' \in Wants /\ updated' \in BOOLEAN /\ old' \in Auths \cup {"legacy", None}
      BY DEF TypeOK, Auths, Providers, Wants
    <3>3. config' \in Drivers \cup {None} /\ identity' \in Identities \cup {None}
      BY DEF TypeOK, Wants
    <3>4. registered' \in BOOLEAN /\ driver' \in Drivers \cup {None}
      BY DEF TypeOK, Wants
    <3>5. profiles' \in [ProviderAuths -> {"absent", "ours", "drifted"}]
      BY DEF TypeOK
    <3>6. prov' \in Providers \cup {None}
      BY DEF TypeOK
    <3>7. box' \in Boxes \cup {None}
      BY DEF TypeOK
    <3>8. cut' \subseteq Windows
      BY DEF TypeOK, Windows
    <3>9. processes' \in 0..MaxProcesses /\ faults' \in 0..MaxFaults
      BY DEF TypeOK, bounds
    <3> QED
      BY <3>1, <3>2, <3>3, <3>4, <3>5, <3>6, <3>7, <3>8, <3>9 DEF TypeOK
  <2>2. GatewayUp' /\ GatewayKnown'
    BY DEF GatewayUp, GatewayKnown, OneAtATime
  <2>3. ProviderKnown' /\ OneAtATime'
    <3> HIDE DEF Inspect
    <3> HIDE <1>12
    <3>1. prov' = prov /\ want' = want /\ box' = box /\ identity' = identity
      BY <1>12 DEF Inspect
    <3>2. old = None /\ pc = "inspect"
      BY <1>12 DEF Inspect, ProviderKnown
    <3>3. want.auth # None
      BY DEF TypeOK, Wants, Auths
    <3>4. ~updated
      BY <3>2, <3>3 DEF ProviderKnown
    <3>5. pc' \in {"decide", "none"}
      BY <2>0
    <3>6. OneAtATime'
      BY <3>5 DEF OneAtATime
    <3>7. updated' => old' = want'.auth
      BY <2>0, <3>1, <3>4
    <3>8. pc' = "decide" => /\ old' # None => prov' # None /\ prov'.auth = old'
                            /\ old' = None /\ "query" \notin cut' => prov' = None
      <4>1. prov # None => prov.auth # None
        BY DEF TypeOK, Providers
      <4>2. old' = None /\ prov # None => "query" \in cut' \/ pc' = "none"
        BY <2>0, <3>2, <3>3, <4>1
      <4>3. pc' = "decide" /\ old' # None => prov # None /\ prov.auth = old'
        BY <2>0, <3>2
      <4> QED
        BY <3>1, <4>2, <4>3
    <3>9. ProviderKnown'
      BY <3>5, <3>7, <3>8 DEF ProviderKnown
    <3> QED
      BY <3>6, <3>9
  <2>4. ProviderFits' /\ TokenKnown'
    <3> HIDE DEF Inspect
    <3> HIDE <1>12
    <3>1. prov' = prov /\ want' = want /\ pc = "inspect"
      BY <1>12 DEF Inspect
    <3>2. profiles \in [ProviderAuths -> {"absent", "ours", "drifted"}]
      BY DEF TypeOK
    <3>3. prov # None /\ prov.auth = want.auth => want.auth \in ProviderAuths
      BY DEF TypeOK, Providers, Wants, Auths
    <3>4. TokenKnown'
      BY <2>0, <3>1 DEF TokenKnown
    <3>5. ProviderFits'
      BY <2>0, <3>1, <3>2, <3>3 DEF ProviderFits
    <3> QED
      BY <3>4, <3>5
  <2>5. BoxFits'
    BY DEF BoxFits, ProviderFits, ProviderKnown, OneAtATime, IdentityDescribesSandbox
  <2>6. DriftKnown'
    <3> HIDE DEF Inspect
    <3> HIDE <1>12
    <3>1. /\ prov' = prov /\ want' = want /\ box' = box /\ identity' = identity
          /\ pc = "inspect"
      BY <1>12 DEF Inspect
    <3>2. profiles \in [ProviderAuths -> {"absent", "ours", "drifted"}]
      BY DEF TypeOK
    <3> QED
      BY <2>0, <3>1, <3>2 DEF DriftKnown
  <2>7. IdentityDescribesSandbox'
    BY DEF IdentityDescribesSandbox, BoxFits, OneAtATime
  <2> QED
    BY <2>1, <2>2, <2>3, <2>4, <2>5, <2>6, <2>7
<1>13. CASE Decide
  <2> USE <1>13 DEF Decide, AfterDelete, Matches, Known, IdentityOf, Fingerprint
  <2>1. TypeOK'
    <3>1. pc' \in Calls \cup {"none"} /\ then' \in Exits
      BY DEF TypeOK, Calls, Exits
    <3>2. want' \in Wants /\ updated' \in BOOLEAN /\ old' \in Auths \cup {"legacy", None}
      BY DEF TypeOK, Auths, Providers
    <3>3. config' \in Drivers \cup {None} /\ identity' \in Identities \cup {None}
      BY DEF TypeOK, Wants
    <3>4. registered' \in BOOLEAN /\ driver' \in Drivers \cup {None}
      BY DEF TypeOK, Wants
    <3>5. profiles' \in [ProviderAuths -> {"absent", "ours", "drifted"}]
      BY DEF TypeOK
    <3>6. prov' \in Providers \cup {None}
      BY DEF TypeOK
    <3>7. box' \in Boxes \cup {None}
      BY DEF TypeOK
    <3>8. cut' \subseteq Windows
      BY DEF TypeOK, Windows
    <3>9. processes' \in 0..MaxProcesses /\ faults' \in 0..MaxFaults
      BY DEF TypeOK, bounds
    <3> QED
      BY <3>1, <3>2, <3>3, <3>4, <3>5, <3>6, <3>7, <3>8, <3>9 DEF TypeOK
  <2>2. GatewayUp' /\ GatewayKnown'
    BY DEF GatewayUp, GatewayKnown, OneAtATime
  <2>3. ProviderKnown' /\ OneAtATime'
    BY DEF ProviderKnown, OneAtATime, GatewayUp
  <2>4. ProviderFits' /\ TokenKnown'
    BY DEF ProviderFits, ProviderKnown, OneAtATime, TokenKnown
  <2>5. BoxFits'
    BY DEF BoxFits, ProviderFits, ProviderKnown, OneAtATime, IdentityDescribesSandbox
  <2>6. DriftKnown'
    <3>0. cut' = cut \/ "box" \in cut'
      OBVIOUS
    <3>1. /\ box' = box /\ prov' = prov /\ profiles' = profiles
          /\ identity' = identity /\ updated' = updated /\ want' = want /\ pc = "decide"
      OBVIOUS
    <3>2. CASE pc' = "reuse"
      <4>1. /\ box # None /\ identity # None /\ identity.auth = want.auth /\ ~updated
            /\ Requires(want.auth) => old # None /\ old = want.auth
        BY <3>2
      <4>2. identity.auth = box.auth
        BY <4>1 DEF IdentityDescribesSandbox
      <4>3. want.auth # "legacy"
        BY DEF TypeOK, Wants, Auths
      <4>4. Requires(want.auth) => prov # None /\ prov.auth = want.auth
        BY <3>1, <4>1 DEF ProviderKnown
      <4>5. "query" \notin cut /\ Requires(want.auth) => profiles[want.auth] = "ours"
        BY <3>1, <4>4 DEF ProviderFits
      <4> QED
        BY <3>0, <3>1, <3>2, <4>1, <4>2, <4>3, <4>4, <4>5 DEF DriftKnown
    <3>3. CASE pc' # "reuse"
      <4>1. want.auth # None
        BY DEF TypeOK, Wants, Auths
      <4>2. updated => old # None
        BY <4>1 DEF ProviderKnown
      <4>3. \/ box = None \/ "box" \in cut'
            \/ pc' = "none" /\ (identity # None => ~updated)
            \/ pc' = "deleteBox"
        BY <3>3, <4>2
      <4> HIDE <1>13
      <4> QED
        BY <3>0, <3>1, <3>3, <4>3 DEF DriftKnown, AfterDelete
    <3> QED
      BY <3>2, <3>3
  <2>7. IdentityDescribesSandbox'
    BY DEF IdentityDescribesSandbox, BoxFits, OneAtATime
  <2> QED
    BY <2>1, <2>2, <2>3, <2>4, <2>5, <2>6, <2>7
<1>14. CASE Reuse
  <2> USE <1>14 DEF Reuse
  <2>1. TypeOK'
    BY DEF TypeOK, Wants, Identities, Providers, Boxes, Calls, Exits, Windows, Auths,
       bounds, GatewayUp, OneAtATime, ProviderKnown
  <2>2. GatewayUp' /\ GatewayKnown'
    BY DEF GatewayUp, GatewayKnown, OneAtATime
  <2>3. ProviderKnown' /\ OneAtATime'
    BY DEF ProviderKnown, OneAtATime, GatewayUp
  <2>4. ProviderFits' /\ TokenKnown'
    BY DEF ProviderFits, ProviderKnown, OneAtATime, TokenKnown
  <2>5. BoxFits'
    BY DEF BoxFits, ProviderFits, ProviderKnown, OneAtATime, IdentityDescribesSandbox
  <2>6. DriftKnown'
    BY DEF DriftKnown, BoxFits, ProviderFits, ProviderKnown, OneAtATime
  <2>7. IdentityDescribesSandbox'
    BY DEF IdentityDescribesSandbox, BoxFits, OneAtATime
  <2> QED
    BY <2>1, <2>2, <2>3, <2>4, <2>5, <2>6, <2>7
<1>15. CASE DeleteBox
  <2> USE <1>15 DEF DeleteBox, AfterDelete, BoxGone
  <2>1. TypeOK'
    <3>1. pc' \in Calls \cup {"none"} /\ then' \in Exits
      BY DEF TypeOK, Calls, Exits, AfterDelete
    <3>2. want' \in Wants /\ updated' \in BOOLEAN /\ old' \in Auths \cup {"legacy", None}
      BY DEF TypeOK, Auths, Providers
    <3>3. config' \in Drivers \cup {None} /\ identity' \in Identities \cup {None}
      BY DEF TypeOK, Wants
    <3>4. registered' \in BOOLEAN /\ driver' \in Drivers \cup {None}
      BY DEF TypeOK, Wants
    <3>5. profiles' \in [ProviderAuths -> {"absent", "ours", "drifted"}]
      BY DEF TypeOK
    <3>6. prov' \in Providers \cup {None}
      BY DEF TypeOK
    <3>7. box' \in Boxes \cup {None}
      BY DEF TypeOK
    <3>8. cut' \subseteq Windows
      BY DEF TypeOK, Windows
    <3>9. processes' \in 0..MaxProcesses /\ faults' \in 0..MaxFaults
      BY DEF TypeOK, bounds
    <3> QED
      BY <3>1, <3>2, <3>3, <3>4, <3>5, <3>6, <3>7, <3>8, <3>9 DEF TypeOK
  <2>2. GatewayUp' /\ GatewayKnown'
    BY DEF GatewayUp, GatewayKnown, OneAtATime
  <2>3. ProviderKnown' /\ OneAtATime'
    BY DEF ProviderKnown, OneAtATime, GatewayUp
  <2>4. ProviderFits' /\ TokenKnown'
    BY DEF ProviderFits, ProviderKnown, OneAtATime, TokenKnown
  <2>5. BoxFits'
    BY DEF BoxFits, ProviderFits, ProviderKnown, OneAtATime, IdentityDescribesSandbox
  <2>6. DriftKnown'
    BY DEF DriftKnown, BoxFits, ProviderFits, ProviderKnown, OneAtATime
  <2>7. IdentityDescribesSandbox'
    BY DEF IdentityDescribesSandbox, BoxFits, OneAtATime
  <2> QED
    BY <2>1, <2>2, <2>3, <2>4, <2>5, <2>6, <2>7
<1>16. CASE DeleteProvider
  <2> USE <1>16 DEF DeleteProvider
  <2>1. TypeOK'
    BY DEF TypeOK, Wants, Identities, Providers, Boxes, Calls, Exits, Windows, Auths,
       bounds, GatewayUp, OneAtATime, ProviderKnown
  <2>2. GatewayUp' /\ GatewayKnown'
    BY DEF GatewayUp, GatewayKnown, OneAtATime
  <2>3. ProviderKnown' /\ OneAtATime'
    BY DEF ProviderKnown, OneAtATime, GatewayUp
  <2>4. ProviderFits' /\ TokenKnown'
    BY DEF ProviderFits, ProviderKnown, OneAtATime, TokenKnown
  <2>5. BoxFits'
    BY DEF BoxFits, ProviderFits, ProviderKnown, OneAtATime, IdentityDescribesSandbox
  <2>6. DriftKnown'
    BY DEF DriftKnown, BoxFits, ProviderFits, ProviderKnown, OneAtATime
  <2>7. IdentityDescribesSandbox'
    BY DEF IdentityDescribesSandbox, BoxFits, OneAtATime
  <2> QED
    BY <2>1, <2>2, <2>3, <2>4, <2>5, <2>6, <2>7
<1>17. CASE SetupProvider
  <2> USE <1>17 DEF SetupProvider, CutToken, Stored, Refreshed, Fingerprint
  <2>0. /\ pc = "provider" /\ (box = None \/ "box" \in cut) /\ box' = box /\ want' = want /\ identity' = identity
        /\ old' = old /\ updated' = updated /\ then' = then
        /\ \/ ~Requires(want.auth) /\ pc' = "clear" /\ prov' = prov
              /\ profiles' = profiles /\ cut' = cut
           \/ /\ Requires(want.auth) /\ prov # None /\ profiles' = profiles /\ cut' = cut
              /\ \/ pc' = "clear" /\ prov' = Refreshed
                 \/ pc' = "none" /\ prov' \in {prov, Refreshed}
           \/ /\ Requires(want.auth) /\ prov # None /\ pc' = "none" /\ prov' = prov /\ cut' = cut
              /\ profiles' = [profiles EXCEPT ![want.auth] = "ours"]
           \/ /\ Requires(want.auth) /\ prov = None
              /\ profiles' = [profiles EXCEPT ![want.auth] = "ours"]
              /\ \/ /\ pc' = (IF want.auth \in Minted THEN "configure" ELSE "clear")
                    /\ prov' = Stored /\ cut' = cut
                 \/ pc' = "none" /\ prov' \in {None, Stored} /\ CutToken
    BY DEF OneAtATime
  <2>a. prov # None =>
          /\ Refreshed \in Providers /\ Refreshed.auth = prov.auth
          /\ Refreshed.minted = prov.minted
          /\ Refreshed.key = IF want.auth \in Keyed THEN want.key ELSE prov.key
    BY DEF TypeOK, Providers, Wants
  <2>b. Requires(want.auth) =>
          /\ Stored \in Providers /\ Stored.auth = want.auth
          /\ Stored.key = Fingerprint(want) /\ (Stored.minted <=> want.auth \notin Minted)
    BY DEF TypeOK, Providers, Wants
  <2>c. profiles \in [ProviderAuths -> {"absent", "ours", "drifted"}]
    BY DEF TypeOK
  <2>1. TypeOK'
    <3>1. pc' \in Calls \cup {"none"} /\ then' \in Exits
      BY <2>0 DEF TypeOK, Calls, Exits
    <3>2. want' \in Wants /\ updated' \in BOOLEAN /\ old' \in Auths \cup {"legacy", None}
      BY DEF TypeOK, Auths, Providers
    <3>3. config' \in Drivers \cup {None} /\ identity' \in Identities \cup {None}
      BY DEF TypeOK, Wants
    <3>4. registered' \in BOOLEAN /\ driver' \in Drivers \cup {None}
      BY DEF TypeOK, Wants
    <3>5. profiles' \in [ProviderAuths -> {"absent", "ours", "drifted"}]
      BY DEF TypeOK
    <3>6. prov' \in Providers \cup {None}
      <4> HIDE DEF Refreshed, Stored
      <4> QED
        BY <2>0, <2>a, <2>b DEF TypeOK
    <3>7. box' \in Boxes \cup {None}
      BY DEF TypeOK
    <3>8. cut' \subseteq Windows
      BY DEF TypeOK, Windows
    <3>9. processes' \in 0..MaxProcesses /\ faults' \in 0..MaxFaults
      BY DEF TypeOK, bounds
    <3> QED
      BY <3>1, <3>2, <3>3, <3>4, <3>5, <3>6, <3>7, <3>8, <3>9 DEF TypeOK
  <2>2. GatewayUp' /\ GatewayKnown'
    BY DEF GatewayUp, GatewayKnown, OneAtATime
  <2>3. ProviderKnown' /\ OneAtATime'
    <3> HIDE <1>17
    <3> HIDE DEF Refreshed, Stored
    <3> QED
      BY <2>0, <2>a, <2>b DEF ProviderKnown, OneAtATime
  <2>4. ProviderFits' /\ TokenKnown'
    <3> HIDE <1>17
    <3> HIDE DEF Refreshed, Stored, CutToken
    <3>1. CutToken => "query" \in cut' \/ "query" \notin cut
      BY DEF CutToken
    <3>2. CutToken /\ want.auth \in Minted => "token" \in cut'
      BY DEF CutToken
    <3>3. CutToken => cut \subseteq cut'
      BY DEF CutToken
    <3>4. TokenKnown'
      BY <2>0, <2>a, <2>b, <3>2, <3>3 DEF TokenKnown
    <3>5. ProviderFits'
      BY <2>0, <2>a, <2>b, <2>c, <3>3 DEF ProviderFits
    <3> QED
      BY <3>4, <3>5
  <2>5. BoxFits'
    BY DEF BoxFits, ProviderFits, ProviderKnown, OneAtATime, IdentityDescribesSandbox
  <2>6. DriftKnown'
    BY DEF DriftKnown, BoxFits, ProviderFits, ProviderKnown, OneAtATime
  <2>7. IdentityDescribesSandbox'
    BY DEF IdentityDescribesSandbox, BoxFits, OneAtATime
  <2> QED
    BY <2>1, <2>2, <2>3, <2>4, <2>5, <2>6, <2>7
<1>18. CASE Configure
  <2> USE <1>18 DEF Configure, CutToken
  <2>0. /\ pc = "configure" /\ (box = None \/ "box" \in cut) /\ prov \in Providers /\ Requires(want.auth)
        /\ box' = box /\ want' = want /\ identity' = identity /\ profiles' = profiles
        /\ old' = old /\ updated' = updated
        /\ \/ pc' = "rotate" /\ prov' = [prov EXCEPT !.minted = TRUE] /\ cut' = cut
           \/ pc' = "none" /\ prov' \in {prov, [prov EXCEPT !.minted = TRUE]} /\ CutToken
    BY DEF OneAtATime, TypeOK
  <2>a. /\ [prov EXCEPT !.minted = TRUE] \in Providers
        /\ prov'.auth = prov.auth /\ prov'.key = prov.key /\ prov' # None
        /\ prov'.minted = prov.minted \/ prov'.minted = TRUE
        /\ pc' = "rotate" => prov'.minted
    BY <2>0 DEF Providers
  <2>b. CutToken => cut \subseteq cut' /\ (want.auth \in Minted => "token" \in cut')
    OBVIOUS
  <2>1. TypeOK'
    <3>1. pc' \in Calls \cup {"none"} /\ then' \in Exits
      BY DEF TypeOK, Calls, Exits
    <3>2. want' \in Wants /\ updated' \in BOOLEAN /\ old' \in Auths \cup {"legacy", None}
      BY DEF TypeOK, Auths, Providers
    <3>3. config' \in Drivers \cup {None} /\ identity' \in Identities \cup {None}
      BY DEF TypeOK, Wants
    <3>4. registered' \in BOOLEAN /\ driver' \in Drivers \cup {None}
      BY DEF TypeOK, Wants
    <3>5. profiles' \in [ProviderAuths -> {"absent", "ours", "drifted"}]
      BY DEF TypeOK
    <3>6. prov' \in Providers \cup {None}
      BY <2>0, <2>a DEF TypeOK
    <3>7. box' \in Boxes \cup {None}
      BY DEF TypeOK
    <3>8. cut' \subseteq Windows
      BY DEF TypeOK, Windows
    <3>9. processes' \in 0..MaxProcesses /\ faults' \in 0..MaxFaults
      BY DEF TypeOK, bounds
    <3> QED
      BY <3>1, <3>2, <3>3, <3>4, <3>5, <3>6, <3>7, <3>8, <3>9 DEF TypeOK
  <2>2. GatewayUp' /\ GatewayKnown'
    BY DEF GatewayUp, GatewayKnown, OneAtATime
  <2>3. ProviderKnown' /\ OneAtATime'
    <3> HIDE <1>18
    <3> QED
      BY <2>0, <2>a DEF ProviderKnown, OneAtATime
  <2>4. ProviderFits' /\ TokenKnown'
    <3> HIDE <1>18
    <3> HIDE DEF CutToken
    <3>1. ProviderFits'
      BY <2>0, <2>a, <2>b DEF ProviderFits
    <3>2. TokenKnown'
      BY <2>0, <2>a, <2>b DEF TokenKnown, OneAtATime
    <3> QED
      BY <3>1, <3>2
  <2>5. BoxFits'
    BY DEF BoxFits, ProviderFits, ProviderKnown, OneAtATime, IdentityDescribesSandbox
  <2>6. DriftKnown'
    BY DEF DriftKnown, BoxFits, ProviderFits, ProviderKnown, OneAtATime
  <2>7. IdentityDescribesSandbox'
    BY DEF IdentityDescribesSandbox, BoxFits, OneAtATime
  <2> QED
    BY <2>1, <2>2, <2>3, <2>4, <2>5, <2>6, <2>7
<1>19. CASE Rotate
  <2> USE <1>19 DEF Rotate
  <2>1. TypeOK'
    BY DEF TypeOK, Wants, Identities, Providers, Boxes, Calls, Exits, Windows, Auths,
       bounds, GatewayUp, OneAtATime, ProviderKnown
  <2>2. GatewayUp' /\ GatewayKnown'
    BY DEF GatewayUp, GatewayKnown, OneAtATime
  <2>3. ProviderKnown' /\ OneAtATime'
    BY DEF ProviderKnown, OneAtATime, GatewayUp
  <2>4. ProviderFits' /\ TokenKnown'
    BY DEF ProviderFits, ProviderKnown, OneAtATime, TokenKnown
  <2>5. BoxFits'
    BY DEF BoxFits, ProviderFits, ProviderKnown, OneAtATime, IdentityDescribesSandbox
  <2>6. DriftKnown'
    BY DEF DriftKnown, BoxFits, ProviderFits, ProviderKnown, OneAtATime
  <2>7. IdentityDescribesSandbox'
    BY DEF IdentityDescribesSandbox, BoxFits, OneAtATime
  <2> QED
    BY <2>1, <2>2, <2>3, <2>4, <2>5, <2>6, <2>7
<1>20. CASE ClearIdentity
  <2> USE <1>20 DEF ClearIdentity
  <2>1. TypeOK'
    BY DEF TypeOK, Wants, Identities, Providers, Boxes, Calls, Exits, Windows, Auths,
       bounds, GatewayUp, OneAtATime, ProviderKnown
  <2>2. GatewayUp' /\ GatewayKnown'
    BY DEF GatewayUp, GatewayKnown, OneAtATime
  <2>3. ProviderKnown' /\ OneAtATime'
    BY DEF ProviderKnown, OneAtATime, GatewayUp
  <2>4. ProviderFits' /\ TokenKnown'
    BY DEF ProviderFits, ProviderKnown, OneAtATime, TokenKnown
  <2>5. BoxFits'
    BY DEF BoxFits, ProviderFits, ProviderKnown, OneAtATime, IdentityDescribesSandbox
  <2>6. DriftKnown'
    BY DEF DriftKnown, BoxFits, ProviderFits, ProviderKnown, OneAtATime
  <2>7. IdentityDescribesSandbox'
    BY DEF IdentityDescribesSandbox, BoxFits, OneAtATime
  <2> QED
    BY <2>1, <2>2, <2>3, <2>4, <2>5, <2>6, <2>7
<1>21. CASE Create
  <2> USE <1>21 DEF Create, NewBox
  <2>0. /\ driver \in Drivers /\ identity = None /\ pc = "create"
        /\ Requires(want.auth) => prov \in Providers
    BY DEF GatewayUp, OneAtATime, TypeOK
  <2>a. NewBox \in Boxes
    BY <2>0 DEF TypeOK, Boxes, Wants, Providers
  <2>b. /\ NewBox.auth = want.auth /\ NewBox.spec = want.spec /\ NewBox.driver = driver
        /\ NewBox.key = IF Requires(want.auth) THEN prov.key ELSE None
        /\ NewBox.drifted <=> (Requires(want.auth) /\ profiles[want.auth] # "ours")
    OBVIOUS
  <2> HIDE DEF NewBox
  <2>1. TypeOK'
    <3>1. pc' \in Calls \cup {"none"} /\ then' \in Exits
      BY DEF TypeOK, Calls, Exits
    <3>2. want' \in Wants /\ updated' \in BOOLEAN /\ old' \in Auths \cup {"legacy", None}
      BY DEF TypeOK, Auths, Providers
    <3>3. config' \in Drivers \cup {None} /\ identity' \in Identities \cup {None}
      BY DEF TypeOK, Wants
    <3>4. registered' \in BOOLEAN /\ driver' \in Drivers \cup {None}
      BY DEF TypeOK, Wants
    <3>5. profiles' \in [ProviderAuths -> {"absent", "ours", "drifted"}]
      BY DEF TypeOK
    <3>6. prov' \in Providers \cup {None}
      BY DEF TypeOK
    <3>7. box' \in Boxes \cup {None}
      BY <2>a DEF TypeOK
    <3>8. cut' \subseteq Windows
      BY DEF TypeOK, Windows
    <3>9. processes' \in 0..MaxProcesses /\ faults' \in 0..MaxFaults
      BY DEF TypeOK, bounds
    <3> QED
      BY <3>1, <3>2, <3>3, <3>4, <3>5, <3>6, <3>7, <3>8, <3>9 DEF TypeOK
  <2>2. GatewayUp' /\ GatewayKnown'
    BY <2>0, <2>a, <2>b DEF GatewayUp, GatewayKnown
  <2>3. ProviderKnown' /\ OneAtATime'
    BY DEF ProviderKnown, OneAtATime, GatewayUp
  <2>4. ProviderFits' /\ TokenKnown'
    BY DEF ProviderFits, ProviderKnown, OneAtATime, TokenKnown
  <2>5. BoxFits'
    <3>1. Requires(want.auth) => prov # None
      BY <2>0 DEF OneAtATime
    <3>2. "query" \notin cut =>
            /\ NewBox.key = Fingerprint(want)
            /\ Requires(want.auth) => prov.auth = want.auth
      BY <2>0, <2>b, <3>1 DEF ProviderFits, TypeOK, Wants, Auths
    <3> QED
      BY <2>0, <2>a, <2>b, <3>1, <3>2 DEF BoxFits
  <2>6. DriftKnown'
    <3>1. "query" \notin cut /\ Requires(want.auth) => ~NewBox.drifted
      BY <2>0, <2>b DEF ProviderFits
    <3> QED
      BY <2>0, <2>a, <2>b, <3>1 DEF DriftKnown
  <2>7. IdentityDescribesSandbox'
    BY DEF IdentityDescribesSandbox, BoxFits, OneAtATime
  <2> QED
    BY <2>1, <2>2, <2>3, <2>4, <2>5, <2>6, <2>7
<1>22. CASE Prepare
  <2> USE <1>22 DEF Prepare
  <2>0. box \in Boxes /\ pc = "prepare"
    BY DEF BoxFits, TypeOK
  <2>a. /\ [box EXCEPT !.done = TRUE] \in Boxes
        /\ box' # None /\ box'.auth = box.auth /\ box'.spec = box.spec /\ box'.key = box.key
        /\ box'.driver = box.driver /\ box'.drifted = box.drifted
        /\ pc' = "save" => box'.done
    BY <2>0 DEF Boxes
  <2>1. TypeOK'
    <3>1. pc' \in Calls \cup {"none"} /\ then' \in Exits
      BY DEF TypeOK, Calls, Exits
    <3>2. want' \in Wants /\ updated' \in BOOLEAN /\ old' \in Auths \cup {"legacy", None}
      BY DEF TypeOK, Auths, Providers
    <3>3. config' \in Drivers \cup {None} /\ identity' \in Identities \cup {None}
      BY DEF TypeOK, Wants
    <3>4. registered' \in BOOLEAN /\ driver' \in Drivers \cup {None}
      BY DEF TypeOK, Wants
    <3>5. profiles' \in [ProviderAuths -> {"absent", "ours", "drifted"}]
      BY DEF TypeOK
    <3>6. prov' \in Providers \cup {None}
      BY DEF TypeOK
    <3>7. box' \in Boxes \cup {None}
      BY <2>0, <2>a DEF TypeOK
    <3>8. cut' \subseteq Windows
      BY DEF TypeOK, Windows
    <3>9. processes' \in 0..MaxProcesses /\ faults' \in 0..MaxFaults
      BY DEF TypeOK, bounds
    <3> QED
      BY <3>1, <3>2, <3>3, <3>4, <3>5, <3>6, <3>7, <3>8, <3>9 DEF TypeOK
  <2>2. GatewayUp' /\ GatewayKnown'
    BY <2>0, <2>a DEF GatewayUp, GatewayKnown
  <2>3. ProviderKnown' /\ OneAtATime'
    BY DEF ProviderKnown, OneAtATime, GatewayUp
  <2>4. ProviderFits' /\ TokenKnown'
    BY DEF ProviderFits, ProviderKnown, OneAtATime, TokenKnown
  <2>5. BoxFits'
    BY <2>0, <2>a DEF BoxFits
  <2>6. DriftKnown'
    BY <2>0, <2>a DEF DriftKnown
  <2>7. IdentityDescribesSandbox'
    BY DEF IdentityDescribesSandbox, BoxFits, OneAtATime
  <2> QED
    BY <2>1, <2>2, <2>3, <2>4, <2>5, <2>6, <2>7
<1>23. CASE SaveIdentity
  <2> USE <1>23 DEF SaveIdentity
  <2>1. TypeOK'
    BY DEF TypeOK, Wants, Identities, Providers, Boxes, Calls, Exits, Windows, Auths,
       bounds, GatewayUp, OneAtATime, ProviderKnown
  <2>2. GatewayUp' /\ GatewayKnown'
    BY DEF GatewayUp, GatewayKnown, OneAtATime
  <2>3. ProviderKnown' /\ OneAtATime'
    BY DEF ProviderKnown, OneAtATime, GatewayUp
  <2>4. ProviderFits' /\ TokenKnown'
    BY DEF ProviderFits, ProviderKnown, OneAtATime, TokenKnown
  <2>5. BoxFits'
    BY DEF BoxFits, ProviderFits, ProviderKnown, OneAtATime, IdentityDescribesSandbox
  <2>6. DriftKnown'
    BY DEF DriftKnown, BoxFits, ProviderFits, ProviderKnown, OneAtATime
  <2>7. IdentityDescribesSandbox'
    BY DEF IdentityDescribesSandbox, BoxFits, OneAtATime
  <2> QED
    BY <2>1, <2>2, <2>3, <2>4, <2>5, <2>6, <2>7
<1>24. CASE BeginRun
  <2> USE <1>24 DEF BeginRun
  <2>1. TypeOK'
    BY DEF TypeOK, Wants, Identities, Providers, Boxes, Calls, Exits, Windows, Auths,
       bounds, GatewayUp, OneAtATime, ProviderKnown
  <2>2. GatewayUp' /\ GatewayKnown'
    BY DEF GatewayUp, GatewayKnown, OneAtATime
  <2>3. ProviderKnown' /\ OneAtATime'
    BY DEF ProviderKnown, OneAtATime, GatewayUp
  <2>4. ProviderFits' /\ TokenKnown'
    BY DEF ProviderFits, ProviderKnown, OneAtATime, TokenKnown
  <2>5. BoxFits'
    BY DEF BoxFits, ProviderFits, ProviderKnown, OneAtATime, IdentityDescribesSandbox
  <2>6. DriftKnown'
    BY DEF DriftKnown, BoxFits, ProviderFits, ProviderKnown, OneAtATime
  <2>7. IdentityDescribesSandbox'
    BY DEF IdentityDescribesSandbox, BoxFits, OneAtATime
  <2> QED
    BY <2>1, <2>2, <2>3, <2>4, <2>5, <2>6, <2>7
<1>25. CASE RunEnds
  <2> USE <1>25 DEF RunEnds
  <2>1. TypeOK'
    BY DEF TypeOK, Wants, Identities, Providers, Boxes, Calls, Exits, Windows, Auths,
       bounds, GatewayUp, OneAtATime, ProviderKnown
  <2>2. GatewayUp' /\ GatewayKnown'
    BY DEF GatewayUp, GatewayKnown, OneAtATime
  <2>3. ProviderKnown' /\ OneAtATime'
    BY DEF ProviderKnown, OneAtATime, GatewayUp
  <2>4. ProviderFits' /\ TokenKnown'
    BY DEF ProviderFits, ProviderKnown, OneAtATime, TokenKnown
  <2>5. BoxFits'
    BY DEF BoxFits, ProviderFits, ProviderKnown, OneAtATime, IdentityDescribesSandbox
  <2>6. DriftKnown'
    BY DEF DriftKnown, BoxFits, ProviderFits, ProviderKnown, OneAtATime
  <2>7. IdentityDescribesSandbox'
    BY DEF IdentityDescribesSandbox, BoxFits, OneAtATime
  <2> QED
    BY <2>1, <2>2, <2>3, <2>4, <2>5, <2>6, <2>7
<1>26. CASE Keep
  <2> USE <1>26 DEF Keep
  <2>1. TypeOK'
    BY DEF TypeOK, Wants, Identities, Providers, Boxes, Calls, Exits, Windows, Auths,
       bounds, GatewayUp, OneAtATime, ProviderKnown
  <2>2. GatewayUp' /\ GatewayKnown'
    BY DEF GatewayUp, GatewayKnown, OneAtATime
  <2>3. ProviderKnown' /\ OneAtATime'
    BY DEF ProviderKnown, OneAtATime, GatewayUp
  <2>4. ProviderFits' /\ TokenKnown'
    BY DEF ProviderFits, ProviderKnown, OneAtATime, TokenKnown
  <2>5. BoxFits'
    BY DEF BoxFits, ProviderFits, ProviderKnown, OneAtATime, IdentityDescribesSandbox
  <2>6. DriftKnown'
    BY DEF DriftKnown, BoxFits, ProviderFits, ProviderKnown, OneAtATime
  <2>7. IdentityDescribesSandbox'
    BY DEF IdentityDescribesSandbox, BoxFits, OneAtATime
  <2> QED
    BY <2>1, <2>2, <2>3, <2>4, <2>5, <2>6, <2>7
<1>27. CASE Stop
  <2> USE <1>27 DEF Stop
  <2>1. TypeOK'
    BY DEF TypeOK, Wants, Identities, Providers, Boxes, Calls, Exits, Windows, Auths,
       bounds, GatewayUp, OneAtATime, ProviderKnown
  <2>2. GatewayUp' /\ GatewayKnown'
    BY DEF GatewayUp, GatewayKnown, OneAtATime
  <2>3. ProviderKnown' /\ OneAtATime'
    BY DEF ProviderKnown, OneAtATime, GatewayUp
  <2>4. ProviderFits' /\ TokenKnown'
    BY DEF ProviderFits, ProviderKnown, OneAtATime, TokenKnown
  <2>5. BoxFits'
    BY DEF BoxFits, ProviderFits, ProviderKnown, OneAtATime, IdentityDescribesSandbox
  <2>6. DriftKnown'
    BY DEF DriftKnown, BoxFits, ProviderFits, ProviderKnown, OneAtATime
  <2>7. IdentityDescribesSandbox'
    BY DEF IdentityDescribesSandbox, BoxFits, OneAtATime
  <2> QED
    BY <2>1, <2>2, <2>3, <2>4, <2>5, <2>6, <2>7
<1>29. CASE FindGateway
  <2> USE <1>29 DEF FindGateway, Running
  <2>1. TypeOK'
    <3>1. pc' \in Calls \cup {"none"} /\ then' \in Exits
      BY DEF TypeOK, Calls, Exits
    <3>2. want' \in Wants /\ updated' \in BOOLEAN /\ old' \in Auths \cup {"legacy", None}
      BY DEF TypeOK, Auths, Providers
    <3>3. config' \in Drivers \cup {None} /\ identity' \in Identities \cup {None}
      BY DEF TypeOK, Wants
    <3>4. registered' \in BOOLEAN /\ driver' \in Drivers \cup {None}
      BY DEF TypeOK, Wants
    <3>5. profiles' \in [ProviderAuths -> {"absent", "ours", "drifted"}]
      BY DEF TypeOK
    <3>6. prov' \in Providers \cup {None}
      BY DEF TypeOK
    <3>7. box' \in Boxes \cup {None}
      BY DEF TypeOK
    <3>8. cut' \subseteq Windows
      BY DEF TypeOK, Windows
    <3>9. processes' \in 0..MaxProcesses /\ faults' \in 0..MaxFaults
      BY DEF TypeOK, bounds
    <3> QED
      BY <3>1, <3>2, <3>3, <3>4, <3>5, <3>6, <3>7, <3>8, <3>9 DEF TypeOK
  <2>2. GatewayUp' /\ GatewayKnown'
    BY DEF GatewayUp, GatewayKnown, OneAtATime
  <2>3. ProviderKnown' /\ OneAtATime'
    BY DEF ProviderKnown, OneAtATime, GatewayUp
  <2>4. ProviderFits' /\ TokenKnown'
    BY DEF ProviderFits, ProviderKnown, OneAtATime, TokenKnown
  <2>5. BoxFits'
    BY DEF BoxFits, ProviderFits, ProviderKnown, OneAtATime, IdentityDescribesSandbox
  <2>6. DriftKnown'
    BY DEF DriftKnown, BoxFits, ProviderFits, ProviderKnown, OneAtATime
  <2>7. IdentityDescribesSandbox'
    BY DEF IdentityDescribesSandbox, BoxFits, OneAtATime
  <2> QED
    BY <2>1, <2>2, <2>3, <2>4, <2>5, <2>6, <2>7
<1>28. CASE UNCHANGED vars
  BY <1>28 DEF vars, bounds, TypeOK, GatewayUp, GatewayKnown, ProviderKnown, ProviderFits,
     OneAtATime, BoxFits, DriftKnown, TokenKnown, IdentityDescribesSandbox
<1> QED
  BY <1>1, <1>2, <1>3, <1>4, <1>5, <1>6, <1>7, <1>8, <1>9, <1>10, <1>11, <1>12, <1>13,
     <1>14, <1>15, <1>16, <1>17, <1>18, <1>19, <1>20, <1>21, <1>22, <1>23, <1>24, <1>25,
     <1>26, <1>27, <1>28, <1>29 DEF Next

-----------------------------------------------------------------------------
(* What an agent can rely on                                               *)

\* At every call the invariant says what a run relies on.
LEMMA RunRelies ==
  ASSUME IInv
  PROVE  AgentsSandboxFits /\ DriverAsConfigured /\ DriftedNotReused /\ TokenBehindAgent
<1> USE ConstantsAssumption, NoneAssumption DEF IInv, OnGateway, NewOne, InUse, Requires
<1>1. AgentsSandboxFits
  BY DEF AgentsSandboxFits, BoxFits
<1>2. DriverAsConfigured
  BY DEF DriverAsConfigured, GatewayUp, GatewayKnown, BoxFits
<1>3. DriftedNotReused
  BY DEF DriftedNotReused, DriftKnown, BoxFits
<1>4. TokenBehindAgent
  BY DEF TokenBehindAgent, TokenKnown, BoxFits
<1> QED
  BY <1>1, <1>2, <1>3, <1>4

\* In every state that setup(), run() and stop() of one process after the other
\* can reach, whatever fails, the invariant holds.
THEOREM Invariant == Spec => []IInv
<1> QED
  BY InitIInv, NextIInv, PTL DEF Spec

\* Every variable keeps its type: no call stores an identity, a provider or a
\* sandbox that is not made of what a caller asked for.
THEOREM LifecycleTyped == Spec => []TypeOK
<1>1. IInv => TypeOK
  BY DEF IInv
<1> QED
  BY Invariant, <1>1, PTL

\* OpenShellBackend.setup hands an agent only a sandbox that was completed for
\* its auth mode and spec; where no query for the provider failed, one made with
\* its key; and where none missed the sandbox either, at a provider that still
\* has this key.
THEOREM AgentsFit == Spec => []AgentsSandboxFits
<1>1. IInv => AgentsSandboxFits
  BY RunRelies
<1> QED
  BY Invariant, <1>1, PTL

\* _clear_identity before create() and _save_identity after everything: the
\* identity on the disk is that of the sandbox the gateway has, if it has one.
THEOREM IdentityTrue == Spec => []IdentityDescribesSandbox
<1>1. IInv => IdentityDescribesSandbox
  BY DEF IInv
<1> QED
  BY Invariant, <1>1, PTL

\* is_running, config_is_current and is_running again: outside the "gateway"
\* window, and for a process whose first question was answered, an agent's
\* sandbox is of the driver images the process wants.
THEOREM DriverFits == Spec => []DriverAsConfigured
<1>1. IInv => DriverAsConfigured
  BY RunRelies
<1> QED
  BY Invariant, <1>1, PTL

\* ensure_profile and profile_updated: a sandbox that ran under a profile other
\* than the packaged one gets no other agent, outside the windows it names.
THEOREM DriftAvoided == Spec => []DriftedNotReused
<1>1. IInv => DriftedNotReused
  BY RunRelies
<1> QED
  BY Invariant, <1>1, PTL

\* _configure_refresh raises: behind an agent is a provider that mints, unless
\* a process ended between the two calls.
THEOREM TokenReady == Spec => []TokenBehindAgent
<1>1. IInv => TokenBehindAgent
  BY RunRelies
<1> QED
  BY Invariant, <1>1, PTL

=============================================================================
