------------------------- MODULE RemoteServices_proofs -------------------------
(***************************************************************************)
(* What the remote services a run reports to may be relied on for: the git *)
(* remote, Jira and the forge, for any number of calls, sends and pages,   *)
(* and whatever others do there meanwhile.                                 *)
(***************************************************************************)
EXTENDS GitPush, JiraClient, ForgeClient, SequenceTheorems, TLAPS

-----------------------------------------------------------------------------
(***************************************************************************)
(* push_branch.  The invariant adds what an update under way, and one that *)
(* was given up on, remembers of the lease it was made under.              *)
(***************************************************************************)

PushSpec == PushInit /\ [][PushNext]_pushVars

\* A call that is under way has not answered.
CallOpen == push.pc # "idle" => pushed = "none"

\* An attempt is made only while one is left.
AttemptsLeft == push.pc = "attempt" => push.tries < MaxAttempts

\* What the remote branch is now is among what it was during the call.
RemoteRemembered == remote \in been

\* An update asks for what git read, which is what its lease names.
UpdateUnderLease == push.pc = "update" => push.lease \in {Tracking, push.seen}
LateUnderLease == \A u \in late : u.lease \in {Tracking, u.old}

PushInv ==
  /\ PushTypeOK
  /\ CallOpen
  /\ AttemptsLeft
  /\ RemoteRemembered
  /\ UpdateUnderLease
  /\ LateUnderLease
  /\ SuccessMeansPushed

\* The step that replaces the remote branch, as PinnedLeaseHeld names it.
LeaseStep ==
  remote' # remote /\ remote' \in Ours =>
    \/ push.pc = "update" /\ remote' = head /\ push.lease \in {Tracking, remote}
    \/ \E u \in late : remote' = u.new /\ u.lease \in {Tracking, remote}

\* The program starts where the invariant holds.
LEMMA InitPushInv == PushInit => PushInv
<1> SUFFICES ASSUME PushInit PROVE PushInv
  OBVIOUS
<1>1. PushTypeOK
  BY GitPushAssumption DEF PushInit, PushTypeOK, Refs, Leases, Updates
<1>2. CallOpen /\ AttemptsLeft /\ RemoteRemembered /\ UpdateUnderLease /\ LateUnderLease /\ SuccessMeansPushed
  BY DEF PushInit, CallOpen, AttemptsLeft, RemoteRemembered, UpdateUnderLease, LateUnderLease,
         SuccessMeansPushed
<1> QED
  BY <1>1, <1>2 DEF PushInv

\* A call that returns or tries again keeps the shape of the call.
LEMMA Continues ==
  ASSUME PushInv, push.pc = "update", Retries
  PROVE  /\ push' \in [pc : {"idle", "attempt", "update"}, lease : Leases, seen : Refs,
                       tries : 0..MaxAttempts]
         /\ push'.pc \in {"idle", "attempt"}
         /\ push'.pc = "attempt" => push'.tries < MaxAttempts
         /\ pushed' \in {"none", "true", "false"}
         /\ pushed' # "true"
         /\ push'.pc = "attempt" => pushed' = pushed
<1>1. CASE push.tries < MaxAttempts
  <2>1. push' = [push EXCEPT !.pc = "attempt"] /\ pushed' = pushed
    BY <1>1 DEF Retries
  <2> QED
    BY <1>1, <2>1 DEF PushInv, PushTypeOK, CallOpen
<1>2. CASE ~(push.tries < MaxAttempts)
  <2>1. push' = [push EXCEPT !.pc = "idle"] /\ pushed' = "false"
    BY <1>2 DEF Retries, Returns
  <2> QED
    BY <2>1 DEF PushInv, PushTypeOK
<1> QED
  BY <1>1, <1>2

\* Every step of the call, of others and of late updates keeps the invariant.
LEMMA StepPushInv == PushInv /\ [PushNext]_pushVars => PushInv'
<1> SUFFICES ASSUME PushInv, [PushNext]_pushVars PROVE PushInv'
  OBVIOUS
<1> USE GitPushAssumption
<1> USE DEF PushInv
<1>1. CASE PushBranch
  <2>1. CASE pushed' = "false" /\ UNCHANGED push
    BY <1>1, <2>1 DEF PushBranch, PushTypeOK, CallOpen, AttemptsLeft, RemoteRemembered,
       UpdateUnderLease, LateUnderLease, SuccessMeansPushed
  <2>2. ASSUME NEW lease \in Leases, pushed' = "none",
               push' = [pc |-> "attempt", lease |-> lease, seen |-> Absent, tries |-> 0]
        PROVE PushInv'
    BY <1>1, <2>2 DEF PushBranch, PushTypeOK, CallOpen, AttemptsLeft, RemoteRemembered,
       UpdateUnderLease, LateUnderLease, SuccessMeansPushed, Refs
  <2> QED
    BY <1>1, <2>1, <2>2 DEF PushBranch
<1>2. CASE Attempt
  <2>1. PushTypeOK'
    <3>1. CASE remote = Expected /\ push' = [push EXCEPT !.pc = "update", !.seen = remote,
                                                        !.tries = @ + 1]
      <4>1. push.tries + 1 \in 0..MaxAttempts
        BY <1>2 DEF Attempt, AttemptsLeft, PushTypeOK
      <4>2. push' \in [pc : {"idle", "attempt", "update"}, lease : Leases, seen : Refs,
                       tries : 0..MaxAttempts]
        BY <3>1, <4>1 DEF PushTypeOK
      <4> QED
        BY <1>2, <3>1, <4>2 DEF Attempt, Returns, PushTypeOK, Refs
    <3>2. CASE \E told \in {"true", "false"} : Returns(told)
      BY <1>2, <3>2 DEF Attempt, Returns, PushTypeOK, Refs
    <3> QED
      BY <1>2, <3>1, <3>2 DEF Attempt
  <2>2. UpdateUnderLease'
    BY <1>2 DEF Attempt, Returns, Expected, PushTypeOK, UpdateUnderLease
  <2>3. (CallOpen /\ AttemptsLeft /\ RemoteRemembered /\ LateUnderLease /\ SuccessMeansPushed)'
    BY <1>2 DEF Attempt, Returns, PushTypeOK, CallOpen, AttemptsLeft, RemoteRemembered, LateUnderLease,
       SuccessMeansPushed
  <2> QED
    BY <2>1, <2>2, <2>3
<1>3. CASE Update
  <2>1. push.pc = "update" /\ UNCHANGED <<head, pushes, moves>>
    BY <1>3 DEF Update
  <2>2. CASE remote = push.seen /\ Moves(head) /\ tracking' = head /\ Returns("true") /\ UNCHANGED late
    BY <2>1, <2>2 DEF Moves, Returns, PushTypeOK, CallOpen, AttemptsLeft, RemoteRemembered,
       UpdateUnderLease, LateUnderLease, SuccessMeansPushed, Refs
  <2>3. CASE remote = push.seen /\ Moves(head) /\ Retries /\ UNCHANGED <<tracking, late>>
    BY <2>1, <2>3, Continues DEF Moves, PushTypeOK, CallOpen, AttemptsLeft, RemoteRemembered,
       UpdateUnderLease, LateUnderLease, SuccessMeansPushed, Refs
  <2>4. CASE Retries /\ UNCHANGED <<remote, been, tracking, late>>
    BY <2>1, <2>4, Continues DEF PushTypeOK, CallOpen, AttemptsLeft, RemoteRemembered,
       UpdateUnderLease, LateUnderLease, SuccessMeansPushed
  <2>5. CASE late' = late \cup {ThisUpdate} /\ Retries /\ UNCHANGED <<remote, been, tracking>>
    <3>1. ThisUpdate \in Updates /\ ThisUpdate.lease \in {Tracking, ThisUpdate.old}
      BY <2>1 DEF ThisUpdate, Updates, PushTypeOK, UpdateUnderLease
    <3> QED
      BY <2>1, <2>5, <3>1, Continues DEF PushTypeOK, CallOpen, AttemptsLeft, RemoteRemembered,
         UpdateUnderLease, LateUnderLease, SuccessMeansPushed
  <2>6. CASE Returns("false") /\ UNCHANGED <<remote, been, tracking, late>>
    BY <2>1, <2>6 DEF Returns, PushTypeOK, CallOpen, AttemptsLeft, RemoteRemembered,
       UpdateUnderLease, LateUnderLease, SuccessMeansPushed
  <2> QED
    BY <1>3, <2>2, <2>3, <2>4, <2>5, <2>6 DEF Update
<1>4. CASE Others
  BY <1>4 DEF Others, Moves, PushTypeOK, CallOpen, AttemptsLeft, RemoteRemembered, UpdateUnderLease,
     LateUnderLease, SuccessMeansPushed, Refs
<1>5. CASE TrackingMoves
  BY <1>5 DEF TrackingMoves, PushTypeOK, CallOpen, AttemptsLeft, RemoteRemembered, UpdateUnderLease,
     LateUnderLease, SuccessMeansPushed
<1>6. CASE Commits
  BY <1>6 DEF Commits, PushTypeOK, CallOpen, AttemptsLeft, RemoteRemembered, UpdateUnderLease,
     LateUnderLease, SuccessMeansPushed
<1>7. CASE Lands
  <2>1. PICK u \in late :
          /\ late' = late \ {u}
          /\ \/ u.old = remote /\ Moves(u.new)
             \/ UNCHANGED <<remote, been>>
    BY <1>7 DEF Lands
  <2>2. u.new \in Ours
    BY <2>1 DEF PushTypeOK, Updates
  <2> QED
    BY <1>7, <2>1, <2>2 DEF Lands, Moves, PushTypeOK, CallOpen, AttemptsLeft, RemoteRemembered,
       UpdateUnderLease, LateUnderLease, SuccessMeansPushed, Refs
<1>8. CASE UNCHANGED pushVars
  BY <1>8 DEF pushVars, PushTypeOK, CallOpen, AttemptsLeft, RemoteRemembered, UpdateUnderLease,
     LateUnderLease, SuccessMeansPushed
<1> QED
  BY <1>1, <1>2, <1>3, <1>4, <1>5, <1>6, <1>7, <1>8 DEF PushNext

\* The invariant holds in every reachable state.
LEMMA PushInvHolds == PushSpec => []PushInv
<1> QED
  BY InitPushInv, StepPushInv, PTL DEF PushSpec

\* Every state of a push is well-typed, for any number of calls and attempts.
THEOREM PushTyped == PushSpec => []PushTypeOK
<1>1. PushInv => PushTypeOK
  BY DEF PushInv
<1> QED
  BY <1>1, PushInvHolds, PTL

\* push_branch answers True only if the remote branch was at the local one at
\* some moment of the call, however many answers were lost.
THEOREM SuccessIsTrue == PushSpec => []SuccessMeansPushed
<1>1. PushInv => SuccessMeansPushed
  BY DEF PushInv
<1> QED
  BY <1>1, PushInvHolds, PTL

\* A commit of ours replaces the remote branch only when a pinned lease names
\* what it replaces: in every attempt, and in an update that lands late.
THEOREM LeaseHeld == PushSpec => PinnedLeaseHeld
<1>1. PushInv /\ [PushNext]_pushVars => [LeaseStep]_pushVars
  <2> SUFFICES ASSUME PushInv, PushNext, remote' # remote, remote' \in Ours PROVE LeaseStep
    BY DEF LeaseStep, pushVars
  <2>1. CASE Update
    BY <2>1 DEF Update, Moves, LeaseStep, PushInv, UpdateUnderLease
  <2>2. CASE Lands
    BY <2>2 DEF Lands, Moves, LeaseStep, PushInv, LateUnderLease
  <2>3. CASE Others
    BY <2>3, GitPushAssumption DEF Others, Moves
  <2>4. CASE PushBranch \/ Attempt \/ TrackingMoves \/ Commits
    BY <2>4 DEF PushBranch, Attempt, TrackingMoves, Commits
  <2> QED
    BY <2>1, <2>2, <2>3, <2>4 DEF PushNext
<1> QED
  BY <1>1, PushInvHolds, PTL DEF PushSpec, PinnedLeaseHeld, LeaseStep

-----------------------------------------------------------------------------
(***************************************************************************)
(* The remote branch as a compare-and-swap register: LeasedBranch.         *)
(***************************************************************************)

\* push_branch's promises, of the register alone: what may still land was allowed
\* by its lease, and success is claimed of what the branch was during the push.
THEOREM RegisterKept == Lease!Spec => [](Lease!AllowedWrites /\ Lease!ClaimsTrue)
<1> DEFINE RInv == Lease!AllowedWrites /\ Lease!ClaimsTrue /\ remote \in been /\ head \in Ours
<1>1. Lease!Init => RInv
  BY DEF Lease!Init, Lease!AllowedWrites, Lease!ClaimsTrue
<1>2. RInv /\ [Lease!Next]_Lease!vars => RInv'
  BY DEF Lease!Next, Lease!vars, Lease!Begin, Lease!StartWrite, Lease!Land, Lease!Refused,
     Lease!Claim, Lease!OthersWrite, Lease!Commit, Lease!AllowedWrites, Lease!ClaimsTrue
<1> QED
  <2>1. RInv => Lease!AllowedWrites /\ Lease!ClaimsTrue
    OBVIOUS
  <2> QED
    BY <1>1, <1>2, <2>1, PTL DEF Lease!Spec

\* Every step of a push is one of the register's, or none of them.
LEMMA PushStepIsLeased ==
  ASSUME PushInv, [PushNext]_pushVars
  PROVE  [Lease!Next]_Lease!vars
<1> USE GitPushAssumption
<1>0. push.pc \in {"idle", "attempt", "update"}
  BY DEF PushInv, PushTypeOK
<1>1. CASE PushBranch
  <2>1. push.pc = "idle" /\ push'.pc # "update" /\ UNCHANGED <<remote, head, late>>
    BY <1>1 DEF PushBranch, PushInv, PushTypeOK
  <2>2. UnderWay' = UnderWay
    BY <2>1 DEF UnderWay
  <2> QED
    BY <1>1, <2>1, <2>2 DEF PushBranch, Lease!Next, Lease!Begin
<1>2. CASE Attempt
  <2>1. /\ push.pc = "attempt" /\ pushed = "none" /\ UnderWay = late
        /\ UNCHANGED <<remote, head, late, been>>
    BY <1>2 DEF Attempt, PushInv, CallOpen, UnderWay
  <2>2. CASE remote = head /\ Returns("true")
    <3>1. UnderWay' = UnderWay
      BY <2>1, <2>2 DEF UnderWay, Returns, PushInv, PushTypeOK
    <3> QED
      BY <2>1, <2>2, <3>1 DEF Returns, Lease!Next, Lease!Claim
  <2>3. CASE Returns("false")
    <3>1. UnderWay' = UnderWay
      BY <2>1, <2>3 DEF UnderWay, Returns, PushInv, PushTypeOK
    <3> QED
      BY <2>1, <2>3, <3>1 DEF Returns, Lease!vars
  <2>4. CASE /\ remote = Expected /\ UNCHANGED pushed
             /\ push' = [push EXCEPT !.pc = "update", !.seen = remote, !.tries = @ + 1]
    <3>1. push.lease \in {Tracking, remote}
      BY <2>4 DEF Expected
    <3>2. push'.pc = "update" /\ push'.seen = remote /\ push'.lease = push.lease
      BY <2>4 DEF PushInv, PushTypeOK
    <3>3. UnderWay' = UnderWay \cup {[old |-> remote, new |-> head, lease |-> push.lease]}
      BY <2>1, <3>2 DEF UnderWay, ThisUpdate
    <3>4. Lease!StartWrite
      BY <2>1, <2>4, <3>1, <3>3 DEF Lease!StartWrite
    <3> QED
      BY <3>4 DEF Lease!Next
  <2> QED
    BY <1>2, <2>2, <2>3, <2>4 DEF Attempt
<1>3. CASE Update
  <2>1. /\ push.pc = "update" /\ pushed = "none" /\ head' = head
        /\ UnderWay = late \cup {ThisUpdate}
    BY <1>3 DEF Update, PushInv, CallOpen, UnderWay
  <2>2. ThisUpdate \in UnderWay /\ ThisUpdate.old = push.seen /\ ThisUpdate.new = head
    BY <2>1 DEF ThisUpdate
  <2>3. ASSUME NEW said \in {"true", "false"}, Returns(said)
        PROVE  push'.pc = "idle" /\ pushed' = said /\ UnderWay' = late'
    BY <2>3 DEF Returns, UnderWay, PushInv, PushTypeOK
  <2>4. ASSUME Retries
        PROVE  pushed' # "true" /\ UnderWay' = late'
    BY <2>1, <2>4, Continues DEF UnderWay
  <2>5. CASE remote = push.seen /\ Moves(head) /\ Returns("true") /\ UNCHANGED late
    <3>1. Lease!Land
      BY <2>1, <2>2, <2>3, <2>5 DEF Moves, Lease!Land
    <3> QED
      BY <3>1 DEF Lease!Next
  <2>6. CASE remote = push.seen /\ Moves(head) /\ Retries /\ UNCHANGED late
    <3>1. Lease!Land
      BY <2>1, <2>2, <2>4, <2>6 DEF Moves, Lease!Land
    <3> QED
      BY <3>1 DEF Lease!Next
  <2>7. CASE (Retries \/ Returns("false")) /\ UNCHANGED <<remote, been, late>>
    <3>1. pushed' # "true" /\ UnderWay' = late
      BY <2>3, <2>4, <2>7
    <3>2. Lease!Refused
      BY <2>1, <2>7, <3>1 DEF Lease!Refused
    <3> QED
      BY <3>2 DEF Lease!Next
  <2>8. CASE late' = late \cup {ThisUpdate} /\ Retries /\ UNCHANGED <<remote, been>>
    BY <2>1, <2>4, <2>8 DEF Lease!vars
  <2> QED
    BY <1>3, <2>5, <2>6, <2>7, <2>8 DEF Update
<1>4. CASE Others
  <2>1. UnderWay' = UnderWay
    BY <1>4 DEF Others, UnderWay, ThisUpdate
  <2> QED
    BY <1>4, <2>1 DEF Others, Moves, Lease!Next, Lease!OthersWrite
<1>5. CASE TrackingMoves \/ UNCHANGED pushVars
  BY <1>5 DEF TrackingMoves, pushVars, UnderWay, ThisUpdate, Lease!vars
<1>6. CASE Commits
  <2>1. UnderWay' = UnderWay
    BY <1>6 DEF Commits, UnderWay
  <2> QED
    BY <1>6, <2>1 DEF Commits, Lease!Next, Lease!Commit
<1>7. CASE Lands
  <2>1. PICK u \in late :
          /\ late' = late \ {u}
          /\ \/ u.old = remote /\ Moves(u.new)
             \/ UNCHANGED <<remote, been>>
    BY <1>7 DEF Lands
  <2>2. UNCHANGED <<head, push, pushed>>
    BY <1>7 DEF Lands
  <2>3. u \in UnderWay /\ UnderWay' \in SUBSET UnderWay
    BY <2>1, <2>2 DEF UnderWay, ThisUpdate
  <2>4. CASE u.old = remote /\ Moves(u.new)
    <3>1. Lease!Land
      BY <2>2, <2>3, <2>4 DEF Moves, Lease!Land
    <3> QED
      BY <3>1 DEF Lease!Next
  <2>5. CASE UNCHANGED <<remote, been>>
    BY <2>2, <2>3, <2>5 DEF Lease!Next, Lease!Refused
  <2> QED
    BY <2>1, <2>4, <2>5
<1> QED
  BY <1>1, <1>2, <1>3, <1>4, <1>5, <1>6, <1>7 DEF PushNext

\* push_branch, its retries and the updates that land late, together with
\* everybody else, make the remote branch a compare-and-swap register.
THEOREM PushIsLeased == PushSpec => ImplementsLease
<1>1. PushInit => Lease!Init
  BY GitPushAssumption DEF PushInit, Lease!Init, UnderWay
<1> QED
  BY <1>1, PushStepIsLeased, PushInvHolds, PTL DEF PushSpec, ImplementsLease, Lease!Spec

-----------------------------------------------------------------------------
(***************************************************************************)
(* JiraClient.  The invariant adds what is known half way through a call:  *)
(* whether its write can have had an effect yet, and which of the label's  *)
(* additions the pages read so far must have shown.                        *)
(***************************************************************************)

JiraSpec == JiraInit /\ [][JiraNext]_jiraVars

WriteCalls == [op : DOMAIN ReadsBefore, pc : {"acli", "rest"}, sends : Nat, reads : Nat]
LabelCalls == [op : {"label_author"}, pc : {"changelog", "reporter"}, sends : Nat,
               startAt : Nat, found : Nat, known : SUBSET Nat]

JiraTypeOK ==
  /\ acli \in BOOLEAN /\ effects \in Nat
  /\ jiraCall \in {Idle} \cup WriteCalls \cup LabelCalls
  /\ changelog \in Seq([added : BOOLEAN, by : JiraUsers])

\* Without acli nothing is done before the REST write, which ends the call.
WithoutAcli ==
  ~acli => /\ effects <= 1 /\ jiraCall.pc # "acli"
           /\ jiraCall.pc = "rest" => effects = 0

\* A write that returned has had an effect.
WriteReturned ==
  jiraAnswer.is = "done" /\ jiraAnswer.op \in Writes /\ ~jiraAnswer.resent => effects > 0

\* The search for the label's author has seen the additions on the pages it
\* has read, and goes on to the reporter only when there was none.
PagesSeen ==
  jiraCall.op = "label_author" =>
    /\ jiraCall.known \subseteq 1..Len(changelog)
    /\ \A i \in jiraCall.known : changelog[i].added
    /\ jiraCall.found \in 0..Len(changelog) /\ jiraCall.found <= jiraCall.startAt
    /\ jiraCall.found > 0 => changelog[jiraCall.found].added
    /\ jiraCall.pc = "changelog" =>
         \A i \in jiraCall.known : i <= jiraCall.startAt => i <= jiraCall.found
    /\ jiraCall.pc = "reporter" => jiraCall.known = {}

\* The author it names is on the changelog.
AuthorListed == jiraAnswer.is = "author" => jiraAnswer.entry \in 0..Len(changelog)

JiraInv ==
  /\ JiraTypeOK
  /\ WithoutAcli
  /\ WriteReturned
  /\ PagesSeen
  /\ AuthorListed
  /\ LabelAuthorCurrent

\* A client that has made no call yet.
LEMMA InitJiraInv == JiraInit => JiraInv
BY DEF JiraInit, JiraInv, JiraTypeOK, WithoutAcli, WriteReturned, PagesSeen, AuthorListed,
       LabelAuthorCurrent, Idle

\* How many REST reads a call starts with, and that no search is a write.
LEMMA ReadsCounted ==
  /\ \A op \in DOMAIN ReadsBefore : ReadsBefore[op] \in Nat
  /\ "label_author" \notin DOMAIN ReadsBefore /\ "none" \notin DOMAIN ReadsBefore
  /\ "read" \notin Writes
BY DEF ReadsBefore, Writes

\* A rate-limited request leaves a call as it was but for its sends, or ends it
\* with a failure.
LEMMA RateLimitedOrFails ==
  ASSUME JiraTypeOK, jiraCall # Idle, RateLimited \/ Fails
  PROVE  \/ /\ jiraCall' = Idle /\ jiraAnswer' = [is |-> "failed"]
         \/ /\ jiraCall' = [jiraCall EXCEPT !.sends = @ + 1] /\ jiraAnswer' = jiraAnswer
            /\ jiraCall' \in WriteCalls \cup LabelCalls
<1>1. Fails => jiraCall' = Idle /\ jiraAnswer' = [is |-> "failed"]
  BY DEF Fails, Answers
<1>2. CASE jiraCall \in WriteCalls
  BY <1>1, <1>2 DEF RateLimited, WriteCalls
<1>3. CASE jiraCall \in LabelCalls
  BY <1>1, <1>3 DEF RateLimited, LabelCalls
<1> QED
  BY <1>2, <1>3 DEF JiraTypeOK

\* What a step of a write must keep: it returns, or goes on over what it was
\* answered before.
LEMMA WriteGoesOn ==
  ASSUME JiraInv, UNCHANGED <<acli, changelog>>, effects' \in Nat, WithoutAcli',
         jiraCall' \in {Idle} \cup WriteCalls,
         \/ jiraAnswer' = jiraAnswer /\ effects' >= effects
         \/ jiraAnswer'.is \in {"done", "failed"} /\ WriteReturned'
  PROVE  JiraInv'
<1>1. JiraTypeOK'
  BY DEF JiraInv, JiraTypeOK
<1>2. WriteReturned'
  BY DEF JiraInv, JiraTypeOK, WriteReturned
<1>3. PagesSeen'
  <2>1. jiraCall'.op # "label_author"
    BY ReadsCounted DEF Idle, WriteCalls
  <2> QED
    BY <2>1 DEF PagesSeen
<1>4. AuthorListed' /\ LabelAuthorCurrent'
  BY DEF JiraInv, AuthorListed, LabelAuthorCurrent
<1> QED
  BY <1>1, <1>2, <1>3, <1>4 DEF JiraInv

\* The steps of a write keep the invariant.
LEMMA WriteSteps ==
  ASSUME JiraInv, RunAcli \/ RestRead \/ RestWrite
  PROVE  JiraInv'
<1>1. jiraCall \in WriteCalls /\ jiraCall # Idle /\ jiraCall.op # "none"
  BY ReadsCounted DEF JiraInv, RunAcli, RestRead, RestWrite, JiraTypeOK, Idle, LabelCalls, WriteCalls
<1>2. UNCHANGED <<acli, changelog>> /\ effects \in Nat
  BY DEF RunAcli, RestRead, RestWrite, JiraInv, JiraTypeOK
<1>3. TakesEffect => effects' \in Nat /\ effects' >= effects /\ effects' <= effects + 1
                     /\ (~Resent => effects' > 0)
  BY <1>2 DEF TakesEffect
<1>4. ~acli => effects <= 1 /\ jiraCall.pc # "acli" /\ (jiraCall.pc = "rest" => effects = 0)
  BY DEF JiraInv, WithoutAcli
<1>5. ASSUME Done, TakesEffect \/ (jiraCall.op = "read" /\ UNCHANGED effects),
             effects' <= 1 \/ acli
      PROVE  JiraInv'
  <2>1. jiraCall' = Idle /\ jiraAnswer' = [is |-> "done", op |-> jiraCall.op, resent |-> Resent]
    BY <1>5 DEF Done, Answers
  <2>2. jiraAnswer'.is = "done" /\ jiraAnswer'.op = jiraCall.op /\ jiraAnswer'.resent = Resent
    BY <2>1
  <2>3. WriteReturned'
    BY <1>3, <1>5, <2>2, ReadsCounted DEF WriteReturned
  <2>4. WithoutAcli' /\ effects' \in Nat
    BY <1>2, <1>3, <1>5, <2>1 DEF WithoutAcli, Idle
  <2> QED
    BY <1>2, <2>1, <2>2, <2>3, <2>4, WriteGoesOn
<1>6. ASSUME jiraCall' = Idle, jiraAnswer' = [is |-> "failed"], effects' \in Nat,
             effects' <= 1 \/ acli
      PROVE  JiraInv'
  <2>1. WriteReturned' /\ WithoutAcli'
    BY <1>2, <1>6 DEF WriteReturned, WithoutAcli, Idle
  <2> QED
    BY <1>2, <1>6, <2>1, WriteGoesOn
<1>7. ASSUME jiraCall' \in WriteCalls, jiraAnswer' = jiraAnswer, effects' \in Nat,
             effects' >= effects, jiraCall'.pc = "rest", acli \/ effects' = 0
      PROVE  JiraInv'
  <2>1. WithoutAcli'
    BY <1>2, <1>7 DEF WithoutAcli
  <2> QED
    BY <1>2, <1>7, <2>1, WriteGoesOn
<1>8. CASE RunAcli
  <2>1. acli
    BY <1>4, <1>8 DEF RunAcli
  <2>2. CASE TakesEffect /\ Done
    BY <1>5, <2>1, <2>2
  <2>3. CASE FallBack /\ (TakesEffect \/ UNCHANGED effects)
    <3>1. jiraCall' \in WriteCalls /\ jiraCall'.pc = "rest" /\ jiraAnswer' = jiraAnswer
      BY <1>1, <2>3 DEF FallBack, WriteCalls
    <3> QED
      BY <1>2, <1>3, <1>7, <2>1, <2>3, <3>1
  <2> QED
    BY <1>8, <2>2, <2>3 DEF RunAcli
<1>9. ASSUME jiraCall.pc = "rest", RateLimited \/ Fails, UNCHANGED effects PROVE JiraInv'
  <2>1. CASE jiraCall' = Idle /\ jiraAnswer' = [is |-> "failed"]
    BY <1>2, <1>4, <1>6, <1>9, <2>1
  <2>2. CASE /\ jiraCall' = [jiraCall EXCEPT !.sends = @ + 1] /\ jiraAnswer' = jiraAnswer
             /\ jiraCall' \in WriteCalls \cup LabelCalls
    <3>1. jiraCall'.pc = "rest" /\ jiraCall' \in WriteCalls
      BY <1>1, <1>9, <2>2, ReadsCounted DEF WriteCalls, LabelCalls
    <3> QED
      BY <1>2, <1>4, <1>7, <1>9, <2>2, <3>1
  <2> QED
    BY <1>1, <1>9, <2>1, <2>2, RateLimitedOrFails DEF JiraInv
<1>10. CASE RestRead
  <2>1. jiraCall.pc = "rest" /\ jiraCall.reads > 0 /\ UNCHANGED effects
    BY <1>10 DEF RestRead
  <2>2. CASE jiraCall' = [jiraCall EXCEPT !.reads = @ - 1, !.sends = 0] /\ jiraAnswer' = jiraAnswer
    <3>1. jiraCall.reads - 1 \in Nat
      BY <1>1, <2>1 DEF WriteCalls
    <3>2. jiraCall' \in WriteCalls /\ jiraCall'.pc = "rest"
      BY <1>1, <2>1, <2>2, <3>1 DEF WriteCalls
    <3> QED
      BY <1>2, <1>4, <1>7, <2>1, <2>2, <3>2
  <2> QED
    BY <1>9, <1>10, <2>1, <2>2 DEF RestRead
<1>11. CASE RestWrite
  <2>1. jiraCall.pc = "rest" /\ (acli \/ effects = 0)
    BY <1>4, <1>11 DEF RestWrite
  <2>2. CASE TakesEffect /\ Done
    BY <1>2, <1>3, <1>5, <2>1, <2>2
  <2>3. CASE TakesEffect /\ Fails
    BY <1>2, <1>3, <1>6, <2>1, <2>3 DEF Fails, Answers
  <2>4. CASE jiraCall.op = "read" /\ Done /\ UNCHANGED effects
    BY <1>2, <1>4, <1>5, <2>1, <2>4
  <2> QED
    BY <1>9, <1>11, <2>1, <2>2, <2>3, <2>4 DEF RestWrite
<1> QED
  BY <1>8, <1>10, <1>11

\* The pages of the search keep the invariant.
LEMMA SearchSteps ==
  ASSUME JiraInv, ReadChangelog \/ ReadReporter
  PROVE  JiraInv'
<1> USE DEF JiraInv
<1>1. jiraCall \in LabelCalls /\ jiraCall # Idle /\ jiraCall.op = "label_author"
  <2>1. jiraCall.pc \in {"changelog", "reporter"}
    BY DEF ReadChangelog, ReadReporter
  <2>2. jiraCall \notin WriteCalls /\ jiraCall # Idle
    BY <2>1 DEF WriteCalls, Idle
  <2> QED
    BY <2>2 DEF JiraTypeOK, LabelCalls
<1>2. UNCHANGED <<acli, effects, atCreation, changelog>>
  BY DEF ReadChangelog, ReadReporter
<1>3. /\ jiraCall.known \subseteq 1..Len(changelog)
      /\ \A i \in jiraCall.known : changelog[i].added
      /\ jiraCall.found \in 0..Len(changelog) /\ jiraCall.found <= jiraCall.startAt
      /\ jiraCall.found > 0 => changelog[jiraCall.found].added
      /\ jiraCall.startAt \in Nat /\ Len(changelog) \in Nat
  BY <1>1 DEF PagesSeen, LabelCalls, JiraTypeOK
<1>4. ASSUME jiraCall' \in LabelCalls, jiraAnswer' = jiraAnswer, PagesSeen' PROVE JiraInv'
  <2>1. JiraTypeOK'
    BY <1>2, <1>4 DEF JiraTypeOK
  <2>2. WithoutAcli'
    BY <1>2, <1>4 DEF WithoutAcli, LabelCalls
  <2>3. WriteReturned' /\ AuthorListed' /\ LabelAuthorCurrent'
    BY <1>2, <1>4 DEF WriteReturned, AuthorListed, LabelAuthorCurrent
  <2> QED
    BY <1>4, <2>1, <2>2, <2>3
<1>5. ASSUME jiraCall' = Idle, jiraAnswer'.is \in {"failed", "author", "not found"},
             AuthorListed', LabelAuthorCurrent'
      PROVE  JiraInv'
  <2>1. JiraTypeOK'
    BY <1>2, <1>5 DEF JiraTypeOK
  <2>2. WithoutAcli' /\ WriteReturned' /\ PagesSeen'
    BY <1>2, <1>5 DEF WithoutAcli, WriteReturned, PagesSeen, Idle
  <2> QED
    BY <1>5, <2>1, <2>2
<1>6. ASSUME RateLimited \/ Fails PROVE JiraInv'
  <2>1. CASE jiraCall' = Idle /\ jiraAnswer' = [is |-> "failed"]
    BY <1>5, <2>1 DEF AuthorListed, LabelAuthorCurrent
  <2>2. CASE /\ jiraCall' = [jiraCall EXCEPT !.sends = @ + 1] /\ jiraAnswer' = jiraAnswer
             /\ jiraCall' \in LabelCalls
    BY <1>1, <1>2, <1>4, <2>2 DEF LabelCalls, PagesSeen
  <2> QED
    BY <1>1, <1>6, <2>1, <2>2, RateLimitedOrFails DEF WriteCalls, LabelCalls
<1>7. CASE ReadChangelog
  <2> DEFINE at == jiraCall.startAt + 1
  <2>1. jiraCall.pc = "changelog"
    BY <1>7 DEF ReadChangelog
  <2>2. /\ Found(at) \in 0..Len(changelog) /\ Found(at) <= at
        /\ Found(at) > 0 => changelog[Found(at)].added
        /\ \A i \in jiraCall.known : i <= at => i <= Found(at)
    BY <1>1, <1>3, <2>1 DEF Found, PagesSeen
  <2>3. CASE /\ jiraCall' = [jiraCall EXCEPT !.startAt = at, !.found = Found(at), !.sends = 0]
             /\ UNCHANGED jiraAnswer
    <3>0. at \in Nat /\ Found(at) \in Nat
      BY <1>3, <2>2
    <3> HIDE DEF at
    <3>1. jiraCall' \in LabelCalls /\ jiraCall'.startAt = at /\ jiraCall'.found = Found(at)
          /\ jiraCall'.known = jiraCall.known /\ jiraCall'.pc = "changelog"
      BY <1>1, <2>1, <2>3, <3>0 DEF LabelCalls
    <3>2. PagesSeen'
      BY <1>2, <1>3, <2>2, <3>1 DEF PagesSeen
    <3> QED
      BY <1>4, <2>3, <3>1, <3>2
  <2>4. CASE at >= Len(changelog)
    <3>1. \A i \in jiraCall.known : i <= Found(at)
      BY <1>3, <2>2, <2>4
    <3>2. CASE Found(at) # 0 /\ Answers(Author(Found(at)))
      <4>1. jiraCall' = Idle
            /\ jiraAnswer' = [is |-> "author", entry |-> Found(at), known |-> jiraCall.known]
        BY <3>2 DEF Answers, Author
      <4>2. AuthorListed' /\ LabelAuthorCurrent'
        BY <1>2, <1>3, <2>2, <3>1, <4>1 DEF AuthorListed, LabelAuthorCurrent
      <4> QED
        BY <1>5, <4>1, <4>2
    <3>3. CASE /\ Found(at) = 0 /\ jiraCall' = [jiraCall EXCEPT !.pc = "reporter", !.sends = 0]
               /\ UNCHANGED jiraAnswer
      <4>1. jiraCall.known = {}
        BY <1>3, <3>1, <3>3
      <4>2. jiraCall' \in LabelCalls /\ jiraCall'.pc = "reporter"
            /\ jiraCall'.startAt = jiraCall.startAt /\ jiraCall'.found = jiraCall.found
            /\ jiraCall'.known = jiraCall.known
        BY <1>1, <3>3 DEF LabelCalls
      <4>3. PagesSeen'
        BY <1>2, <1>3, <4>1, <4>2 DEF PagesSeen
      <4> QED
        BY <1>4, <3>3, <4>2, <4>3
    <3> QED
      BY <1>6, <1>7, <2>3, <2>4, <3>2, <3>3 DEF ReadChangelog
  <2> QED
    BY <1>6, <1>7, <2>3, <2>4 DEF ReadChangelog
<1>8. CASE ReadReporter
  <2>1. jiraCall.known = {}
    BY <1>1, <1>8 DEF ReadReporter, PagesSeen
  <2>2. CASE Answers(Author(0))
    <3>1. jiraCall' = Idle /\ jiraAnswer' = [is |-> "author", entry |-> 0, known |-> {}]
      BY <2>1, <2>2 DEF Answers, Author
    <3>2. jiraAnswer'.is = "author" /\ jiraAnswer'.entry = 0 /\ jiraAnswer'.known = {}
      BY <3>1
    <3>3. AuthorListed'
      BY <1>2, <1>3, <3>2 DEF AuthorListed
    <3>4. LabelAuthorCurrent'
      <4>1. \A i \in jiraAnswer'.known : jiraAnswer'.entry >= i
        BY <3>2
      <4>2. ~(jiraAnswer'.entry > 0)
        BY <3>2
      <4>3. jiraAnswer'.is # "not found"
        BY <3>2
      <4> QED
        BY <4>1, <4>2, <4>3 DEF LabelAuthorCurrent
    <3> QED
      BY <1>5, <3>1, <3>2, <3>3, <3>4
  <2>3. CASE Answers([is |-> "not found", known |-> jiraCall.known])
    BY <1>3, <1>5, <2>1, <2>3 DEF Answers, AuthorListed, LabelAuthorCurrent
  <2> QED
    BY <1>6, <1>8, <2>2, <2>3 DEF ReadReporter
<1> QED
  BY <1>7, <1>8

\* Every step keeps the invariant.
LEMMA NextJiraInv == JiraInv /\ [JiraNext]_jiraVars => JiraInv'
<1> SUFFICES ASSUME JiraInv, [JiraNext]_jiraVars PROVE JiraInv'
  OBVIOUS
<1>1. CASE BeginWrite
  <2>1. PICK op \in DOMAIN ReadsBefore :
          \E pc \in {"acli", "rest"} :
            /\ jiraCall' = [op |-> op, pc |-> pc, sends |-> 0, reads |-> ReadsBefore[op]]
            /\ pc = "acli" => acli
    BY <1>1 DEF BeginWrite
  <2>2. jiraCall' \in WriteCalls /\ jiraCall'.op = op /\ (jiraCall'.pc = "acli" => acli)
    BY <2>1, ReadsCounted DEF WriteCalls
  <2> QED
    <3>1. /\ jiraCall'.op # "label_author" /\ effects' = 0 /\ jiraAnswer' = [is |-> "none"]
          /\ UNCHANGED <<acli, changelog>>
      BY <1>1, <2>2, ReadsCounted DEF BeginWrite
    <3>2. JiraTypeOK'
      BY <2>2, <3>1 DEF JiraInv, JiraTypeOK
    <3>3. WithoutAcli' /\ WriteReturned' /\ PagesSeen' /\ AuthorListed' /\ LabelAuthorCurrent'
      BY <2>2, <3>1 DEF WithoutAcli, WriteReturned, PagesSeen, AuthorListed, LabelAuthorCurrent
    <3> QED
      BY <3>2, <3>3 DEF JiraInv
<1>2. CASE BeginLabelAuthor
  <2>1. jiraCall' = [op |-> "label_author", pc |-> "changelog", sends |-> 0, startAt |-> 0,
                     found |-> 0, known |-> Additions]
        /\ jiraAnswer' = [is |-> "none"] /\ UNCHANGED <<acli, effects, changelog>>
    BY <1>2 DEF BeginLabelAuthor
  <2>2. /\ Additions \subseteq 1..Len(changelog) /\ \A i \in Additions : changelog[i].added
        /\ Len(changelog) \in Nat
    BY DEF Additions, JiraInv, JiraTypeOK
  <2>3. jiraCall' \in LabelCalls
    BY <2>1, <2>2 DEF LabelCalls
  <2> QED
    <3>1. JiraTypeOK'
      BY <2>1, <2>3 DEF JiraInv, JiraTypeOK
    <3>2. WithoutAcli'
      BY <2>1 DEF JiraInv, WithoutAcli
    <3>3. WriteReturned' /\ AuthorListed' /\ LabelAuthorCurrent'
      BY <2>1 DEF WriteReturned, AuthorListed, LabelAuthorCurrent
    <3>4. PagesSeen'
      BY <2>1, <2>2 DEF PagesSeen
    <3> QED
      BY <3>1, <3>2, <3>3, <3>4 DEF JiraInv
<1>3. CASE RunAcli \/ RestRead \/ RestWrite
  BY <1>3, WriteSteps
<1>4. CASE ReadChangelog \/ ReadReporter
  BY <1>4, SearchSteps
<1>5. CASE LabelChanges
  <2>1. PICK who \in JiraUsers : changelog' = Append(changelog, [added |-> ~Labelled, by |-> who])
    BY <1>5 DEF LabelChanges
  <2>2. /\ changelog' \in Seq([added : BOOLEAN, by : JiraUsers])
        /\ Len(changelog') = Len(changelog) + 1 /\ Len(changelog) \in Nat
        /\ \A i \in 1..Len(changelog) : changelog'[i] = changelog[i]
    BY <2>1 DEF JiraInv, JiraTypeOK
  <2>3. UNCHANGED <<acli, jiraCall, jiraAnswer, effects>>
    BY <1>5 DEF LabelChanges
  <2>4. PagesSeen'
    BY <2>2, <2>3 DEF JiraInv, PagesSeen
  <2>5. AuthorListed' /\ LabelAuthorCurrent'
    <3>1. AuthorListed'
      BY <2>2, <2>3 DEF JiraInv, AuthorListed
    <3>2. jiraAnswer.is = "author" /\ jiraAnswer.entry > 0 =>
            changelog'[jiraAnswer.entry] = changelog[jiraAnswer.entry]
      BY <2>2 DEF JiraInv, AuthorListed
    <3> QED
      BY <2>3, <3>1, <3>2 DEF JiraInv, LabelAuthorCurrent
  <2> QED
    <3>1. JiraTypeOK'
      BY <2>2, <2>3 DEF JiraInv, JiraTypeOK
    <3>2. WithoutAcli' /\ WriteReturned'
      BY <2>3 DEF JiraInv, WithoutAcli, WriteReturned
    <3> QED
      BY <2>4, <2>5, <3>1, <3>2 DEF JiraInv
<1>6. CASE UNCHANGED jiraVars
  BY <1>6 DEF jiraVars, JiraInv, JiraTypeOK, WithoutAcli, WriteReturned, PagesSeen,
     AuthorListed, LabelAuthorCurrent
<1> QED
  BY <1>1, <1>2, <1>3, <1>4, <1>5, <1>6 DEF JiraNext

\* The invariant holds in every reachable state.
LEMMA JiraInvHolds == JiraSpec => []JiraInv
<1> QED
  BY InitJiraInv, NextJiraInv, PTL DEF JiraSpec

\* Whichever of acli and REST makes a write, a write that returns took effect,
\* and without acli the requests that _request sends again never do it twice.
THEOREM WritesAreDone == JiraSpec => []JiraWritesDone
<1>1. JiraInv => JiraWritesDone
  BY DEF JiraInv, WithoutAcli, WriteReturned, JiraWritesDone
<1> QED
  BY JiraInvHolds, <1>1, PTL

\* get_label_author never answers with an addition older than the last one
\* before it began, whatever others do to the label between its pages.
THEOREM LabelAuthorIsCurrent == JiraSpec => []LabelAuthorCurrent
<1>1. JiraInv => LabelAuthorCurrent
  BY DEF JiraInv
<1> QED
  BY JiraInvHolds, <1>1, PTL

-----------------------------------------------------------------------------
(***************************************************************************)
(* The forge clients.  The invariants add when a request was made and was  *)
(* open, what the pages read so far have shown of the checks that stand,   *)
(* and that every level remembered was true once.                          *)
(***************************************************************************)

ForgeSpec == ForgeInit /\ [][ForgeNext]_forgeVars

ForgeStates == {"none", "running", "passed", "failed"}
AllChecks == RunChecks \cup StatusChecks
ForgeOps == {"none", "create", "read", "status", "feedback"} \cup ForgeWrites
ForgePlaces == {"idle", "project", "list", "read", "send", "head", "checks", "statuses", "threads", "authors"}

RequestsMade == [own : BOOLEAN, open : BOOLEAN, by : Nat]
ForgeComments == [author : Users, system : BOOLEAN, level : Levels]
ForgeCallRecords ==
  [op : ForgeOps, pc : ForgePlaces, project : Projects, sends : Nat, page : Nat, ignored : SUBSET RunChecks,
   got : SUBSET (AllChecks \X ForgeStates), notes : SUBSET Notes, comments : SUBSET ForgeComments]

\* The types of the client's call and of the forge.
ForgeTypeOK ==
  /\ kind \in {"gitlab", "github"} /\ theme \in {"requests", "checks", "access"}
  /\ forgeCall \in ForgeCallRecords
  /\ requests \in Seq(RequestsMade) /\ openSeen \subseteq Nat /\ applied \in BOOLEAN
  /\ levels \in [Projects \X Users -> {"none", "developer"}] /\ had \subseteq Projects \X Users
  /\ DOMAIN levelCache \subseteq Projects \X Users
  /\ \A w \in DOMAIN levelCache : levelCache[w] \in Levels
  /\ checks \in [state : [AllChecks -> ForgeStates], place : [RunChecks -> Nat]]
  /\ steady \subseteq AllChecks /\ forgeCalls \in Nat /\ forgeMoves \in Nat

-----------------------------------------------------------------------------
(* Merge requests                                                          *)

\* Every open request was open during the call.
OpenIsSeen == OpenRequests \subseteq openSeen

\* A request was made by a call so far; by this one only after its POST.
MadeByCalls ==
  /\ \A i \in 1..Len(requests) : requests[i].by <= forgeCalls
  /\ forgeCall.pc # "idle" => forgeCalls > 0
  /\ forgeCall.pc \notin {"idle", "send"} => \A i \in 1..Len(requests) : requests[i].by # forgeCalls

\* What is handed out is in the list.
HandedOut == answer.is = "request" => answer.url \in 1..Len(requests)

RequestInv == OpenIsSeen /\ MadeByCalls /\ HandedOut /\ ForgeAnswerTrue

(* CI status                                                               *)

\* Steady checks are not passing, and a check run that was started is listed.
SteadyIsBad ==
  /\ \A c \in steady : checks.state[c] \in Bad
  /\ \A c \in RunChecks : checks.state[c] \in Bad => checks.place[c] > 0

\* The list has no gaps.
ListWhole ==
  \A c \in RunChecks : \A q \in 1..checks.place[c] : \E d \in RunChecks : checks.place[d] = q

\* Pages are read from the first; a steady check run that is not read yet is on
\* a later page, however the list shifts.
PagesRead ==
  /\ forgeCall.pc \in {"project", "head"} => forgeCall.page = 1
  /\ forgeCall.pc = "statuses" => kind = "github"
  /\ forgeCall.pc \in {"checks", "statuses"} /\ kind = "github" =>
       \A c \in steady \cap RunChecks :
         \/ <<c, checks.state[c]>> \in forgeCall.got
         \/ forgeCall.pc = "checks" /\ checks.place[c] >= forgeCall.page

StatusInv == SteadyIsBad /\ ListWhole /\ PagesRead /\ SuccessCoversChecks

(* Feedback                                                                *)

\* A level that is known, cached or told with a comment was true once.
LevelsWereTrue ==
  /\ \A w \in Projects \X Users : levels[w] = "developer" => w \in had
  /\ \A w \in DOMAIN levelCache : levelCache[w] = "developer" => w \in had
  /\ forgeCall.pc # "idle" =>
       /\ \A n \in forgeCall.notes : ~n.system
       /\ \A c \in forgeCall.comments :
            ~c.system /\ (c.level = "developer" => <<forgeCall.project, c.author>> \in had)

FeedbackInv == LevelsWereTrue /\ TrustedFeedback

-----------------------------------------------------------------------------
(* Types                                                                   *)

\* No call is well-typed, and so is the start of one.
LEMMA CallsTyped ==
  /\ NoForgeCall \in ForgeCallRecords /\ NoForgeCall.pc = "idle"
  /\ \A op \in ForgeOps, p \in Projects, ignored \in SUBSET RunChecks :
       CallOf(op, "project", p, ignored) \in ForgeCallRecords
<1>1. (CHOOSE p \in Projects : TRUE) \in Projects
  BY ForgeAssumption
<1> QED
  BY <1>1 DEF CallOf, NoForgeCall, ForgeCallRecords, ForgeOps, ForgePlaces

\* Where a call goes on is a place.
LEMMA FirstIsPlace == FirstRequest \in {"list", "head", "threads", "read", "send"}
<1> QED
  BY Zenon DEF FirstRequest

\* Every step keeps the type of the call.
LEMMA StepCallTyped ==
  ASSUME ForgeTypeOK, [ForgeNext]_forgeVars
  PROVE  forgeCall' \in ForgeCallRecords
<1>1. forgeCall \in ForgeCallRecords
  BY DEF ForgeTypeOK
<1> USE <1>1, CallsTyped DEF ForgePlaces
<1>2. CASE BeginForgeCall
  <2>1. Ops[theme] \subseteq ForgeOps
    BY DEF ForgeTypeOK, Ops, ForgeOps
  <2> QED
    BY <1>2, <2>1 DEF BeginForgeCall
<1>3. CASE ProjectId
  BY <1>3, FirstIsPlace DEF ProjectId, Gives, Raises, ForgeCallRecords
<1>4. CASE ReadFails \/ NothingToDo
  BY <1>4 DEF ReadFails, NothingToDo, Gives, Raises
<1>5. CASE ReadOne
  BY <1>5 DEF ReadOne, Gives, Post, ForgeCallRecords
<1>6. CASE ListRequests
  <2>1. Post => forgeCall' \in ForgeCallRecords
    BY DEF Post, ForgeCallRecords
  <2>2. forgeCall' = [forgeCall EXCEPT !.page = @ + 1] => forgeCall' \in ForgeCallRecords
    BY DEF ForgeCallRecords
  <2>3. ASSUME NEW i, Reuse(i) PROVE forgeCall' \in ForgeCallRecords
    BY <2>3 DEF Reuse, Gives
  <2> QED
    BY <1>6, <2>1, <2>2, <2>3 DEF ListRequests, OwnOpenMrUrl, OwnOpenPr
<1>7. CASE Send
  <2>1. SendAgain => forgeCall' \in ForgeCallRecords
    BY DEF SendAgain, Raises, Gives, ForgeCallRecords
  <2> QED
    BY <1>7, <2>1 DEF Send, Accepted, Refused, Raises, Gives
<1>8. CASE ReadHead
  BY <1>8 DEF ReadHead, ForgeCallRecords
<1>9. CASE ReadChecks
  <2>1. ASSUME NEW cs \in SUBSET RunChecks PROVE Reported(cs) \subseteq AllChecks \X ForgeStates
    BY <2>1 DEF Reported, ForgeTypeOK, AllChecks
  <2>2. CheckRuns => forgeCall' \in ForgeCallRecords
    <3> DEFINE page == Reported({c \in RunChecks : checks.place[c] = forgeCall.page})
    <3>1. page \subseteq AllChecks \X ForgeStates
      BY <2>1
    <3> HIDE DEF page
    <3> DEFINE read == [forgeCall EXCEPT !.got = @ \cup page]
    <3>2. read \in ForgeCallRecords
      BY <3>1 DEF ForgeCallRecords
    <3>4. [read EXCEPT !.page = @ + 1] \in ForgeCallRecords
      <4> HIDE DEF read
      <4> QED
        BY <3>2 DEF ForgeCallRecords
    <3>5. [forgeCall EXCEPT !.page = @ + 1, !.got = @ \cup page] = [read EXCEPT !.page = @ + 1]
      BY DEF ForgeCallRecords
    <3>3. [forgeCall EXCEPT !.pc = "statuses"] \in ForgeCallRecords
      BY DEF ForgeCallRecords
    <3> QED
      BY <3>3, <3>4, <3>5 DEF CheckRuns, page
  <2> QED
    BY <1>9, <2>2 DEF ReadChecks, GitLabJobs, Unknown, Answer, Gives
<1>10. CASE ReadStatuses
  BY <1>10 DEF ReadStatuses, Answer, Gives
<1>11. CASE ReadThreads
  <2>1. ASSUME NEW notes \in SUBSET Notes, GitLabComments(notes) PROVE forgeCall' \in ForgeCallRecords
    BY <2>1 DEF GitLabComments, ForgeCallRecords
  <2> QED
    BY <1>11, <2>1 DEF ReadThreads, GitHubComments, Gives
<1>12. CASE ReadAuthors
  <2>1. ASSUME NEW note \in forgeCall.notes, MemberAccessLevel(note) PROVE forgeCall' \in ForgeCallRecords
    <3>1. note \in Notes
      BY DEF ForgeCallRecords
    <3>2. PICK level \in Levels : Comment(note, level)
      <4>1. <<forgeCall.project, note.author>> \in Projects \X Users
        BY <3>1 DEF ForgeCallRecords, Notes
      <4> QED
        BY <2>1, <4>1 DEF MemberAccessLevel, ForgeTypeOK, Levels
    <3>3. [author |-> note.author, system |-> note.system, level |-> level] \in ForgeComments
      BY <3>1 DEF Notes, ForgeComments
    <3> QED
      BY <3>2, <3>3 DEF Comment, ForgeCallRecords
  <2> QED
    BY <1>12, <2>1 DEF ReadAuthors, Gives
<1>13. CASE OpensRequest \/ ClosesRequest \/ AccessChanges \/ CheckMoves \/ UNCHANGED forgeVars
  BY <1>13 DEF OpensRequest, ClosesRequest, AccessChanges, CheckMoves, forgeVars
<1> QED
  BY <1>2, <1>3, <1>4, <1>5, <1>6, <1>7, <1>8, <1>9, <1>10, <1>11, <1>12, <1>13 DEF ForgeNext

\* The list of requests grows at its end.
LEMMA MoreRequests ==
  ASSUME ForgeTypeOK, NEW r \in RequestsMade
  PROVE  LET list == Append(requests, r) IN
         /\ list \in Seq(RequestsMade) /\ Len(list) = Len(requests) + 1 /\ Len(requests) \in Nat
         /\ \A i \in 1..Len(requests) : list[i] = requests[i]
         /\ list[Len(list)] = r
<1> QED
  BY DEF ForgeTypeOK

\* A request is closed.
LEMMA LessRequests ==
  ASSUME ForgeTypeOK, NEW i \in 1..Len(requests)
  PROVE  LET list == [requests EXCEPT ![i].open = FALSE] IN
         /\ list \in Seq(RequestsMade) /\ Len(list) = Len(requests)
         /\ \A j \in 1..Len(requests) :
              list[j].own = requests[j].own /\ list[j].by = requests[j].by /\ (list[j].open => requests[j].open)
<1> DEFINE closed == [requests[i] EXCEPT !.open = FALSE]
<1>1. requests \in Seq(RequestsMade)
  BY DEF ForgeTypeOK
<1>2. requests[i] \in RequestsMade
  BY <1>1, ElementOfSeq
<1>3. /\ closed \in RequestsMade /\ closed.own = requests[i].own /\ closed.by = requests[i].by
      /\ closed.open = FALSE
  BY <1>2 DEF RequestsMade
<1>4. [requests EXCEPT ![i].open = FALSE] = [requests EXCEPT ![i] = closed]
  BY DEF closed
<1> DEFINE list == [requests EXCEPT ![i] = closed]
<1> HIDE DEF closed
<1>5. /\ list \in Seq(RequestsMade) /\ Len(list) = Len(requests)
      /\ \A j \in 1..Len(requests) : list[j] = IF j = i THEN closed ELSE requests[j]
  BY <1>1, <1>3, ExceptSeq
<1> HIDE DEF list
<1>6. \A j \in 1..Len(requests) :
        list[j].own = requests[j].own /\ list[j].by = requests[j].by /\ (list[j].open => requests[j].open)
  BY <1>3, <1>5
<1> QED
  BY <1>4, <1>5, <1>6 DEF list

\* What a step of the client's own leaves alone.
LEMMA ClientSteps ==
  ASSUME \/ ProjectId \/ ReadFails \/ NothingToDo \/ ReadOne \/ ListRequests
         \/ ReadHead \/ ReadChecks \/ ReadStatuses \/ ReadThreads \/ ReadAuthors
  PROVE  UNCHANGED <<kind, theme, requests, openSeen, applied, levels, had, checks, steady,
                     forgeCalls, forgeMoves>>
<1> QED
  BY DEF ProjectId, ReadFails, NothingToDo, ReadOne, ListRequests, ReadHead, ReadChecks,
         ReadStatuses, ReadThreads, ReadAuthors, server

\* Every step keeps the types.
LEMMA StepForgeTyped == ForgeTypeOK /\ [ForgeNext]_forgeVars => ForgeTypeOK'
<1> SUFFICES ASSUME ForgeTypeOK, [ForgeNext]_forgeVars PROVE ForgeTypeOK'
  OBVIOUS
<1>0. forgeCall' \in ForgeCallRecords
  BY StepCallTyped
<1>1. CASE \/ ProjectId \/ ReadFails \/ NothingToDo \/ ReadOne \/ ListRequests
           \/ ReadHead \/ ReadChecks \/ ReadStatuses \/ ReadThreads \/ ReadAuthors
  <2>1. DOMAIN levelCache' \subseteq Projects \X Users
        /\ \A w \in DOMAIN levelCache' : levelCache'[w] \in Levels
    <3>1. CASE UNCHANGED levelCache
      BY <3>1 DEF ForgeTypeOK
    <3>2. ASSUME NEW note \in forgeCall.notes, MemberAccessLevel(note) PROVE <2>1
      <4>1. <<forgeCall.project, note.author>> \in Projects \X Users
        BY DEF ForgeTypeOK, ForgeCallRecords, Notes
      <4> QED
        BY <3>2, <4>1 DEF MemberAccessLevel, Remembered, ForgeTypeOK, Levels
    <3> QED
      BY <1>1, <3>1, <3>2 DEF ProjectId, ReadFails, NothingToDo, ReadOne, ListRequests, ReadHead,
         ReadChecks, ReadStatuses, ReadThreads, ReadAuthors
  <2> QED
    BY <1>0, <1>1, <2>1, ClientSteps DEF ForgeTypeOK
<1>2. CASE BeginForgeCall
  <2>1. OpenRequests \subseteq Nat
    BY DEF OpenRequests, ForgeTypeOK
  <2>2. {c \in DOMAIN checks.state : checks.state[c] \in Bad} \subseteq AllChecks
    BY DEF ForgeTypeOK
  <2> QED
    <3>1. /\ UNCHANGED <<kind, theme, requests, levels, had, levelCache, checks, forgeMoves>>
          /\ openSeen' = OpenRequests /\ applied' = FALSE /\ forgeCalls' = forgeCalls + 1
          /\ steady' = {c \in DOMAIN checks.state : checks.state[c] \in Bad}
      BY <1>2 DEF BeginForgeCall
    <3>2. openSeen' \subseteq Nat /\ applied' \in BOOLEAN /\ steady' \subseteq AllChecks
      BY <2>1, <2>2, <3>1
    <3>3. forgeCalls' \in Nat
      BY <3>1 DEF ForgeTypeOK
    <3> QED
      BY <1>0, <3>1, <3>2, <3>3 DEF ForgeTypeOK
<1>3. CASE Send
  <2>1. requests' \in Seq(RequestsMade) /\ openSeen' \subseteq Nat /\ applied' \in BOOLEAN
    <3>1. CASE Accepts
      <4>1. [own |-> TRUE, open |-> TRUE, by |-> forgeCalls] \in RequestsMade
        BY DEF RequestsMade, ForgeTypeOK
      <4> QED
        <5>1. /\ Append(requests, [own |-> TRUE, open |-> TRUE, by |-> forgeCalls]) \in Seq(RequestsMade)
              /\ requests \in Seq(RequestsMade) /\ openSeen \subseteq Nat /\ applied \in BOOLEAN
          BY <4>1, MoreRequests DEF ForgeTypeOK
        <5>2. CASE forgeCall.op = "create"
          <6>1. requests' \in Seq(RequestsMade) /\ applied' \in BOOLEAN
            BY <3>1, <5>1, <5>2 DEF Accepts
          <6>2. openSeen' = openSeen \cup {Len(requests')}
            BY <3>1, <5>2 DEF Accepts
          <6> QED
            BY <5>1, <6>1, <6>2, LenProperties
        <5> QED
          BY <3>1, <5>1, <5>2 DEF Accepts
    <3>2. CASE UNCHANGED <<requests, openSeen, applied>>
      BY <3>2 DEF ForgeTypeOK
    <3> QED
      BY <1>3, <3>1, <3>2 DEF Send
  <2> QED
    BY <1>0, <1>3, <2>1 DEF Send, ForgeTypeOK
<1>4. CASE OpensRequest
  <2>1. requests' \in Seq(RequestsMade) /\ openSeen' \subseteq Nat
    <3>1. \A own \in BOOLEAN : [own |-> own, open |-> TRUE, by |-> 0] \in RequestsMade
      BY DEF RequestsMade
    <3>2. \A own \in BOOLEAN : Append(requests, [own |-> own, open |-> TRUE, by |-> 0]) \in Seq(RequestsMade)
      BY <3>1, MoreRequests
    <3>3. requests' \in Seq(RequestsMade) /\ openSeen' = openSeen \cup {Len(requests')}
      BY <1>4, <3>2 DEF OpensRequest
    <3> QED
      BY <3>3, LenProperties DEF ForgeTypeOK
  <2> QED
    BY <1>0, <1>4, <2>1 DEF OpensRequest, OtherMoves, ForgeTypeOK
<1>5. CASE ClosesRequest
  <2>1. requests' \in Seq(RequestsMade)
    BY <1>5, LessRequests DEF ClosesRequest
  <2> QED
    BY <1>0, <1>5, <2>1 DEF ClosesRequest, OtherMoves, ForgeTypeOK
<1>6. CASE AccessChanges
  BY <1>0, <1>6 DEF AccessChanges, OtherMoves, Users, ForgeTypeOK
<1>7. CASE CheckMoves
  <2>1. checks' \in [state : [AllChecks -> ForgeStates], place : [RunChecks -> Nat]]
    BY <1>7 DEF CheckMoves, Newest, AllChecks, ForgeStates, ForgeTypeOK
  <2> QED
    BY <1>0, <1>7, <2>1 DEF CheckMoves, OtherMoves, ForgeTypeOK
<1>8. CASE UNCHANGED forgeVars
  BY <1>8 DEF forgeVars, ForgeTypeOK
<1> QED
  BY <1>1, <1>2, <1>3, <1>4, <1>5, <1>6, <1>7, <1>8 DEF ForgeNext

\* A new client: well-typed, and nothing is told yet.
LEMMA InitForge == ForgeInit => ForgeTypeOK /\ RequestInv /\ StatusInv /\ FeedbackInv
<1> SUFFICES ASSUME ForgeInit PROVE ForgeTypeOK /\ RequestInv /\ StatusInv /\ FeedbackInv
  OBVIOUS
<1>1. forgeCall \in ForgeCallRecords /\ forgeCall.pc = "idle"
  BY CallsTyped DEF ForgeInit
<1>2. /\ requests = <<>> /\ answer.is = "none" /\ steady = {} /\ forgeCalls = 0
      /\ \A c \in RunChecks \cup StatusChecks : checks.state[c] = "none"
      /\ \A c \in RunChecks : checks.place[c] = 0
      /\ checks \in [state : [AllChecks -> ForgeStates], place : [RunChecks -> Nat]]
  BY DEF ForgeInit, AllChecks, ForgeStates
<1>3. levelCache = <<>> /\ DOMAIN levelCache = {}
  BY DEF ForgeInit
<1>4. ForgeTypeOK
  <2>1. theme \in {"requests", "checks", "access"}
    BY DEF ForgeInit, Ops
  <2>2. requests \in Seq(RequestsMade) /\ openSeen \subseteq Nat /\ applied \in BOOLEAN
    BY <1>2, EmptySeq DEF ForgeInit
  <2>3. levels \in [Projects \X Users -> {"none", "developer"}] /\ had \subseteq Projects \X Users
    BY DEF ForgeInit
  <2> QED
    BY <1>1, <1>2, <1>3, <2>1, <2>2, <2>3 DEF ForgeInit, ForgeTypeOK
<1>5. RequestInv
  BY <1>1, <1>2 DEF RequestInv, OpenIsSeen, OpenRequests, MadeByCalls, HandedOut, ForgeAnswerTrue
<1>6. StatusInv
  BY <1>1, <1>2 DEF StatusInv, SteadyIsBad, Bad, ListWhole, PagesRead, SuccessCoversChecks
<1>7. FeedbackInv
  BY <1>1, <1>2, <1>3 DEF FeedbackInv, LevelsWereTrue, TrustedFeedback, ForgeInit
<1> QED
  BY <1>4, <1>5, <1>6, <1>7

-----------------------------------------------------------------------------
(* Merge requests: the steps                                               *)

\* Every step keeps what is known of the requests and the answer true.
LEMMA StepRequests == ForgeTypeOK /\ RequestInv /\ [ForgeNext]_forgeVars => RequestInv'
<1> SUFFICES ASSUME ForgeTypeOK, RequestInv, [ForgeNext]_forgeVars PROVE RequestInv'
  OBVIOUS
<1>0. forgeCall \in ForgeCallRecords /\ NoForgeCall.pc = "idle"
  BY CallsTyped DEF ForgeTypeOK
<1>a. forgeCalls \in Nat /\ Len(requests) \in Nat
  BY LenProperties DEF ForgeTypeOK
<1> USE DEF RequestInv, OpenIsSeen, OpenRequests, MadeByCalls, HandedOut, ForgeAnswerTrue
<1>1. CASE BeginForgeCall
  <2>1. /\ UNCHANGED requests /\ answer'.is = "none" /\ openSeen' = OpenRequests
        /\ forgeCalls' = forgeCalls + 1
    BY <1>1 DEF BeginForgeCall
  <2>2. \A i \in 1..Len(requests) : requests[i].by \in Nat
    <3>1. requests \in Seq(RequestsMade)
      BY DEF ForgeTypeOK
    <3>2. \A i \in 1..Len(requests) : requests[i] \in RequestsMade
      BY <3>1, ElementOfSeq
    <3> QED
      BY <3>2 DEF RequestsMade
  <2> QED
    BY <1>a, <2>1, <2>2
<1>2. CASE \/ ProjectId \/ ReadFails \/ NothingToDo \/ ReadOne
           \/ ReadHead \/ ReadChecks \/ ReadStatuses \/ ReadThreads \/ ReadAuthors
  <2>1. UNCHANGED <<requests, openSeen, applied, forgeCalls>>
    BY <1>2, ClientSteps
  <2>2. forgeCall.pc \notin {"idle", "send"}
    BY <1>2 DEF ProjectId, ReadFails, NothingToDo, ReadOne, ReadHead, ReadChecks, ReadStatuses,
       ReadThreads, ReadAuthors
  <2>3. answer' = answer \/ answer'.is \notin {"request", "done"}
    <3>1. CASE ProjectId \/ ReadFails \/ NothingToDo \/ ReadOne \/ ReadHead
      BY <3>1 DEF ProjectId, ReadFails, NothingToDo, ReadOne, ReadHead, Raises, Gives, Post
    <3>2. CASE ReadChecks \/ ReadStatuses
      BY <3>2 DEF ReadChecks, ReadStatuses, GitLabJobs, Unknown, Answer, Gives
    <3>3. CASE ReadThreads \/ ReadAuthors
      <4>1. \A comments : Filtered(comments).is = "feedback"
        BY DEF Filtered
      <4>2. CASE ReadThreads
        BY <4>1, <4>2 DEF ReadThreads, GitLabComments, GitHubComments, Gives
      <4>3. CASE ReadAuthors
        BY <4>1, <4>3 DEF ReadAuthors, Gives
      <4> QED
        BY <3>3, <4>2, <4>3
    <3> QED
      BY <1>2, <3>1, <3>2, <3>3
  <2> QED
    BY <2>1, <2>2, <2>3
<1>3. CASE ListRequests
  <2>1. UNCHANGED <<requests, openSeen, applied, forgeCalls>> /\ forgeCall.pc = "list"
    BY <1>3, ClientSteps DEF ListRequests
  <2>2. answer' = answer \/ \E i \in Own(OpenRequests) : Reuse(i)
    BY <1>3 DEF ListRequests, OwnOpenMrUrl, OwnOpenPr, Post, Own
  <2>3. CASE answer' = answer
    BY <2>1, <2>3
  <2>4. ASSUME NEW i \in Own(OpenRequests), Reuse(i) PROVE RequestInv'
    <3>1. /\ i \in 1..Len(requests) /\ requests[i].own /\ i \in openSeen
          /\ requests[i].by # forgeCalls
      BY <2>1, <2>4 DEF Own
    <3>2. answer' = [is |-> "request", url |-> i, created |-> FALSE] /\ forgeCall'.pc = "idle"
      BY <1>0, <2>4 DEF Reuse, Gives
    <3> QED
      BY <2>1, <3>1, <3>2
  <2> QED
    BY <2>2, <2>3, <2>4
<1>4. CASE Send
  <2>1. /\ forgeCall.pc = "send" /\ UNCHANGED forgeCalls
    BY <1>4 DEF Send
  <2>2. SendAgain \/ Refused => forgeCall'.pc \in {"idle", "send"} /\ (answer' = answer \/ answer'.is \in {"error", "raised"})
    BY <1>0, <2>1 DEF SendAgain, Refused, Raises, Gives, ForgeCallRecords
  <2>3. CASE UNCHANGED <<requests, openSeen, applied>> /\ (SendAgain \/ Refused)
    BY <2>1, <2>2, <2>3
  <2>4. CASE Accepts /\ (Accepted \/ SendAgain) /\ forgeCall.op # "create"
    <3>1. UNCHANGED <<requests, openSeen>> /\ applied' = TRUE
      BY <2>4 DEF Accepts
    <3>2. /\ forgeCall'.pc \in {"idle", "send"}
          /\ answer' = answer \/ answer'.is \in {"error", "raised", "done"}
      BY <1>0, <2>2, <2>4 DEF Accepted, Gives
    <3> QED
      BY <2>1, <3>1, <3>2
  <2>5. CASE Accepts /\ (Accepted \/ SendAgain) /\ forgeCall.op = "create"
    <3> DEFINE made == [own |-> TRUE, open |-> TRUE, by |-> forgeCalls]
    <3>1. made \in RequestsMade
      BY <1>a DEF RequestsMade
    <3>2. /\ requests' = Append(requests, made) /\ openSeen' = openSeen \cup {Len(requests')}
          /\ UNCHANGED applied
      BY <2>5 DEF Accepts
    <3>3. /\ Len(requests') = Len(requests) + 1 /\ requests'[Len(requests')] = made
          /\ \A i \in 1..Len(requests) : requests'[i] = requests[i]
      BY <3>1, <3>2, MoreRequests
    <3>4. /\ forgeCall'.pc \in {"idle", "send"}
          /\ \/ answer' = answer \/ answer'.is \in {"error", "raised"}
             \/ answer' = [is |-> "request", url |-> Len(requests'), created |-> TRUE]
      BY <1>0, <2>2, <2>5 DEF Accepted, Gives
    <3>5. OpenIsSeen' /\ MadeByCalls'
      BY <1>a, <2>1, <3>2, <3>3, <3>4
    <3>6. HandedOut' /\ ForgeAnswerTrue'
      BY <1>a, <2>1, <3>2, <3>3, <3>4
    <3> QED
      BY <3>5, <3>6
  <2> QED
    BY <1>4, <2>3, <2>4, <2>5 DEF Send
<1>5. CASE OpensRequest
  <2>1. PICK own \in BOOLEAN : requests' = Append(requests, [own |-> own, open |-> TRUE, by |-> 0])
    BY <1>5 DEF OpensRequest
  <2> DEFINE made == [own |-> own, open |-> TRUE, by |-> 0]
  <2>2. made \in RequestsMade
    BY DEF RequestsMade
  <2>3. /\ Len(requests') = Len(requests) + 1 /\ requests'[Len(requests')] = made
        /\ \A i \in 1..Len(requests) : requests'[i] = requests[i]
    BY <2>1, <2>2, MoreRequests
  <2>4. /\ openSeen' = openSeen \cup {Len(requests')}
        /\ UNCHANGED <<forgeCall, answer, applied, forgeCalls>>
    BY <1>5 DEF OpensRequest
  <2>5. OpenIsSeen' /\ MadeByCalls'
    BY <1>a, <2>3, <2>4
  <2>6. HandedOut' /\ ForgeAnswerTrue'
    BY <1>a, <2>3, <2>4
  <2> QED
    BY <2>5, <2>6
<1>6. CASE ClosesRequest
  <2>1. PICK i \in 1..Len(requests) : requests' = [requests EXCEPT ![i].open = FALSE]
    BY <1>6 DEF ClosesRequest
  <2>2. /\ Len(requests') = Len(requests)
        /\ \A j \in 1..Len(requests) :
             requests'[j].own = requests[j].own /\ requests'[j].by = requests[j].by
             /\ (requests'[j].open => requests[j].open)
    BY <2>1, LessRequests
  <2>3. UNCHANGED <<forgeCall, answer, openSeen, applied, forgeCalls>>
    BY <1>6 DEF ClosesRequest
  <2> QED
    BY <2>2, <2>3
<1>7. CASE AccessChanges \/ CheckMoves \/ UNCHANGED forgeVars
  <2>1. UNCHANGED <<forgeCall, answer, requests, openSeen, applied, forgeCalls>>
    BY <1>7 DEF AccessChanges, CheckMoves, forgeVars
  <2> QED
    BY <2>1
<1> QED
  BY <1>1, <1>2, <1>3, <1>4, <1>5, <1>6, <1>7 DEF ForgeNext

-----------------------------------------------------------------------------
(* CI status: the steps                                                    *)

\* "success" is derived only from checks none of which runs or has failed.
LEMMA DeriveSuccess ==
  ASSUME NEW read, NEW ignored, Derive(read, ignored) = "success"
  PROVE  \A r \in read : r[1] \notin ignored => r[2] \notin Bad
<1> DEFINE states == {r[2] : r \in {s \in read : s[1] \notin ignored}}
<1>1. "running" \notin states /\ "failed" \notin states
  BY Zenon DEF Derive
<1> QED
  BY <1>1 DEF Bad

\* A check run that starts moves the others one place back at most, leaves no
\* gap, and comes first.
LEMMA NewestFirst ==
  ASSUME ForgeTypeOK, ListWhole, NEW c \in RunChecks
  PROVE  LET list == Newest(c) IN
         /\ list \in [RunChecks -> Nat] /\ list[c] = 1
         /\ \A d \in RunChecks \ {c} : list[d] >= checks.place[d]
         /\ \A d \in RunChecks : \E e \in RunChecks : list[e] >= checks.place[d]
         /\ \A d \in RunChecks : \A q \in 1..list[d] : \E e \in RunChecks : list[e] = q
<1> DEFINE place == checks.place
           list == Newest(c)
<1>1. place \in [RunChecks -> Nat]
  BY DEF ForgeTypeOK
<1>2. \A d \in RunChecks : \A q \in 1..place[d] : \E e \in RunChecks : place[e] = q
  BY DEF ListWhole
<1>3. /\ list \in [RunChecks -> Nat]
      /\ \A d \in RunChecks :
           list[d] = IF d = c THEN 1
                     ELSE IF place[d] > 0 /\ (place[c] = 0 \/ place[d] < place[c]) THEN place[d] + 1
                     ELSE place[d]
  BY <1>1 DEF Newest
<1> HIDE DEF place, list
<1>4. \A d \in RunChecks \ {c} : list[d] >= place[d]
  BY <1>1, <1>3
<1>5. ASSUME NEW d \in RunChecks PROVE \E e \in RunChecks : list[e] >= place[d]
  <2>1. CASE d # c
    BY <1>4, <2>1, <1>1, <1>3
  <2>2. CASE d = c /\ place[c] <= 1
    BY <1>1, <1>3, <2>2
  <2>3. CASE d = c /\ place[c] > 1
    <3>1. place[c] - 1 \in 1..place[c]
      BY <1>1, <2>3
    <3>2. PICK e \in RunChecks : place[e] = place[c] - 1
      BY <1>2, <3>1
    <3> QED
      BY <1>1, <1>3, <2>3, <3>2
  <2> QED
    BY <1>1, <2>1, <2>2, <2>3
<1>6. ASSUME NEW d \in RunChecks, NEW q \in 1..list[d] PROVE \E e \in RunChecks : list[e] = q
  <2>1. CASE q = 1
    BY <1>3, <2>1
  <2>2. CASE q > 1 /\ (place[c] = 0 \/ q <= place[c])
    <3>1. d # c /\ q - 1 \in 1..place[d]
      BY <1>1, <1>3, <2>2
    <3>2. PICK e \in RunChecks : place[e] = q - 1
      BY <1>2, <3>1
    <3> QED
      BY <1>1, <1>3, <2>2, <3>2
  <2>3. CASE q > 1 /\ place[c] > 0 /\ q > place[c]
    <3>1. d # c /\ q \in 1..place[d]
      BY <1>1, <1>3, <2>3
    <3>2. PICK e \in RunChecks : place[e] = q
      BY <1>2, <3>1
    <3> QED
      BY <1>1, <1>3, <2>3, <3>2
  <2> QED
    BY <1>1, <1>3, <2>1, <2>2, <2>3
<1> QED
  BY <1>3, <1>4, <1>5, <1>6 DEF place, list

\* A move of a check: the list stays whole and nobody who is steady moves forward.
LEMMA ChecksMove ==
  ASSUME ForgeTypeOK, ListWhole, SteadyIsBad, CheckMoves
  PROVE  /\ ListWhole' /\ SteadyIsBad' /\ steady' \subseteq steady
         /\ \A d \in steady' : checks'.state[d] = checks.state[d]
         /\ \A d \in steady' \cap RunChecks : checks'.place[d] >= checks.place[d]
         /\ \A d \in RunChecks : \E e \in RunChecks : checks'.place[e] >= checks.place[d]
<1>1. PICK c \in AllChecks, to \in {"running", "passed", "failed"} :
        /\ to = "running" \/ checks.state[c] = "running"
        /\ checks' = [state |-> [checks.state EXCEPT ![c] = to],
                      place |-> IF to = "running" /\ c \in RunChecks THEN Newest(c) ELSE checks.place]
        /\ steady' = steady \ {c}
  BY DEF CheckMoves, AllChecks
<1>2. checks.state \in [AllChecks -> ForgeStates] /\ checks.place \in [RunChecks -> Nat] /\ steady \subseteq AllChecks
  BY DEF ForgeTypeOK
<1>3. /\ checks'.state[c] = to
      /\ \A d \in AllChecks \ {c} : checks'.state[d] = checks.state[d]
  BY <1>1, <1>2
<1>4. \A d \in steady' : checks'.state[d] = checks.state[d]
  BY <1>1, <1>2, <1>3
<1>5. CASE to = "running" /\ c \in RunChecks
  <2>1. checks'.place = Newest(c)
    BY <1>1, <1>5
  <2>2. /\ \A d \in RunChecks : \E e \in RunChecks : checks'.place[e] >= checks.place[d]
        /\ \A d \in RunChecks : \A q \in 1..checks'.place[d] : \E e \in RunChecks : checks'.place[e] = q
    <3> DEFINE list == Newest(c)
    <3>1. /\ \A d \in RunChecks : \E e \in RunChecks : list[e] >= checks.place[d]
          /\ \A d \in RunChecks : \A q \in 1..list[d] : \E e \in RunChecks : list[e] = q
      BY <1>5, NewestFirst
    <3> HIDE DEF list
    <3>2. checks'.place = list
      BY <2>1 DEF list
    <3> QED
      BY <3>1, <3>2
  <2>5. ListWhole'
    BY <2>2 DEF ListWhole
  <2>3. /\ checks'.place[c] = 1 /\ checks'.place \in [RunChecks -> Nat]
        /\ \A d \in RunChecks \ {c} : checks'.place[d] >= checks.place[d]
    BY <1>5, <2>1, NewestFirst
  <2>4. SteadyIsBad'
    BY <1>1, <1>2, <1>3, <1>4, <2>3 DEF SteadyIsBad, AllChecks
  <2> QED
    BY <1>1, <1>4, <2>2, <2>3, <2>4, <2>5
<1>6. CASE ~(to = "running" /\ c \in RunChecks)
  <2>1. checks'.place = checks.place
    BY <1>1, <1>6
  <2>2. SteadyIsBad'
    BY <1>1, <1>2, <1>3, <1>4, <1>6, <2>1 DEF SteadyIsBad, AllChecks, Bad
  <2>3. \A d \in RunChecks : checks'.place[d] >= checks.place[d]
    BY <1>2, <2>1
  <2> QED
    BY <1>1, <1>4, <2>1, <2>2, <2>3 DEF ListWhole
<1> QED
  BY <1>5, <1>6

\* Every step keeps the reading of the pages whole and "success" earned.
LEMMA StepStatus == ForgeTypeOK /\ StatusInv /\ [ForgeNext]_forgeVars => StatusInv'
<1> SUFFICES ASSUME ForgeTypeOK, StatusInv, [ForgeNext]_forgeVars PROVE StatusInv'
  OBVIOUS
<1>0. forgeCall \in ForgeCallRecords /\ NoForgeCall.pc = "idle"
  BY CallsTyped DEF ForgeTypeOK
<1>a. /\ checks.state \in [AllChecks -> ForgeStates] /\ checks.place \in [RunChecks -> Nat]
      /\ steady \subseteq AllChecks /\ kind \in {"gitlab", "github"}
  BY DEF ForgeTypeOK
<1>b. SteadyIsBad /\ ListWhole /\ PagesRead /\ SuccessCoversChecks
  BY DEF StatusInv
<1>1. CASE BeginForgeCall
  <2>1. /\ UNCHANGED checks /\ answer'.is = "none" /\ UNCHANGED kind
        /\ steady' = {c \in DOMAIN checks.state : checks.state[c] \in Bad}
        /\ forgeCall'.pc = "project" /\ forgeCall'.page = 1
    BY <1>1 DEF BeginForgeCall, CallOf
  <2> QED
    BY <1>b, <2>1 DEF StatusInv, SteadyIsBad, ListWhole, PagesRead, SuccessCoversChecks
<1>2. CASE CheckMoves
  <2>1. UNCHANGED <<kind, forgeCall, answer>>
    BY <1>2 DEF CheckMoves
  <2>2. /\ ListWhole' /\ SteadyIsBad' /\ steady' \subseteq steady
        /\ \A d \in steady' : checks'.state[d] = checks.state[d]
        /\ \A d \in steady' \cap RunChecks : checks'.place[d] >= checks.place[d]
        /\ \A d \in RunChecks : \E e \in RunChecks : checks'.place[e] >= checks.place[d]
    BY <1>2, <1>b, ChecksMove
  <2>3. checks' \in [state : [AllChecks -> ForgeStates], place : [RunChecks -> Nat]] /\ JobsPage \in Nat
    BY StepForgeTyped, ForgeAssumption DEF ForgeTypeOK
  <2>4. PagesRead'
    <3>1. forgeCall.page \in Nat
      BY <1>0 DEF ForgeCallRecords
    <3> QED
      BY <1>a, <1>b, <2>1, <2>2, <2>3, <3>1 DEF PagesRead
  <2>5. SuccessCoversChecks'
    <3>1. (\E d \in RunChecks : checks.place[d] > JobsPage) => \E e \in RunChecks : checks'.place[e] > JobsPage
      BY <1>a, <2>2, <2>3
    <3> QED
      BY <1>b, <2>1, <2>2, <3>1 DEF SuccessCoversChecks
  <2> QED
    BY <2>2, <2>4, <2>5 DEF StatusInv
<1>3. CASE \/ Send \/ OpensRequest \/ ClosesRequest \/ AccessChanges \/ UNCHANGED forgeVars
  <2>1. UNCHANGED <<kind, checks, steady>>
    BY <1>3 DEF Send, OpensRequest, ClosesRequest, AccessChanges, forgeVars
  <2>2. /\ \/ forgeCall' = forgeCall
           \/ forgeCall'.pc \in {"idle", "send"}
        /\ answer' = answer \/ answer'.is # "status"
    <3>1. CASE Send
      BY <1>0, <3>1 DEF Send, Accepted, Refused, SendAgain, Raises, Gives, ForgeCallRecords
    <3>2. CASE OpensRequest \/ ClosesRequest \/ AccessChanges \/ UNCHANGED forgeVars
      BY <3>2 DEF OpensRequest, ClosesRequest, AccessChanges, forgeVars
    <3> QED
      BY <1>3, <3>1, <3>2
  <2> QED
    BY <1>b, <2>1, <2>2 DEF StatusInv, SteadyIsBad, ListWhole, PagesRead, SuccessCoversChecks
<1>4. CASE \/ ProjectId \/ ReadFails \/ NothingToDo \/ ReadOne \/ ListRequests \/ ReadHead
           \/ ReadThreads \/ ReadAuthors
  <2>1. UNCHANGED <<kind, checks, steady>>
    BY <1>4, ClientSteps
  <2>2. answer' = answer \/ answer'.is # "status"
    <3>1. CASE ProjectId \/ ReadFails \/ NothingToDo \/ ReadOne \/ ReadHead
      BY <3>1 DEF ProjectId, ReadFails, NothingToDo, ReadOne, ReadHead, Raises, Gives, Post
    <3>2. CASE ListRequests
      <4>1. \A i : Reuse(i) => answer'.is = "request"
        BY DEF Reuse, Gives
      <4> QED
        BY <3>2, <4>1 DEF ListRequests, OwnOpenMrUrl, OwnOpenPr, Post
    <3>3. \A comments : Filtered(comments).is = "feedback"
      BY DEF Filtered
    <3>4. CASE ReadThreads
      BY <3>3, <3>4 DEF ReadThreads, GitLabComments, GitHubComments, Gives
    <3>5. CASE ReadAuthors
      BY <3>3, <3>5 DEF ReadAuthors, Gives
    <3> QED
      BY <1>4, <3>1, <3>2, <3>4, <3>5
  <2>3. PagesRead'
    <3>1. CASE ProjectId
      <4>1. \/ forgeCall'.pc = "idle"
            \/ /\ forgeCall.pc = "project" /\ forgeCall'.pc \in {"list", "head", "threads", "read", "send"}
               /\ forgeCall'.page = forgeCall.page
        BY <1>0, <3>1, FirstIsPlace DEF ProjectId, Raises, Gives, ForgeCallRecords
      <4> QED
        BY <1>b, <4>1 DEF PagesRead
    <3>2. CASE ReadHead
      <4>1. /\ forgeCall.pc = "head" /\ forgeCall'.pc = "checks" /\ forgeCall'.page = forgeCall.page
        BY <1>0, <3>2 DEF ReadHead, ForgeCallRecords
      <4>2. \A c \in steady \cap RunChecks : checks.place[c] >= 1
        BY <1>a, <1>b DEF SteadyIsBad
      <4> QED
        BY <1>b, <2>1, <4>1, <4>2 DEF PagesRead
    <3>3. CASE ReadFails \/ NothingToDo \/ ReadOne
      <4>1. forgeCall'.pc \in {"idle", "send"}
        BY <1>0, <3>3 DEF ReadFails, NothingToDo, ReadOne, Raises, Gives, Post, ForgeCallRecords
      <4> QED
        BY <4>1 DEF PagesRead
    <3>4. CASE ListRequests
      <4>1. forgeCall'.pc \in {"idle", "send", "list"}
        BY <1>0, <3>4 DEF ListRequests, OwnOpenMrUrl, OwnOpenPr, Post, Reuse, Gives, ForgeCallRecords
      <4> QED
        BY <4>1 DEF PagesRead
    <3>5. CASE ReadThreads
      <4>1. forgeCall'.pc \in {"idle", "authors"}
        BY <1>0, <3>5 DEF ReadThreads, GitLabComments, GitHubComments, Gives, ForgeCallRecords
      <4> QED
        BY <4>1 DEF PagesRead
    <3>6. CASE ReadAuthors
      <4>1. forgeCall'.pc \in {"idle", "authors"}
        BY <1>0, <3>6 DEF ReadAuthors, MemberAccessLevel, Comment, Gives, ForgeCallRecords
      <4> QED
        BY <4>1 DEF PagesRead
    <3> QED
      BY <1>4, <3>1, <3>2, <3>3, <3>4, <3>5, <3>6
  <2> QED
    BY <1>b, <2>1, <2>2, <2>3 DEF StatusInv, SteadyIsBad, ListWhole, SuccessCoversChecks
<1>5. CASE ReadChecks
  <2>1. UNCHANGED <<kind, checks, steady>> /\ forgeCall.pc = "checks"
    BY <1>5, ClientSteps DEF ReadChecks
  <2>2. CASE Unknown
    <3>1. forgeCall'.pc = "idle" /\ answer'.state = "unknown"
      BY <1>0, <2>2 DEF Unknown, Gives
    <3> QED
      BY <1>b, <2>1, <3>1 DEF StatusInv, SteadyIsBad, ListWhole, PagesRead, SuccessCoversChecks
  <2>3. CASE kind = "gitlab" /\ GitLabJobs
    <3> DEFINE listed == {c \in RunChecks : checks.place[c] > 0}
               first == {c \in listed : checks.place[c] <= JobsPage}
               read == Reported(IF forgeCall.ignored = {} THEN listed ELSE first)
    <3>1. /\ forgeCall'.pc = "idle" /\ answer'.is = "status" /\ answer'.ignored = forgeCall.ignored
          /\ answer'.state = Derive(read, forgeCall.ignored)
      BY <1>0, <2>3 DEF GitLabJobs, Answer, Gives
    <3>2. ASSUME answer'.state = "success", NEW c \in steady \ forgeCall.ignored, c \notin StatusChecks
          PROVE  forgeCall.ignored # {} /\ checks.place[c] > JobsPage
      <4>1. c \in RunChecks /\ checks.state[c] \in Bad /\ checks.place[c] > 0
        BY <1>a, <1>b, <3>2 DEF AllChecks, SteadyIsBad
      <4>2. <<c, checks.state[c]>> \notin read
        BY <3>1, <3>2, <4>1, DeriveSuccess
      <4>3. JobsPage \in Nat /\ checks.place[c] \in Nat
        BY <1>a, <4>1, ForgeAssumption
      <4> QED
        BY <4>1, <4>2, <4>3 DEF Reported
    <3>3. SuccessCoversChecks'
      BY <1>a, <2>1, <2>3, <3>1, <3>2 DEF SuccessCoversChecks, AllChecks
    <3> QED
      BY <1>b, <2>1, <3>1, <3>3 DEF StatusInv, SteadyIsBad, ListWhole, PagesRead
  <2>4. CASE kind = "github" /\ CheckRuns /\ UNCHANGED answer
    <3>1. SuccessCoversChecks' /\ SteadyIsBad' /\ ListWhole'
      BY <1>b, <2>1, <2>4 DEF SuccessCoversChecks, SteadyIsBad, ListWhole
    <3>2. PagesRead'
      <4>1. CASE \A c \in RunChecks : checks.place[c] < forgeCall.page
        <5>1. forgeCall'.pc = "statuses" /\ forgeCall'.got = forgeCall.got
          BY <1>0, <2>4, <4>1 DEF CheckRuns, ForgeCallRecords
        <5>2. forgeCall.page \in Nat
          BY <1>0 DEF ForgeCallRecords
        <5> QED
          BY <1>a, <1>b, <2>1, <2>4, <4>1, <5>1, <5>2 DEF PagesRead
      <4>2. CASE ~ \A c \in RunChecks : checks.place[c] < forgeCall.page
        <5> DEFINE page == {c \in RunChecks : checks.place[c] = forgeCall.page}
        <5>1. /\ forgeCall'.pc = "checks" /\ forgeCall'.got = forgeCall.got \cup Reported(page)
              /\ forgeCall'.page = forgeCall.page + 1
          BY <1>0, <2>1, <2>4, <4>2 DEF CheckRuns, ForgeCallRecords
        <5>2. forgeCall.page \in Nat
          BY <1>0 DEF ForgeCallRecords
        <5>3. \A c \in page : <<c, checks.state[c]>> \in Reported(page)
          BY DEF Reported
        <5>4. \A c \in steady \cap RunChecks :
                <<c, checks.state[c]>> \in forgeCall'.got \/ checks.place[c] >= forgeCall'.page
          BY <1>a, <1>b, <2>1, <2>4, <5>1, <5>2, <5>3 DEF PagesRead
        <5> QED
          BY <2>1, <5>1, <5>4 DEF PagesRead
      <4> QED
        BY <4>1, <4>2
    <3> QED
      BY <3>1, <3>2 DEF StatusInv
  <2> QED
    BY <1>5, <2>2, <2>3, <2>4 DEF ReadChecks
<1>6. CASE ReadStatuses
  <2>1. UNCHANGED <<kind, checks, steady>> /\ forgeCall.pc = "statuses"
    BY <1>6, ClientSteps DEF ReadStatuses
  <2>2. /\ kind = "github"
        /\ \A c \in steady \cap RunChecks : <<c, checks.state[c]>> \in forgeCall.got
    BY <1>b, <2>1 DEF PagesRead
  <2>3. forgeCall'.pc = "idle"
    BY <1>0, <1>6 DEF ReadStatuses, Answer, Gives
  <2> DEFINE told == Reported({c \in StatusChecks : checks.state[c] # "none"})
  <2>4. /\ answer'.ignored = forgeCall.ignored
        /\ \/ answer'.state = Derive(forgeCall.got \cup told, forgeCall.ignored) /\ answer'.all
           \/ answer'.state = Derive(forgeCall.got, forgeCall.ignored) /\ ~answer'.all
    BY <1>6 DEF ReadStatuses, Answer, Gives
  <2>8. \A c \in StatusChecks : checks.state[c] # "none" => <<c, checks.state[c]>> \in told
    BY DEF Reported
  <2> HIDE DEF told
  <2>6. ASSUME answer'.state = "success", NEW c \in steady \ forgeCall.ignored
        PROVE  c \in StatusChecks /\ ~answer'.all
    <3>1. checks.state[c] \in Bad /\ c \in AllChecks
      BY <1>a, <1>b, <2>6 DEF SteadyIsBad
    <3>2. <<c, checks.state[c]>> \notin forgeCall.got
      <4>1. CASE Derive(forgeCall.got \cup told, forgeCall.ignored) = "success"
        <5>1. \A r \in forgeCall.got \cup told : r[1] \notin forgeCall.ignored => r[2] \notin Bad
          BY <4>1, DeriveSuccess
        <5> QED
          BY <2>6, <3>1, <5>1
      <4>2. CASE Derive(forgeCall.got, forgeCall.ignored) = "success"
        BY <2>6, <3>1, <4>2, DeriveSuccess
      <4> QED
        BY <2>4, <2>6, <4>1, <4>2
    <3>3. c \in StatusChecks
      BY <2>2, <2>6, <3>1, <3>2 DEF AllChecks
    <3>4. ~answer'.all
      <4>1. SUFFICES ASSUME Derive(forgeCall.got \cup told, forgeCall.ignored) = "success" PROVE FALSE
        BY <2>4, <2>6
      <4>2. <<c, checks.state[c]>> \in told
        BY <2>8, <3>1, <3>3 DEF Bad
      <4> QED
        BY <2>6, <3>1, <4>1, <4>2, DeriveSuccess
    <3> QED
      BY <3>3, <3>4
  <2>7. SuccessCoversChecks'
    BY <2>1, <2>2, <2>4, <2>6 DEF SuccessCoversChecks
  <2> QED
    BY <1>b, <2>1, <2>3, <2>7 DEF StatusInv, SteadyIsBad, ListWhole, PagesRead
<1> QED
  BY <1>1, <1>2, <1>3, <1>4, <1>5, <1>6 DEF ForgeNext

-----------------------------------------------------------------------------
(* Feedback: the steps                                                     *)

\* Nobody but the bot has the bot's account, whatever name is shown.
LEMMA BotAccount ==
  ASSUME ForgeTypeOK, NEW u, AccountId(u) = AccountId(Bot)
  PROVE  u = Bot
<1>1. CASE kind = "gitlab"
  BY <1>1 DEF AccountId
<1>2. CASE kind = "github"
  <2>1. <<Shown(u), u = Bot>> = <<Shown(Bot), Bot = Bot>>
    BY <1>2 DEF AccountId
  <2>2. (u = Bot) = (Bot = Bot)
    BY <2>1
  <2> QED
    BY <2>2, Zenon
<1> QED
  BY <1>1, <1>2 DEF ForgeTypeOK

\* Filtering keeps what the bot wrote, or whose level is Developer.
LEMMA FilterKeeps ==
  ASSUME ForgeTypeOK, NEW comments,
         \A c \in comments :
           ~c.system /\ (c.level = "developer" => <<forgeCall.project, c.author>> \in had),
         Gives(Filtered(comments)), UNCHANGED had
  PROVE  TrustedFeedback'
<1>1. /\ answer'.project = forgeCall.project
      /\ answer'.kept = {c \in comments : Trusted(c)}
  BY DEF Gives, Filtered
<1>2. ASSUME NEW c \in comments, Trusted(c)
      PROVE  c.author = Bot \/ c.level = "developer"
  BY <1>2, BotAccount DEF Trusted
<1> QED
  BY <1>1, <1>2 DEF TrustedFeedback

\* Every step keeps the levels once true and the feedback trusted.
LEMMA StepFeedback == ForgeTypeOK /\ FeedbackInv /\ [ForgeNext]_forgeVars => FeedbackInv'
<1> SUFFICES ASSUME ForgeTypeOK, FeedbackInv, [ForgeNext]_forgeVars PROVE FeedbackInv'
  OBVIOUS
<1>0. forgeCall \in ForgeCallRecords /\ NoForgeCall.pc = "idle"
  BY CallsTyped DEF ForgeTypeOK
<1>a. LevelsWereTrue /\ TrustedFeedback
  BY DEF FeedbackInv
<1>1. CASE BeginForgeCall
  <2>1. UNCHANGED <<levels, had, levelCache>> /\ answer'.is = "none"
    BY <1>1 DEF BeginForgeCall
  <2>2. forgeCall'.notes = {} /\ forgeCall'.comments = {}
    BY <1>1 DEF BeginForgeCall, CallOf
  <2> QED
    BY <1>a, <2>1, <2>2 DEF FeedbackInv, LevelsWereTrue, TrustedFeedback
<1>2. CASE \/ ProjectId \/ ReadFails \/ NothingToDo \/ ReadOne \/ ListRequests \/ ReadHead
           \/ ReadChecks \/ ReadStatuses \/ Send
  <2>1. UNCHANGED <<levels, had, levelCache>>
    BY <1>2 DEF ProjectId, ReadFails, NothingToDo, ReadOne, ListRequests, ReadHead, ReadChecks,
       ReadStatuses, Send, server
  <2>2. answer' = answer \/ answer'.is # "feedback"
    <3>1. CASE ProjectId \/ ReadFails \/ NothingToDo \/ ReadOne \/ ReadHead
      BY <3>1 DEF ProjectId, ReadFails, NothingToDo, ReadOne, ReadHead, Raises, Gives, Post
    <3>2. CASE ListRequests
      <4>1. \A i : Reuse(i) => answer'.is = "request"
        BY DEF Reuse, Gives
      <4> QED
        BY <3>2, <4>1 DEF ListRequests, OwnOpenMrUrl, OwnOpenPr, Post
    <3>3. CASE ReadChecks \/ ReadStatuses
      BY <3>3 DEF ReadChecks, ReadStatuses, GitLabJobs, Unknown, Answer, Gives
    <3>4. CASE Send
      BY <3>4 DEF Send, Accepted, Refused, SendAgain, Raises, Gives
    <3> QED
      BY <1>2, <3>1, <3>2, <3>3, <3>4
  <2>3. \/ forgeCall'.pc = "idle"
        \/ /\ forgeCall.pc # "idle" /\ forgeCall'.project = forgeCall.project
           /\ forgeCall'.notes = forgeCall.notes /\ forgeCall'.comments = forgeCall.comments
    <3>1. CASE ProjectId \/ ReadFails \/ NothingToDo \/ ReadOne \/ ReadHead
      BY <1>0, <3>1 DEF ProjectId, ReadFails, NothingToDo, ReadOne, ReadHead, Raises, Gives, Post, ForgeCallRecords
    <3>2. CASE ListRequests
      BY <1>0, <3>2 DEF ListRequests, OwnOpenMrUrl, OwnOpenPr, Post, Reuse, Gives, ForgeCallRecords
    <3>3. CASE ReadChecks \/ ReadStatuses
      BY <1>0, <3>3 DEF ReadChecks, CheckRuns, ReadStatuses, GitLabJobs, Unknown, Answer, Gives, ForgeCallRecords
    <3>4. CASE Send
      BY <1>0, <3>4 DEF Send, Accepted, Refused, SendAgain, Raises, Gives, ForgeCallRecords
    <3> QED
      BY <1>2, <3>1, <3>2, <3>3, <3>4
  <2> QED
    BY <1>a, <2>1, <2>2, <2>3 DEF FeedbackInv, LevelsWereTrue, TrustedFeedback
<1>3. CASE ReadThreads
  <2>1. UNCHANGED <<levels, had, levelCache>> /\ forgeCall.pc = "threads"
    BY <1>3, ClientSteps DEF ReadThreads
  <2>2. PICK notes \in SUBSET Notes :
          \/ GitLabComments(notes) /\ UNCHANGED answer
          \/ GitHubComments(notes)
    BY <1>3 DEF ReadThreads
  <2>3. CASE GitLabComments(notes) /\ UNCHANGED answer
    <3>1. /\ forgeCall'.notes = {n \in notes : ~n.system} /\ forgeCall'.comments = forgeCall.comments
          /\ forgeCall'.project = forgeCall.project
      BY <1>0, <2>3 DEF GitLabComments, ForgeCallRecords
    <3> QED
      BY <1>a, <2>1, <2>3, <3>1 DEF FeedbackInv, LevelsWereTrue, TrustedFeedback
  <2>4. CASE GitHubComments(notes)
    <3> DEFINE comments == {[author |-> n.author, system |-> FALSE,
                             level |-> levels[<<forgeCall.project, n.author>>]] : n \in notes}
    <3>1. Gives(Filtered(comments))
      BY <2>4 DEF GitHubComments
    <3>2. ASSUME NEW c \in comments
          PROVE  ~c.system /\ (c.level = "developer" => <<forgeCall.project, c.author>> \in had)
      <4>1. PICK n \in notes : c = [author |-> n.author, system |-> FALSE,
                                    level |-> levels[<<forgeCall.project, n.author>>]]
        OBVIOUS
      <4>2. <<forgeCall.project, n.author>> \in Projects \X Users
        BY <1>0 DEF ForgeCallRecords, Notes
      <4> QED
        BY <1>a, <4>1, <4>2 DEF LevelsWereTrue
    <3> HIDE DEF comments
    <3>3. TrustedFeedback'
      BY <2>1, <3>1, <3>2, FilterKeeps
    <3>4. forgeCall'.pc = "idle"
      BY <1>0, <3>1 DEF Gives
    <3> QED
      BY <1>a, <2>1, <3>3, <3>4 DEF FeedbackInv, LevelsWereTrue
  <2> QED
    BY <2>2, <2>3, <2>4
<1>4. CASE ReadAuthors
  <2>1. UNCHANGED <<levels, had>> /\ forgeCall.pc = "authors"
    BY <1>4, ClientSteps DEF ReadAuthors
  <2>2. ASSUME NEW note \in forgeCall.notes, MemberAccessLevel(note), UNCHANGED answer
        PROVE  FeedbackInv'
    <3> DEFINE who == <<forgeCall.project, note.author>>
    <3>1. who \in Projects \X Users /\ ~note.system
      BY <1>0, <1>a, <2>1 DEF ForgeCallRecords, Notes, LevelsWereTrue
    <3>2. PICK level :
            /\ level = "developer" => who \in had
            /\ Comment(note, level)
            /\ levelCache' = levelCache \/ levelCache' = Remembered(who, level)
      <4>1. CASE who \in DOMAIN levelCache /\ Comment(note, levelCache[who]) /\ UNCHANGED levelCache
        BY <1>a, <4>1 DEF LevelsWereTrue
      <4>2. CASE \E level \in {levels[who], "hidden"} : Comment(note, level) /\ levelCache' = Remembered(who, level)
        BY <1>a, <3>1, <4>2 DEF LevelsWereTrue
      <4> QED
        BY <2>2, <4>1, <4>2 DEF MemberAccessLevel
    <3>3. \A w \in DOMAIN levelCache' : levelCache'[w] = "developer" => w \in had
      BY <1>a, <3>2 DEF LevelsWereTrue, Remembered
    <3> DEFINE comment == [author |-> note.author, system |-> note.system, level |-> level]
    <3>4. /\ forgeCall'.notes = forgeCall.notes \ {note} /\ forgeCall'.project = forgeCall.project
          /\ forgeCall'.comments = forgeCall.comments \cup {comment}
      BY <1>0, <3>2 DEF Comment, ForgeCallRecords
    <3>5. ~comment.system /\ (comment.level = "developer" => <<forgeCall.project, comment.author>> \in had)
      BY <3>1, <3>2
    <3> HIDE DEF comment
    <3>6. LevelsWereTrue'
      BY <1>a, <2>1, <3>3, <3>4, <3>5 DEF LevelsWereTrue
    <3> QED
      BY <1>a, <2>1, <2>2, <3>6 DEF FeedbackInv, TrustedFeedback
  <2>3. CASE Gives(Filtered(forgeCall.comments)) /\ UNCHANGED levelCache
    <3>1. TrustedFeedback'
      BY <1>a, <2>1, <2>3, FilterKeeps DEF LevelsWereTrue
    <3>2. forgeCall'.pc = "idle"
      BY <1>0, <2>3 DEF Gives
    <3> QED
      BY <1>a, <2>1, <2>3, <3>1, <3>2 DEF FeedbackInv, LevelsWereTrue
  <2> QED
    BY <1>4, <2>2, <2>3 DEF ReadAuthors
<1>5. CASE AccessChanges
  <2>1. /\ UNCHANGED <<forgeCall, answer, levelCache>> /\ had \subseteq had'
        /\ \A w \in Projects \X Users : levels'[w] = "developer" => w \in had'
    <3>1. PICK p \in Projects, u \in People, level \in {"none", "developer"} :
            /\ levels' = [levels EXCEPT ![<<p, u>>] = level]
            /\ had' = had \cup (IF level = "developer" THEN {<<p, u>>} ELSE {})
      BY <1>5 DEF AccessChanges
    <3> QED
      BY <1>5, <1>a, <3>1 DEF AccessChanges, LevelsWereTrue, ForgeTypeOK
  <2> QED
    BY <1>a, <2>1 DEF FeedbackInv, LevelsWereTrue, TrustedFeedback
<1>6. CASE OpensRequest \/ ClosesRequest \/ CheckMoves \/ UNCHANGED forgeVars
  <2>1. UNCHANGED <<forgeCall, answer, levels, had, levelCache>>
    BY <1>6 DEF OpensRequest, ClosesRequest, CheckMoves, forgeVars
  <2> QED
    BY <1>a, <2>1 DEF FeedbackInv, LevelsWereTrue, TrustedFeedback
<1> QED
  BY <1>1, <1>2, <1>3, <1>4, <1>5, <1>6 DEF ForgeNext

-----------------------------------------------------------------------------
(* The client's invariants                                                 *)

\* All of them together hold of every state.
LEMMA ForgeHolds == ForgeSpec => [](ForgeTypeOK /\ RequestInv /\ StatusInv /\ FeedbackInv)
<1> QED
  BY InitForge, StepForgeTyped, StepRequests, StepStatus, StepFeedback, PTL DEF ForgeSpec

\* The client's call, its cache and the forge keep their types.
THEOREM ForgeTyped == ForgeSpec => []ForgeTypeOK
<1> QED
  BY ForgeHolds, PTL

\* create_merge_request hands out only the project's own request that was open
\* during the call, and says `created` exactly when its POST made it; a write
\* that returns took effect: for any number of requests, sends and pages.
THEOREM ForgeAnswers == ForgeSpec => []ForgeAnswerTrue
<1>1. RequestInv => ForgeAnswerTrue
  BY DEF RequestInv
<1> QED
  BY <1>1, ForgeHolds, PTL

\* Feedback that is kept was written by the bot or under Developer access to
\* that very project: for any people, projects and threads.
THEOREM FeedbackTrusted == ForgeSpec => []TrustedFeedback
<1>1. FeedbackInv => TrustedFeedback
  BY DEF FeedbackInv
<1> QED
  BY <1>1, ForgeHolds, PTL

\* "success" covers every check that kept running or failing, for any number of
\* checks and pages, however often the list shifts while it is read.
THEOREM SuccessEarned == ForgeSpec => []SuccessCoversChecks
<1>1. StatusInv => SuccessCoversChecks
  BY DEF StatusInv
<1> QED
  BY <1>1, ForgeHolds, PTL

=============================================================================
