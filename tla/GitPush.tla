------------------------------- MODULE GitPush -------------------------------
(***************************************************************************)
(* git.push_branch: one branch pushed under a lease, with retries, to a    *)
(* remote that others push to as well.  git reads the remote's ref, checks *)
(* the lease against it and asks the server to move the ref from the value *)
(* it read; the answer may be lost, and a push that was given up on may    *)
(* still land.                                                             *)
(***************************************************************************)
EXTENDS Naturals

CONSTANTS
  Ours,        \* commits of the local branch, in any order
  Theirs,      \* commits others push to the remote branch
  Absent,      \* no remote branch
  Tracking,    \* RemoteLease.TRACKING
  MaxAttempts, \* 1 + max_retries
  MaxPushes,   \* bound: calls of push_branch
  MaxMoves     \* bound: moves of the remote branch by others

ASSUME GitPushAssumption ==
  /\ Ours \cap Theirs = {} /\ {Absent, Tracking} \cap (Ours \cup Theirs) = {}
  /\ Absent # Tracking
  /\ MaxAttempts \in Nat \ {0} /\ MaxPushes \in Nat /\ MaxMoves \in Nat

VARIABLES
  remote,    \* the remote branch
  tracking,  \* the local remote-tracking ref
  head,      \* the local branch
  push,      \* the call: where it is, its lease, what git read, attempts made
  late,      \* ref updates of pushes that were given up on
  been,      \* values of the remote branch since the call began
  pushed,    \* what the call returned, "none" before
  pushes, moves

pushVars == <<remote, tracking, head, push, late, been, pushed, pushes, moves>>

Refs == Ours \cup Theirs \cup {Absent}
\* The lease of a call: the tracking ref, no branch, or a recorded commit.
Leases == Refs \cup {Tracking}
Updates == [old : Refs, new : Ours, lease : Leases]

PushTypeOK ==
  /\ remote \in Refs /\ tracking \in Refs /\ head \in Ours
  /\ push \in [pc : {"idle", "attempt", "update"}, lease : Leases, seen : Refs, tries : 0..MaxAttempts]
  /\ late \subseteq Updates /\ been \subseteq Refs
  /\ pushed \in {"none", "true", "false"}
  /\ pushes \in 0..MaxPushes /\ moves \in 0..MaxMoves

\* A fresh clone with a commit of ours on a branch.
PushInit ==
  /\ remote \in Theirs \cup {Absent} /\ tracking = remote /\ head \in Ours
  /\ push = [pc |-> "idle", lease |-> Tracking, seen |-> Absent, tries |-> 0]
  /\ late = {} /\ been = {remote} /\ pushed = "none" /\ pushes = 0 /\ moves = 0

\* The remote branch moves; everything it is during the call is remembered.
Moves(to) == remote' = to /\ been' = been \cup {to}
Returns(answer) == push' = [push EXCEPT !.pc = "idle"] /\ pushed' = answer

-----------------------------------------------------------------------------
(* The call                                                                *)

\* An invalid remote or branch name, a short SHA, a pinned lease without a
\* branch: nothing is pushed.  Otherwise the lease is fixed for all attempts.
PushBranch ==
  /\ push.pc = "idle" /\ pushes < MaxPushes /\ pushes' = pushes + 1
  /\ been' = {remote}
  /\ \/ pushed' = "false" /\ UNCHANGED push
     \/ \E lease \in Leases :
          /\ push' = [pc |-> "attempt", lease |-> lease, seen |-> Absent, tries |-> 0]
          /\ pushed' = "none"
  /\ UNCHANGED <<remote, tracking, head, late, moves>>

Expected == IF push.lease = Tracking THEN tracking ELSE push.lease

\* Mutant: a retry takes what the first attempt read as its lease's value.
AttemptAnyLease ==
  /\ push.pc = "attempt"
  /\ \/ /\ remote = head
        /\ tracking' = head /\ Returns("true")
     \/ /\ remote # head /\ push.tries = 0 /\ remote # Expected
        /\ Returns("false") /\ UNCHANGED tracking
     \/ /\ remote # head /\ push.tries = 0 => remote = Expected
        /\ push' = [push EXCEPT !.pc = "update", !.seen = remote, !.tries = @ + 1]
        /\ UNCHANGED <<tracking, pushed>>
  /\ UNCHANGED <<remote, head, late, been, pushes, moves>>

\* git push: nothing to do, a lease that does not hold (never retried), or an
\* update of the ref it read.
Attempt ==
  /\ push.pc = "attempt"
  /\ \/ /\ remote = head
        /\ tracking' = head /\ Returns("true")
     \/ /\ remote # head /\ remote # Expected
        /\ Returns("false") /\ UNCHANGED tracking
     \/ /\ remote # head /\ remote = Expected
        /\ push' = [push EXCEPT !.pc = "update", !.seen = remote, !.tries = @ + 1]
        /\ UNCHANGED <<tracking, pushed>>
  /\ UNCHANGED <<remote, head, late, been, pushes, moves>>

\* A transient error or a timeout: once more, until the attempts are used up.
Retries ==
  IF push.tries < MaxAttempts
  THEN push' = [push EXCEPT !.pc = "attempt"] /\ UNCHANGED pushed
  ELSE Returns("false")

ThisUpdate == [old |-> push.seen, new |-> head, lease |-> push.lease]

\* Mutant: a push that timed out is taken for one that arrived.
UpdateTimesOut ==
  /\ push.pc = "update"
  /\ \/ remote = push.seen /\ Moves(head) /\ tracking' = head /\ Returns("true") /\ UNCHANGED late
     \/ late' = late \cup {ThisUpdate} /\ Returns("true") /\ UNCHANGED <<remote, been, tracking>>
  /\ UNCHANGED <<head, pushes, moves>>

\* The server moves the ref only from the value git read.
Update ==
  /\ push.pc = "update"
  /\ \/ remote = push.seen /\ Moves(head) /\ tracking' = head /\ Returns("true") /\ UNCHANGED late
     \/ \* moved, and the answer was lost
        remote = push.seen /\ Moves(head) /\ Retries /\ UNCHANGED <<tracking, late>>
     \/ \* not moved: the server refused ("cannot lock ref"), or could not be reached
        Retries /\ UNCHANGED <<remote, been, tracking, late>>
     \/ \* killed at the timeout with the update under way
        late' = late \cup {ThisUpdate} /\ Retries /\ UNCHANGED <<remote, been, tracking>>
     \/ \* an error that is not transient
        Returns("false") /\ UNCHANGED <<remote, been, tracking, late>>
  /\ UNCHANGED <<head, pushes, moves>>

-----------------------------------------------------------------------------
(* Everybody else                                                          *)

\* Somebody else pushes to, resets or deletes the branch.
Others ==
  /\ moves < MaxMoves /\ moves' = moves + 1
  /\ \E to \in Theirs \cup {Absent} : to # remote /\ Moves(to)
  /\ UNCHANGED <<tracking, head, push, late, pushed, pushes>>

\* A process that can write .git fetches, or moves the tracking ref otherwise.
TrackingMoves ==
  /\ push.pc # "update" /\ tracking # remote /\ tracking' = remote
  /\ UNCHANGED <<remote, head, push, late, been, pushed, pushes, moves>>

\* More work on the branch before the next call.
Commits ==
  /\ push.pc = "idle" /\ \E c \in Ours : c # head /\ head' = c
  /\ pushed' = "none"
  /\ UNCHANGED <<remote, tracking, push, late, been, pushes, moves>>

Lands ==
  /\ \E u \in late :
       /\ late' = late \ {u}
       /\ \/ u.old = remote /\ Moves(u.new)
          \/ UNCHANGED <<remote, been>>
  /\ UNCHANGED <<tracking, head, push, pushed, pushes, moves>>

PushNext ==
  \/ PushBranch \/ Attempt \/ Update
  \/ Others \/ TrackingMoves \/ Commits \/ Lands

-----------------------------------------------------------------------------
(* Properties                                                              *)

\* With a pinned lease a commit of ours replaces only what was recorded: not in
\* a retry, and not when a push that was given up on lands later.
PinnedLeaseHeld ==
  [][remote' # remote /\ remote' \in Ours =>
       \/ push.pc = "update" /\ remote' = head /\ push.lease \in {Tracking, remote}
       \/ \E u \in late : remote' = u.new /\ u.lease \in {Tracking, remote}]_pushVars

\* push_branch returns True only when the remote branch was at the local one at
\* some moment of the call, over retries, lost answers and late updates.
SuccessMeansPushed == pushed = "true" => head \in been

\* The writes that may still land: the call's own and those given up on.
UnderWay ==
  late \cup (IF push.pc = "update" THEN {ThisUpdate} ELSE {})

\* push_branch makes the remote branch a compare-and-swap register.
Lease == INSTANCE LeasedBranch WITH
  branch <- remote, local <- head, writes <- UnderWay, seen <- been,
  claimed <- (pushed = "true")

ImplementsLease == Lease!Spec

=============================================================================
