---------------------------- MODULE LeasedBranch ----------------------------
(***************************************************************************)
(* What push_branch promises, whatever git, the network and other writers  *)
(* do: the remote branch is a compare-and-swap register.  A write of ours  *)
(* is started only from what the branch is, which its lease allows, lands  *)
(* only while the branch is still that, at any later moment or never, and  *)
(* success is claimed only of a commit that the branch was.  GitPush       *)
(* implements this.                                                        *)
(***************************************************************************)
CONSTANTS
  Ours,     \* commits of the local branch
  Theirs,   \* commits others push
  Absent,   \* no remote branch
  Tracking  \* a lease that names no commit

VARIABLES
  branch,   \* the remote branch
  local,    \* the local branch, which a push wants it to be
  writes,   \* the writes under way: what they replace, by what, which lease
  seen,     \* values of the remote branch since the push began
  claimed   \* the push said that it succeeded

vars == <<branch, local, writes, seen, claimed>>

Init ==
  /\ branch \in Theirs \cup {Absent} /\ local \in Ours
  /\ writes = {} /\ seen = {branch} /\ claimed = FALSE

\* A push is asked for; writes of earlier ones may still be under way.
Begin == seen' = {branch} /\ claimed' = FALSE /\ UNCHANGED <<branch, local, writes>>

\* The push compares: a lease names what the branch is, or names nothing.
StartWrite ==
  /\ ~claimed
  /\ \E lease \in {Tracking, branch} :
       writes' = writes \cup {[old |-> branch, new |-> local, lease |-> lease]}
  /\ UNCHANGED <<branch, local, seen, claimed>>

\* The server swaps, and the push may learn of it.  Writes are forgotten when
\* they landed, were refused or never arrived.
Land ==
  /\ \E w \in writes :
       /\ w.old = branch /\ branch' = w.new /\ seen' = seen \cup {w.new}
       /\ claimed' \in {claimed, claimed \/ w.new = local}
  /\ writes' \in SUBSET writes /\ UNCHANGED local

Refused == writes' \in SUBSET writes /\ UNCHANGED <<branch, local, seen, claimed>>

\* Nothing to push: the branch is what it should be.
Claim == branch = local /\ claimed' = TRUE /\ UNCHANGED <<branch, local, writes, seen>>

\* Others write to the branch; there is more work on the local one.
OthersWrite ==
  /\ branch' \in Theirs \cup {Absent} /\ seen' = seen \cup {branch'}
  /\ UNCHANGED <<local, writes, claimed>>

Commit == local' \in Ours /\ claimed' = FALSE /\ UNCHANGED <<branch, writes, seen>>

Next ==
  \/ Begin \/ StartWrite \/ Land \/ Refused \/ Claim \/ OthersWrite \/ Commit

Spec == Init /\ [][Next]_vars

\* A write that may still land was started under a lease that allowed it.
AllowedWrites == \A w \in writes : w.new \in Ours /\ w.lease \in {Tracking, w.old}

\* Success is claimed of a commit that the branch was during the push.
ClaimsTrue == claimed => local \in seen
=============================================================================
