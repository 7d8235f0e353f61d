----------------------------- MODULE ForgeClient -----------------------------
(***************************************************************************)
(* A forge client, GitLabForge or GitHubForge: merge requests made or      *)
(* reused, writes that are sent again when no answer came, the CI status   *)
(* derived from pages of checks, and review threads cut down to what       *)
(* trusted authors wrote.  Other people use the forge at the same time.    *)
(***************************************************************************)
EXTENDS Naturals, Sequences, FiniteSets

CONSTANTS
  People,        \* accounts whose access to the projects changes
  Bot,           \* a review bot passed as trusted author
  Twin,          \* an account that shows the bot's name
  Projects,
  RunChecks,     \* check runs, or GitLab jobs, of the head commit
  StatusChecks,  \* commit statuses of the head commit
  MaxSends,      \* sends of one request: stop_after_attempt(5)
  MaxPages,      \* _MR_REUSE_MAX_PAGES
  JobsPage,      \* jobs in the one page that is read when checks are ignored
  MaxNotes,      \* bound: notes of one thread
  MaxForgeCalls, \* bound: calls of one client
  MaxForgeMoves  \* bound: what others do

ASSUME ForgeAssumption ==
  /\ Projects # {} /\ MaxPages \in Nat /\ JobsPage \in Nat
  /\ MaxSends \in Nat /\ MaxForgeCalls \in Nat /\ MaxForgeMoves \in Nat

VARIABLES
  kind,       \* the forge
  theme,      \* bound: what the calls of a behaviour and the moves of others are about
  forgeCall,  \* the call: operation, where it is, project, sends, page, what was read
  answer,     \* what the last call returned
  requests,   \* merge requests of one branch pair, oldest first
  openSeen,   \* those that were open at some moment of the call
  applied,    \* a write of this call took effect
  levels,     \* access of every account to every project
  had,        \* accounts that had Developer access since the client was made
  levelCache, \* GitLabForge._access_levels
  checks,     \* state of every check, and its place in the list of check runs, newest first
  steady,     \* checks that are not passing and have not changed during the call
  forgeCalls, forgeMoves

forgeVars == <<kind, theme, forgeCall, answer, requests, openSeen, applied, levels, had, levelCache,
               checks, steady, forgeCalls, forgeMoves>>
server == <<requests, openSeen, levels, had, checks, steady, forgeMoves>>

Users == People \cup {Bot, Twin}
Levels == {"none", "developer", "hidden"}
Notes == [author : Users, system : BOOLEAN]
Bad == {"running", "failed"}

\* What writes: reply, resolve, title and description, labels, retry_job, add_mr_block.
ForgeWrites == {"reply", "resolve", "describe", "labels", "retry", "block"}
Ops == [requests |-> {"create", "read"} \cup ForgeWrites, checks |-> {"status"}, access |-> {"feedback"}]

\* A call that has read nothing yet, and none.
CallOf(op, pc, project, ignored) ==
  [op |-> op, pc |-> pc, project |-> project, ignored |-> ignored, sends |-> 0, page |-> 1,
   got |-> {}, notes |-> {}, comments |-> {}]
NoForgeCall == CallOf("none", "idle", CHOOSE p \in Projects : TRUE, {})

\* A new client; a member may have access before it is made.
ForgeInit ==
  /\ kind \in {"gitlab", "github"} /\ theme \in DOMAIN Ops
  /\ forgeCall = NoForgeCall /\ answer = [is |-> "none"]
  /\ requests = <<>> /\ openSeen = {} /\ applied = FALSE
  /\ levels \in [Projects \X Users -> {"none", "developer"}]
  /\ \A p \in Projects : levels[<<p, Bot>>] = "none" /\ levels[<<p, Twin>>] = "none"
  /\ had = {w \in Projects \X Users : levels[w] = "developer"}
  /\ levelCache = <<>>
  /\ checks = [state |-> [c \in RunChecks \cup StatusChecks |-> "none"],
               place |-> [c \in RunChecks |-> 0]]
  /\ steady = {} /\ forgeCalls = 0 /\ forgeMoves = 0

-----------------------------------------------------------------------------
(* Calls and requests                                                      *)

Gives(result) ==
  answer' = result /\ forgeCall' = NoForgeCall
Raises == Gives([is |-> "raised"])

\* Indexes of the open requests; the project's own of them.
OpenRequests == {i \in 1..Len(requests) : requests[i].open}
Own(list) == {i \in list : requests[i].own}

\* create_merge_request, mr_status and pipeline_failures, review_comments and
\* general_comments, the writes, and the reads of pipelines, jobs and schedules.
BeginForgeCall ==
  /\ forgeCall.pc = "idle" /\ forgeCalls < MaxForgeCalls /\ forgeCalls' = forgeCalls + 1
  /\ \E op \in Ops[theme], p \in Projects,
       ignored \in SUBSET RunChecks :
       /\ op # "status" => ignored = {}
       /\ forgeCall' = CallOf(op, "project", p, ignored)
  /\ answer' = [is |-> "none"] /\ applied' = FALSE
  /\ openSeen' = OpenRequests
  /\ steady' = {c \in DOMAIN checks.state : checks.state[c] \in Bad}
  /\ UNCHANGED <<kind, theme, requests, levels, had, levelCache, checks, forgeMoves>>

FirstRequest ==
  CASE forgeCall.op = "create" -> "list"
    [] forgeCall.op = "status" -> "head"
    [] forgeCall.op = "feedback" -> "threads"
    [] forgeCall.op \in {"block", "read"} -> "read"
    [] OTHER -> "send"

\* GitLab needs the project's number first; GitHub uses its path.
ProjectId ==
  /\ forgeCall.pc = "project"
  /\ \/ forgeCall' = [forgeCall EXCEPT !.pc = FirstRequest] /\ UNCHANGED answer
     \/ kind = "gitlab" /\ Raises
  /\ UNCHANGED <<kind, theme, applied, levelCache, forgeCalls, server>>

\* A read that no send got through, or that was refused where that is an error.
ReadFails ==
  /\ forgeCall.pc \in {"list", "read", "head", "checks", "statuses", "threads", "authors"} /\ Raises
  /\ UNCHANGED <<kind, theme, applied, levelCache, forgeCalls, server>>

-----------------------------------------------------------------------------
(* Merge requests and other writes                                         *)

Post == forgeCall' = [forgeCall EXCEPT !.pc = "send"] /\ UNCHANGED answer
Reuse(i) == Gives([is |-> "request", url |-> i, created |-> FALSE])

\* No title, description or label is given: no request is made.
NothingToDo ==
  /\ forgeCall.pc = "project" /\ forgeCall.op \in {"describe", "labels"}
  /\ Gives([is |-> "none"])
  /\ UNCHANGED <<kind, theme, applied, levelCache, forgeCalls, server>>

\* A read on its own, or the blocking request's internal number for its block.
ReadOne ==
  /\ forgeCall.pc = "read"
  /\ IF forgeCall.op = "read" THEN Gives([is |-> "read"]) ELSE Post
  /\ UNCHANGED <<kind, theme, applied, levelCache, forgeCalls, server>>

\* One page of GitLab's list, newest first, which may ignore the filter on the
\* source project (a page holds one request here).
OwnOpenMrUrl(list) ==
  LET page == {i \in list : Cardinality({j \in list : j > i}) = forgeCall.page - 1}
  IN IF Own(page) # {} THEN \E i \in Own(page) : Reuse(i)
     ELSE IF forgeCall.page < Cardinality(list) /\ forgeCall.page < MaxPages
          THEN forgeCall' = [forgeCall EXCEPT !.page = @ + 1] /\ UNCHANGED answer
          ELSE Post

\* Mutant: GitHub's first open request is reused, whoever's branch it is.
OwnOpenPrAny == IF OpenRequests = {} THEN Post ELSE \E i \in OpenRequests : Reuse(i)

\* GitHub's list leaves out forks of other owners only.
OwnOpenPr ==
  IF Own(OpenRequests) = {} THEN Post ELSE \E i \in Own(OpenRequests) : Reuse(i)

\* A list that cannot be read does not stop the request from being created.
ListRequests ==
  /\ forgeCall.pc = "list"
  /\ \/ kind = "gitlab" /\ \E list \in {OpenRequests, Own(OpenRequests)} : OwnOpenMrUrl(list)
     \/ kind = "github" /\ OwnOpenPr
     \/ Post
  /\ UNCHANGED <<kind, theme, applied, levelCache, forgeCalls, server>>

\* tenacity: 429, 5xx, connection errors and timeouts are sent again.
SendAgain ==
  IF forgeCall.sends + 1 < MaxSends
  THEN forgeCall' = [forgeCall EXCEPT !.sends = @ + 1] /\ UNCHANGED answer
  ELSE Raises

\* The forge makes at most one open request of its own for a branch pair.
Accepts ==
  IF forgeCall.op = "create"
  THEN /\ Own(OpenRequests) = {}
       /\ requests' = Append(requests, [own |-> TRUE, open |-> TRUE, by |-> forgeCalls])
       /\ openSeen' = openSeen \cup {Len(requests')}
       /\ UNCHANGED applied
  ELSE applied' = TRUE /\ UNCHANGED <<requests, openSeen>>

Accepted ==
  IF forgeCall.op = "create"
  THEN \/ Gives([is |-> "request", url |-> Len(requests'), created |-> TRUE])
       \/ Gives([is |-> "error"])   \* an answer without the URL
  ELSE Gives([is |-> "done"])

Refused == IF forgeCall.op = "create" THEN Gives([is |-> "error"]) ELSE Raises

Send ==
  /\ forgeCall.pc = "send"
  /\ \/ Accepts /\ (Accepted \/ SendAgain)
     \/ (Refused \/ SendAgain) /\ UNCHANGED <<requests, openSeen, applied>>
  /\ UNCHANGED <<kind, theme, levels, had, levelCache, checks, steady, forgeCalls, forgeMoves>>

-----------------------------------------------------------------------------
(* CI status                                                               *)

\* _derive_pipeline_status over the <<check, state>> pairs that were read.
Derive(read, ignored) ==
  LET states == {r[2] : r \in {s \in read : s[1] \notin ignored}}
  IN CASE read = {} -> "none"
       [] "running" \in states -> "running"
       [] "failed" \in states -> "failed"
       [] OTHER -> "success"

Answer(read) ==
  Gives([is |-> "status", state |-> Derive(read, forgeCall.ignored),
           ignored |-> forgeCall.ignored, all |-> TRUE])
Unknown == Gives([is |-> "status", state |-> "unknown"])

\* The request itself: its head commit, whose checks are read next.
ReadHead ==
  /\ forgeCall.pc = "head"
  /\ forgeCall' = [forgeCall EXCEPT !.pc = "checks"]
  /\ UNCHANGED <<kind, theme, answer, applied, levelCache, forgeCalls, server>>

Reported(cs) == {<<c, checks.state[c]>> : c \in cs}

\* GitLab: the pipeline's own status, or the first page of its jobs.
GitLabJobs ==
  LET listed == {c \in RunChecks : checks.place[c] > 0}
      first == {c \in listed : checks.place[c] <= JobsPage}
  IN Answer(Reported(IF forgeCall.ignored = {} THEN listed ELSE first))

\* Mutant: the first page of check runs is taken for all of them.
CheckRunsFirstPage ==
  forgeCall' = [forgeCall EXCEPT
    !.pc = "statuses",
    !.got = @ \cup Reported({c \in RunChecks : checks.place[c] = 1})]

\* check_runs: pages until one is not full (a page holds one check here).
CheckRuns ==
  IF \A c \in RunChecks : checks.place[c] < forgeCall.page
  THEN forgeCall' = [forgeCall EXCEPT !.pc = "statuses"]
  ELSE forgeCall' = [forgeCall EXCEPT
         !.page = @ + 1,
         !.got = @ \cup Reported({c \in RunChecks : checks.place[c] = forgeCall.page})]

\* 403 for the check runs leaves the status unknown.
ReadChecks ==
  /\ forgeCall.pc = "checks"
  /\ \/ kind = "gitlab" /\ (GitLabJobs \/ Unknown)
     \/ kind = "github" /\ CheckRuns /\ UNCHANGED answer
     \/ kind = "github" /\ Unknown
  /\ UNCHANGED <<kind, theme, applied, levelCache, forgeCalls, server>>

\* Commit statuses that cannot be read count as none.
ReadStatuses ==
  /\ forgeCall.pc = "statuses"
  /\ \/ Answer(forgeCall.got \cup Reported({c \in StatusChecks : checks.state[c] # "none"}))
     \/ Gives([is |-> "status", state |-> Derive(forgeCall.got, forgeCall.ignored),
                 ignored |-> forgeCall.ignored, all |-> FALSE])
  /\ UNCHANGED <<kind, theme, applied, levelCache, forgeCalls, server>>

-----------------------------------------------------------------------------
(* Feedback                                                                *)

\* The account name that trusted_authors is compared with: GitLab's username;
\* GitHub's login, to which _login adds the suffix only Apps have.
Shown(u) == IF u = Twin THEN Bot ELSE u
AccountId(u) == IF kind = "gitlab" THEN <<u, FALSE>> ELSE <<Shown(u), u = Bot>>

\* is_trusted_comment
Trusted(comment) ==
  AccountId(comment.author) = AccountId(Bot) \/ comment.level = "developer"

\* filter_trusted_threads: the trusted comments, and the first one's author.
Filtered(comments) ==
  [is |-> "feedback", project |-> forgeCall.project, kept |-> {c \in comments : Trusted(c)}]

\* GitHub tells each author's association with the comment; events are no comments.
GitHubComments(notes) ==
  /\ \A n \in notes : ~n.system
  /\ Gives(Filtered({[author |-> n.author, system |-> FALSE,
                       level |-> levels[<<forgeCall.project, n.author>>]] : n \in notes}))

\* GitLab's system notes are dropped; the authors have to be looked up.
GitLabComments(notes) ==
  forgeCall' = [forgeCall EXCEPT !.pc = "authors", !.notes = {n \in notes : ~n.system}]

\* A thread: its starter, replies and system notes.
ReadThreads ==
  /\ forgeCall.pc = "threads"
  /\ \E notes \in SUBSET Notes :
       /\ Cardinality(notes) \in 1..MaxNotes
       /\ \/ kind = "gitlab" /\ GitLabComments(notes) /\ UNCHANGED answer
          \/ kind = "github" /\ GitHubComments(notes)
  /\ UNCHANGED <<kind, theme, applied, levelCache, forgeCalls, server>>

Comment(note, level) ==
  forgeCall' = [forgeCall EXCEPT
    !.notes = @ \ {note},
    !.comments = @ \cup {[author |-> note.author, system |-> note.system, level |-> level]}]

Remembered(who, level) ==
  [w \in DOMAIN levelCache \cup {who} |-> IF w = who THEN level ELSE levelCache[w]]

\* Mutant: the cache forgets which project a level is for.
MemberAccessLevelAnywhere(note) ==
  LET who == <<forgeCall.project, note.author>>
  IN \/ \E w \in DOMAIN levelCache :
          w[2] = note.author /\ Comment(note, levelCache[w]) /\ UNCHANGED levelCache
     \/ /\ \A w \in DOMAIN levelCache : w[2] # note.author
        /\ \E level \in {levels[who], "hidden"} :
             Comment(note, level) /\ levelCache' = Remembered(who, level)

\* member_access_level: asked once per account and project; 403 is remembered
\* as no known level.
MemberAccessLevel(note) ==
  LET who == <<forgeCall.project, note.author>>
  IN \/ who \in DOMAIN levelCache /\ Comment(note, levelCache[who]) /\ UNCHANGED levelCache
     \/ /\ who \notin DOMAIN levelCache
        /\ \E level \in {levels[who], "hidden"} :
             Comment(note, level) /\ levelCache' = Remembered(who, level)

ReadAuthors ==
  /\ forgeCall.pc = "authors"
  /\ \/ \E note \in forgeCall.notes : MemberAccessLevel(note) /\ UNCHANGED answer
     \/ forgeCall.notes = {} /\ Gives(Filtered(forgeCall.comments)) /\ UNCHANGED levelCache
  /\ UNCHANGED <<kind, theme, applied, forgeCalls, server>>

-----------------------------------------------------------------------------
(* Everybody else                                                          *)

OtherMoves(what) == theme = what /\ forgeMoves < MaxForgeMoves /\ forgeMoves' = forgeMoves + 1

\* Somebody opens a request from the project or from a fork.
OpensRequest ==
  /\ OtherMoves("requests")
  /\ \E own \in BOOLEAN :
       /\ own => Own(OpenRequests) = {}
       /\ requests' = Append(requests, [own |-> own, open |-> TRUE, by |-> 0])
  /\ openSeen' = openSeen \cup {Len(requests')}
  /\ UNCHANGED <<kind, theme, forgeCall, answer, applied, levels, had, levelCache, checks, steady, forgeCalls>>

\* A request is merged or closed.
ClosesRequest ==
  /\ OtherMoves("requests")
  /\ \E i \in 1..Len(requests) : requests[i].open /\ requests' = [requests EXCEPT ![i].open = FALSE]
  /\ UNCHANGED <<kind, theme, forgeCall, answer, openSeen, applied, levels, had, levelCache, checks, steady, forgeCalls>>

\* A maintainer gives or takes Developer access.
AccessChanges ==
  /\ OtherMoves("access")
  /\ \E p \in Projects, u \in People, level \in {"none", "developer"} :
       /\ level # levels[<<p, u>>] /\ levels' = [levels EXCEPT ![<<p, u>>] = level]
       /\ had' = had \cup (IF level = "developer" THEN {<<p, u>>} ELSE {})
  /\ UNCHANGED <<kind, theme, forgeCall, answer, requests, openSeen, applied, levelCache, checks, steady, forgeCalls>>

\* The list of check runs with c before all the others.
Newest(c) ==
  LET place == checks.place
  IN [d \in RunChecks |->
        IF d = c THEN 1
        ELSE IF place[d] > 0 /\ (place[c] = 0 \/ place[d] < place[c]) THEN place[d] + 1
        ELSE place[d]]

\* A check starts, starts again, or ends; a started run is the newest of the list.
CheckMoves ==
  /\ \E c \in RunChecks \cup StatusChecks, to \in {"running", "passed", "failed"} :
       /\ to = "running" \/ checks.state[c] = "running"
       /\ to # checks.state[c]
       /\ checks' = [state |-> [checks.state EXCEPT ![c] = to],
                     place |-> IF to = "running" /\ c \in RunChecks
                               THEN Newest(c) ELSE checks.place]
       /\ steady' = steady \ {c}
  /\ OtherMoves("checks")
  /\ UNCHANGED <<kind, theme, forgeCall, answer, requests, openSeen, applied, levels, had, levelCache, forgeCalls>>

ForgeNext ==
  \/ BeginForgeCall \/ ProjectId \/ ReadFails
  \/ NothingToDo \/ ReadOne \/ ListRequests \/ Send
  \/ ReadHead \/ ReadChecks \/ ReadStatuses
  \/ ReadThreads \/ ReadAuthors
  \/ OpensRequest \/ ClosesRequest \/ AccessChanges \/ CheckMoves

-----------------------------------------------------------------------------
(* Properties                                                              *)

\* create_merge_request hands out only a request of the project itself that was
\* open during the call, and says `created` exactly when this call's POST made
\* it, over lost answers and while others open and close requests; a write that
\* returns took effect.
ForgeAnswerTrue ==
  /\ answer.is = "request" =>
       /\ requests[answer.url].own /\ answer.url \in openSeen
       /\ answer.created <=> requests[answer.url].by = forgeCalls
  /\ answer.is = "done" => applied

\* Feedback that is kept was written by the trusted bot or by somebody who had
\* Developer access to that very project since the client was made: not by an
\* account with the bot's name, not under a level of another project, and not as
\* a note the forge itself adds when somebody trusted pushes.
TrustedFeedback ==
  answer.is = "feedback" =>
    \A c \in answer.kept :
      ~c.system /\ (c.author = Bot \/ <<answer.project, c.author>> \in had)

\* "success" is never told over a check that was running or failing and did not
\* change during the call, although pages shift while they are read; GitHub's
\* statuses must have been readable, and GitLab's jobs must fit the one page.
SuccessCoversChecks ==
  answer.is = "status" /\ answer.state = "success" =>
    \A c \in steady \ answer.ignored :
      \/ kind = "github" /\ c \in StatusChecks /\ ~answer.all
      \/ /\ kind = "gitlab"
         /\ \/ c \in StatusChecks
            \/ answer.ignored # {} /\ \E d \in RunChecks : checks.place[d] > JobsPage

=============================================================================
