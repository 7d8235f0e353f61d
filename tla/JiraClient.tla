----------------------------- MODULE JiraClient ------------------------------
(***************************************************************************)
(* A JiraClient: writes that try acli first and fall back to REST when it  *)
(* fails, requests that are sent again when they are rate limited, and the *)
(* search for who added a label, page by page through a changelog that     *)
(* others extend.                                                          *)
(***************************************************************************)
EXTENDS Naturals, Sequences

CONSTANTS
  JiraUsers,    \* people who add and remove the label
  MaxRequests,  \* sends of one request: stop_after_attempt(5)
  MaxJiraCalls, \* bound: calls of one client
  MaxEntries    \* bound: entries of the issue's changelog

VARIABLES
  acli,       \* acli is on the PATH and its login succeeded
  fieldCache, \* there is a cache of field metadata, perhaps an empty one
  jiraCall,   \* the call: operation, where it is, sends, reads left, what was found
  jiraAnswer, \* what the last call returned
  effects,    \* how often this call's write took effect
  atCreation, \* the label was set when the issue was created
  changelog,  \* additions and removals of the label, oldest first
  jiraCalls

jiraVars == <<acli, fieldCache, jiraCall, jiraAnswer, effects,
              atCreation, changelog, jiraCalls>>

Idle == [op |-> "none", pc |-> "idle"]

\* Writes that acli can do, and the REST reads each write may need first.
AcliWrites == {"update_comment", "add_labels", "transition", "assign", "create", "link"}
ReadsBefore ==
  [add_comment |-> 0, update_comment |-> 0, add_labels |-> 0, edit_labels |-> 0, transition |-> 1,
   assign |-> 1, create |-> 1, link |-> 1, attach |-> 0, set_security_level |-> 2, set_custom_field |-> 1,
   read |-> 1]
Writes == DOMAIN ReadsBefore \ {"read"}

JiraInit ==
  /\ acli \in BOOLEAN /\ fieldCache = FALSE
  /\ jiraCall = Idle /\ jiraAnswer = [is |-> "none"]
  /\ effects = 0 /\ atCreation \in BOOLEAN /\ changelog = <<>> /\ jiraCalls = 0

-----------------------------------------------------------------------------
(* Requests                                                                *)

Answers(result) == jiraAnswer' = result /\ jiraCall' = Idle
Fails == Answers([is |-> "failed"])

\* 429 is sent again; the last 429 is handed back and is an error to the caller.
RateLimited ==
  IF jiraCall.sends + 1 < MaxRequests
  THEN jiraCall' = [jiraCall EXCEPT !.sends = @ + 1] /\ UNCHANGED jiraAnswer
  ELSE Fails

\* The label is on the issue: its last change, or how the issue was created.
Labelled ==
  IF changelog = <<>> THEN atCreation ELSE changelog[Len(changelog)].added

-----------------------------------------------------------------------------
(* Writes                                                                  *)

\* A visibility group, extra fields or an epic rule acli out; without the
\* field cache set_custom_field and create may have to load it.
BeginWrite ==
  /\ jiraCall.pc = "idle" /\ jiraCalls < MaxJiraCalls /\ jiraCalls' = jiraCalls + 1
  /\ \E op \in DOMAIN ReadsBefore :
       \E pc \in (IF acli /\ op \in AcliWrites THEN {"acli"} ELSE {})
                 \cup (IF ~acli \/ op \notin AcliWrites \/ op \in {"update_comment", "create"}
                       THEN {"rest"} ELSE {}) :
         jiraCall' = [op |-> op, pc |-> pc, sends |-> 0, reads |-> ReadsBefore[op]]
  /\ effects' = 0 /\ jiraAnswer' = [is |-> "none"]
  /\ UNCHANGED <<acli, fieldCache, atCreation, changelog>>

\* attach_file hands the same open file to every send, and the first one has
\* read it to its end: sent again, it attaches nothing of the file.
Resent == jiraCall.op = "attach" /\ jiraCall.sends > 0
TakesEffect == effects' = IF Resent THEN effects ELSE effects + 1

Done == Answers([is |-> "done", op |-> jiraCall.op, resent |-> Resent])
FallBack == jiraCall' = [jiraCall EXCEPT !.pc = "rest"] /\ UNCHANGED jiraAnswer

\* run_acli: done; or failed, perhaps after Jira did it (a timeout, an answer
\* that cannot be read), which falls back to REST.
RunAcli ==
  /\ jiraCall.pc = "acli"
  /\ \/ TakesEffect /\ Done
     \/ TakesEffect /\ FallBack
     \/ UNCHANGED effects /\ FallBack
  /\ UNCHANGED <<acli, fieldCache, atCreation, changelog, jiraCalls>>

\* The reads a write depends on: transitions, link types, security levels, the
\* account of an email; an account ID and cached field names need none.  The
\* cache is set before the fields are read from the answer: when that raises, an
\* empty one stays, and a field that is not in it fails the call.
RestRead ==
  /\ jiraCall.pc = "rest" /\ jiraCall.reads > 0
  /\ LET metadata == jiraCall.op \in {"create", "set_custom_field"}
         ReadDone == /\ jiraCall' = [jiraCall EXCEPT !.reads = @ - 1, !.sends = 0]
                     /\ UNCHANGED jiraAnswer
     IN \/ \* not needed, or the fields are cached
           /\ jiraCall.op \in {"assign", "create"} \/ (metadata /\ fieldCache)
           /\ ReadDone /\ UNCHANGED fieldCache
        \/ ReadDone /\ fieldCache' = (fieldCache \/ metadata)
        \/ RateLimited /\ UNCHANGED fieldCache
        \/ Fails /\ fieldCache' \in {fieldCache, fieldCache \/ metadata}
  /\ UNCHANGED <<acli, effects, atCreation, changelog, jiraCalls>>

\* Mutant: the response is not checked, so the last 429 passes for success.
RestWriteUnchecked ==
  /\ jiraCall.pc = "rest" /\ jiraCall.reads = 0
  /\ \/ jiraCall.op \in Writes /\ TakesEffect /\ (Done \/ Fails)
     \/ jiraCall.op = "read" /\ Done /\ UNCHANGED effects
     \/ /\ IF jiraCall.sends + 1 < MaxRequests THEN RateLimited ELSE Done
        /\ UNCHANGED effects
  /\ UNCHANGED <<acli, fieldCache, atCreation, changelog, jiraCalls>>

\* Applied, and the answer perhaps lost; rate limited; or refused.
RestWrite ==
  /\ jiraCall.pc = "rest" /\ jiraCall.reads = 0
  /\ \/ jiraCall.op \in Writes /\ TakesEffect /\ (Done \/ Fails)
     \/ jiraCall.op = "read" /\ Done /\ UNCHANGED effects
     \/ (RateLimited \/ Fails) /\ UNCHANGED effects
  /\ UNCHANGED <<acli, fieldCache, atCreation, changelog, jiraCalls>>

-----------------------------------------------------------------------------
(* Who added the label                                                     *)

Additions == {i \in 1..Len(changelog) : changelog[i].added}

BeginLabelAuthor ==
  /\ jiraCall.pc = "idle" /\ jiraCalls < MaxJiraCalls /\ jiraCalls' = jiraCalls + 1
  /\ jiraCall' = [op |-> "label_author", pc |-> "changelog", sends |-> 0, startAt |-> 0, found |-> 0,
                  known |-> Additions]
  /\ jiraAnswer' = [is |-> "none"]
  /\ UNCHANGED <<acli, fieldCache, effects, atCreation, changelog>>

\* Mutant: the first addition is kept.
FoundFirst(at) ==
  IF jiraCall.found = 0 /\ at <= Len(changelog) /\ changelog[at].added THEN at ELSE jiraCall.found

\* The addition found so far, after the entry on this page; later ones win.
Found(at) ==
  IF at <= Len(changelog) /\ changelog[at].added THEN at ELSE jiraCall.found

Author(found) == [is |-> "author", entry |-> found, known |-> jiraCall.known]

\* A page of the changelog as it is now (one entry here), and its total.
ReadChangelog ==
  /\ jiraCall.pc = "changelog"
  /\ LET at == jiraCall.startAt + 1
     IN \/ /\ at < Len(changelog)
           /\ jiraCall' = [jiraCall EXCEPT !.startAt = at, !.found = Found(at), !.sends = 0]
           /\ UNCHANGED jiraAnswer
        \/ /\ at >= Len(changelog)
           /\ IF Found(at) # 0 THEN Answers(Author(Found(at)))
              ELSE jiraCall' = [jiraCall EXCEPT !.pc = "reporter", !.sends = 0] /\ UNCHANGED jiraAnswer
        \/ RateLimited \/ Fails
  /\ UNCHANGED <<acli, fieldCache, effects, atCreation, changelog, jiraCalls>>

\* No addition was seen: the reporter, if the label is on the issue by now.
ReadReporter ==
  /\ jiraCall.pc = "reporter"
  /\ \/ Answers(IF Labelled THEN Author(0) ELSE [is |-> "not found", known |-> jiraCall.known])
     \/ Answers([is |-> "not found", known |-> jiraCall.known])
     \/ jiraCall.sends + 1 < MaxRequests /\ RateLimited
     \/ Fails
  /\ UNCHANGED <<acli, fieldCache, effects, atCreation, changelog, jiraCalls>>

\* Somebody adds or removes the label.
LabelChanges ==
  /\ Len(changelog) < MaxEntries
  /\ \E who \in JiraUsers : changelog' = Append(changelog, [added |-> ~Labelled, by |-> who])
  /\ UNCHANGED <<acli, fieldCache, jiraCall, jiraAnswer, effects, atCreation, jiraCalls>>

JiraNext ==
  \/ BeginWrite \/ RunAcli \/ RestRead \/ RestWrite
  \/ BeginLabelAuthor \/ ReadChangelog \/ ReadReporter \/ LabelChanges

-----------------------------------------------------------------------------
(* Properties                                                              *)

\* A write that returns took effect, whichever of acli and REST did it and
\* however often it was rate limited; and a client without acli never does a
\* write twice, since only requests that had no effect are sent again.  The
\* exception is a file whose upload was rate limited.
JiraWritesDone ==
  /\ jiraAnswer.is = "done" /\ jiraAnswer.op \in Writes /\ ~jiraAnswer.resent => effects > 0
  /\ ~acli => effects <= 1

\* get_label_author never names an addition older than the last one there was
\* when it began, and credits the reporter, or nobody, only if there was none:
\* entries that others append between its pages hide nothing.
LabelAuthorCurrent ==
  /\ jiraAnswer.is = "author" =>
       /\ \A i \in jiraAnswer.known : jiraAnswer.entry >= i
       /\ jiraAnswer.entry > 0 => changelog[jiraAnswer.entry].added
  /\ jiraAnswer.is = "not found" => jiraAnswer.known = {}

=============================================================================
