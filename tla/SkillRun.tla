------------------------------- MODULE SkillRun -------------------------------
(***************************************************************************)
(* run_skill and run_routed_skill: one ticket taken through pre-gates, a   *)
(* classifier that picks the model, agent runs that are retried, cost,     *)
(* post-gates, verdict and report.  Every container run is a session of    *)
(* its own (_AgentSession): collector and backend are started and stopped  *)
(* around it, while the workspace with the files runs leave is kept, also  *)
(* for a later call on the same work_dir.  A run of the podman backend     *)
(* works on work_dir itself, one of OpenShell on a copy that setup uploads *)
(* and every run downloads.                                                *)
(***************************************************************************)
EXTENDS Integers, FiniteSets, Sequences

CONSTANTS
  Routed,      \* run_routed_skill; otherwise run_skill
  Retryable,   \* the mode is one of config.retryable_modes
  MaxRetries,  \* config.max_retries
  MaxCalls     \* bound: calls on one work_dir

ASSUME ConstantsAssumption ==
  Routed \in BOOLEAN /\ Retryable \in BOOLEAN /\ MaxRetries \in Nat /\ MaxCalls \in Nat

VARIABLES
  pc,         \* where the call stands, "idle" between calls
  outcome,    \* how the last call ended
  dry,        \* dry_run
  rc,         \* exit code class of the last container run, or "raise"
  tries,      \* transient retries made
  rerun,      \* the one run after an unreadable verdict was started
  decision,   \* RouteDecision.source, "none" before routing
  gated,      \* the agent run whose output the post-gates saw, 0 for none
  cost,       \* the runs whose metrics the cost data counts
  reports,    \* what label_applier was called with, in order
  verdict,    \* the verdict file
  route,      \* _run/route.json
  log,        \* the runs whose metrics _run/claude-otel.jsonl holds
  metered,    \* the runs of the call a collector received metrics of
  backend,    \* "up" from setup on, "left" when its stop raised and it still runs
  collector,  \* the session holds a collector that runs
  orphan,     \* a collector runs that no session holds
  copied,     \* the backend works on a copy of work_dir
  copy,       \* the route file in that copy
  execs,      \* agent and classifier runs so far
  first,      \* the value of execs when the call began
  calls

callVars == <<dry, tries, rerun, decision, gated, cost, reports, first, calls>>
files == <<verdict, route>>
session == <<backend, collector, orphan, copied, copy>>
meters == <<log, metered>>
vars == <<pc, outcome, rc, callVars, files, meters, session, execs>>

Outcomes == {"none", "blocked", "raised", "failed", "done"}
ExitCodes == {"ok", "transient", "fatal"}
Reports == {"rc", "gates", "noVerdict", "verdict"}
Sources == {"none", "forced", "classifier", "fallback"}
InSession == {"setup", "route", "classifier", "launch", "agent", "exit"}
Pcs == InSession \cup
  {"idle", "pre", "hooks", "enter", "judge", "cost", "postGates", "load", "label"}

\* A file an agent run may write: the run that did (0 for none) and whether
\* its content passes the loader.
Files == [by : Nat, valid : BOOLEAN]
NoFile == [by |-> 0, valid |-> FALSE]
Exists(file) == file.by # 0

TypeOK ==
  /\ pc \in Pcs /\ outcome \in Outcomes /\ dry \in BOOLEAN
  /\ rc \in ExitCodes \cup {"raise"} /\ tries \in 0..MaxRetries /\ rerun \in BOOLEAN
  /\ decision \in Sources /\ gated \in Nat /\ cost \subseteq Nat
  /\ reports \in Seq(Reports)
  /\ verdict \in Files /\ route \in Files
  /\ log \subseteq Nat /\ metered \subseteq Nat
  /\ backend \in {"none", "up", "left"} /\ collector \in BOOLEAN /\ orphan \in BOOLEAN
  /\ copied \in BOOLEAN /\ copy \in Files
  /\ execs \in Nat /\ first \in Nat /\ calls \in 0..MaxCalls

Init ==
  /\ pc = "idle" /\ outcome = "none" /\ dry = FALSE /\ rc = "ok"
  /\ tries = 0 /\ rerun = FALSE /\ decision = "none"
  /\ gated = 0 /\ cost = {} /\ reports = <<>>
  /\ verdict = NoFile /\ route = NoFile /\ log = {} /\ metered = {}
  /\ backend = "none" /\ collector = FALSE /\ orphan = FALSE
  /\ copied \in BOOLEAN /\ copy = NoFile
  /\ execs = 0 /\ first = 0 /\ calls = 0

Ends(how) == pc' = "idle" /\ outcome' = how

-----------------------------------------------------------------------------
(* Before the container                                                    *)

Begin ==
  /\ pc = "idle" /\ calls < MaxCalls
  /\ calls' = calls + 1 /\ first' = execs /\ dry' \in BOOLEAN
  /\ tries' = 0 /\ rerun' = FALSE /\ decision' = "none"
  /\ gated' = 0 /\ cost' = {} /\ reports' = <<>> /\ rc' = "ok"
  /\ pc' = "pre" /\ outcome' = "none" /\ metered' = {}
  /\ UNCHANGED <<files, log, session, execs>>

\* The pre-gates pass, one blocks the run, or one raises.
PreGates ==
  /\ pc = "pre"
  /\ \/ pc' = "hooks" /\ UNCHANGED outcome
     \/ Ends("blocked")
     \/ Ends("raised")
  /\ UNCHANGED <<rc, callVars, files, meters, session, execs>>

\* context_writer, the extra_skills config, extension_config_writer and
\* prompt_builder; any may raise.  A dry run may put a given verdict in place
\* (of no run: it counts as written by the run to come).
Hooks ==
  /\ pc = "hooks"
  /\ \/ ~dry /\ pc' = "enter" /\ UNCHANGED <<outcome, verdict>>
     \/ /\ dry /\ pc' = "cost" /\ UNCHANGED outcome
        /\ verdict' = verdict \/ \E v \in BOOLEAN : verdict' = [by |-> execs + 1, valid |-> v]
     \/ Ends("raised") /\ UNCHANGED verdict
  /\ UNCHANGED <<rc, callVars, route, meters, session, execs>>

-----------------------------------------------------------------------------
(* One container run: a session with at most two agent runs                *)

\* __enter__ makes _run, or raises.  start_collector removes the log and starts
\* a child; what it raises is swallowed and the session goes on without a
\* collector: the old log may still be there, and the child may be running when
\* its port file was read before it was written.
Enter ==
  /\ pc = "enter"
  /\ \/ pc' = "setup" /\ log' = {} /\ collector' = TRUE /\ UNCHANGED <<outcome, orphan>>
     \/ pc' = "setup" /\ log' \in {log, {}} /\ UNCHANGED <<outcome, collector, orphan>>
     \/ pc' = "setup" /\ log' = {} /\ orphan' = TRUE /\ UNCHANGED <<outcome, collector>>
     \/ Ends("raised") /\ UNCHANGED <<log, collector, orphan>>
  /\ UNCHANGED <<rc, callVars, files, metered, backend, copied, copy, execs>>

\* backend.setup: work_dir is uploaded, unless a sandbox that was left is used
\* again as it is.
SetsUp ==
  /\ backend' = "up"
  /\ \/ copy' = IF copied THEN route ELSE NoFile
     \/ backend = "left" /\ copy' = copy

\* backend.stop, which may raise with the backend still up.
Stops ==
  \/ backend' = "none" /\ copy' = NoFile
  \/ backend' = "left" /\ copy' = copy

\* Mutant: the collector of a session that did not come up is forgotten.
SetupLeaksCollector ==
  /\ pc = "setup"
  /\ \/ /\ SetsUp /\ UNCHANGED <<outcome, collector>>
        /\ pc' = IF Routed /\ decision = "none" THEN "route" ELSE "launch"
     \/ Ends("raised") /\ Stops /\ UNCHANGED collector
  /\ UNCHANGED <<rc, callVars, files, meters, orphan, copied, execs>>

\* Mutant: every session routes, also one of a retry.
SetupRoutesAgain ==
  /\ pc = "setup"
  /\ \/ /\ SetsUp /\ UNCHANGED <<outcome, collector>>
        /\ pc' = IF Routed THEN "route" ELSE "launch"
     \/ Ends("raised") /\ Stops /\ collector' = FALSE
  /\ UNCHANGED <<rc, callVars, files, meters, orphan, copied, execs>>

\* When setup raises, __enter__ stops collector and backend, for __exit__ is
\* not going to.
Setup ==
  /\ pc = "setup"
  /\ \/ /\ SetsUp /\ UNCHANGED <<outcome, collector>>
        /\ pc' = IF Routed /\ decision = "none" THEN "route" ELSE "launch"
     \/ Ends("raised") /\ Stops /\ collector' = FALSE
  /\ UNCHANGED <<rc, callVars, files, meters, orphan, copied, execs>>

\* A run may leave metrics in the log when a collector runs.
Metered(run) ==
  \/ UNCHANGED meters
  \/ collector /\ log' = log \cup {run} /\ metered' = metered \cup {run}

\* What a run makes of the file it is asked for: it leaves it, removes it or
\* writes it.
Written(file) == {file, NoFile} \cup [by : {execs}, valid : BOOLEAN]

\* Backend._process_stream and _resolve_exit_code: a stream that was seen to
\* complete turns a failed exit code into 0 when the file the run promised
\* exists, whoever wrote it.
Resolved(code, complete, file) ==
  IF complete /\ code # "ok" /\ Exists(file) THEN "ok" ELSE code

\* Mutant: the route file of an earlier call stays.
RouteKeepsFile ==
  /\ pc = "route"
  /\ \/ decision' = "forced" /\ pc' = "launch" /\ UNCHANGED <<rc, route, execs>>
     \/ execs' = execs + 1 /\ pc' = "classifier" /\ UNCHANGED <<rc, decision, route>>
  /\ UNCHANGED <<outcome, dry, tries, rerun, gated, cost, reports, first, calls, verdict, meters,
                 session>>

\* _router without a decision: force_tier pins one, else classify() removes
\* the route file of work_dir and runs the classifier; until there, mkdir, the
\* removal or prompt_builder may raise.
Route ==
  /\ pc = "route"
  /\ \/ decision' = "forced" /\ pc' = "launch" /\ UNCHANGED <<rc, route, execs>>
     \/ route' = NoFile /\ execs' = execs + 1 /\ pc' = "classifier" /\ UNCHANGED <<rc, decision>>
     \/ rc' = "raise" /\ pc' = "exit" /\ route' \in {route, NoFile} /\ UNCHANGED <<decision, execs>>
  /\ UNCHANGED <<outcome, dry, tries, rerun, gated, cost, reports, first, calls, verdict, meters,
                 session>>

\* The classifier decides when it exits with 0 and the route file in work_dir
\* is valid then, which after a download is the one of the copy; any failure of
\* it, an exception included, falls back to the default.
ClassifierReturns ==
  /\ pc = "classifier" /\ pc' = "launch"
  /\ \E new \in Written(IF copied THEN copy ELSE route) :
       /\ copy' = IF copied THEN new ELSE copy
       /\ \/ /\ route' = new
             /\ \E code \in ExitCodes, complete \in BOOLEAN :
                  decision' = IF Resolved(code, complete, new) = "ok" /\ new.valid
                              THEN "classifier" ELSE "fallback"
          \/ /\ route' \in {new} \cup (IF copied THEN {route} ELSE {})
             /\ decision' = "fallback"
  /\ Metered(execs)
  /\ UNCHANGED <<outcome, rc, dry, tries, rerun, gated, cost, reports, first, calls, verdict,
                 backend, collector, orphan, copied, execs>>

Launch ==
  /\ pc = "launch" /\ pc' = "agent" /\ execs' = execs + 1
  /\ UNCHANGED <<outcome, rc, callVars, files, meters, session>>

\* backend.run for the skill: it returns an exit code or raises.  A download
\* brings the copy's route file along.
AgentReturns ==
  /\ pc = "agent" /\ pc' = "exit"
  /\ verdict' \in Written(verdict)
  /\ route' \in {route} \cup (IF Exists(copy) THEN {copy} ELSE {})
  /\ \/ \E code \in ExitCodes, complete \in BOOLEAN : rc' = Resolved(code, complete, verdict')
     \/ rc' = "raise"
  /\ Metered(execs)
  /\ UNCHANGED <<outcome, callVars, session, execs>>

\* __exit__: the collector and the backend are stopped whatever happened; when
\* backend.stop raises, the call does, also over a good result.
Exit ==
  /\ pc = "exit"
  /\ collector' = FALSE
  /\ \/ rc # "raise" /\ pc' = "judge" /\ backend' = "none" /\ copy' = NoFile /\ UNCHANGED outcome
     \/ Ends("raised") /\ Stops
  /\ UNCHANGED <<rc, callVars, files, meters, orphan, copied, execs>>

-----------------------------------------------------------------------------
(* After the container                                                     *)

\* label_applier is called; it returns, with or without an error, or raises.
Report(kind) ==
  /\ reports' = Append(reports, kind)
  /\ \/ Ends(IF kind = "verdict" THEN "done" ELSE "failed")
     \/ Ends("failed")
     \/ Ends("raised")

\* Mutant: the retries are not counted against max_retries.
TransientUnbounded == rc = "transient" /\ Retryable /\ ~rerun

\* The retry loop goes on.
Transient == rc = "transient" /\ Retryable /\ tries < MaxRetries /\ ~rerun

\* Mutant: the run after an unreadable verdict is not asked how it ended.
JudgeRerunUnchecked ==
  /\ pc = "judge"
  /\ \/ /\ rc = "ok" \/ rerun
        /\ pc' = IF rerun THEN "load" ELSE "cost"
        /\ UNCHANGED <<outcome, tries, reports>>
     \/ /\ Transient /\ tries' = tries + 1 /\ pc' = "enter"
        /\ UNCHANGED <<outcome, reports>>
     \/ rc # "ok" /\ ~Transient /\ ~rerun /\ Report("rc") /\ UNCHANGED tries
  /\ UNCHANGED <<rc, dry, rerun, decision, gated, cost, first, calls, files, meters, session,
                 execs>>

\* The runner returned: go on, retry a transient failure, or report the exit
\* code.  The run after an unreadable verdict is not retried, and neither
\* counted nor gated again.
Judge ==
  /\ pc = "judge"
  /\ \/ /\ rc = "ok" /\ pc' = IF rerun THEN "load" ELSE "cost"
        /\ UNCHANGED <<outcome, tries, reports>>
     \/ /\ Transient /\ tries' = tries + 1 /\ pc' = "enter"
        /\ UNCHANGED <<outcome, reports>>
     \/ rc # "ok" /\ ~Transient /\ Report("rc") /\ UNCHANGED tries
  /\ UNCHANGED <<rc, dry, rerun, decision, gated, cost, first, calls, files, meters, session,
                 execs>>

\* _load_otel_cost: None when the log cannot be parsed.
LoadCost ==
  /\ pc = "cost" /\ pc' = "postGates"
  /\ cost' = log \/ cost' = {}
  /\ UNCHANGED <<outcome, rc, dry, tries, rerun, decision, gated, reports, first, calls, files,
                 meters, session, execs>>

\* Mutant: gate errors are logged only.
PostGatesIgnored ==
  /\ pc = "postGates" /\ gated' = execs
  /\ pc' \in {"label", "load"} /\ reports' = Append(reports, "gates") /\ UNCHANGED outcome
  /\ UNCHANGED <<rc, dry, tries, rerun, decision, cost, first, calls, files, meters, session,
                 execs>>

\* Every post-gate runs; errors end the call, a verdict one returns replaces
\* the loader's, and one may raise.
PostGates ==
  /\ pc = "postGates" /\ gated' = execs
  /\ \/ pc' \in {"label", "load"} /\ UNCHANGED <<outcome, reports>>
     \/ Report("gates")
     \/ Ends("raised") /\ UNCHANGED reports
  /\ UNCHANGED <<rc, dry, tries, rerun, decision, cost, first, calls, files, meters, session,
                 execs>>

\* Mutant: an exception leads to another run as long as it lasts.
LoadVerdictAgain ==
  /\ pc = "load"
  /\ \/ verdict.valid /\ pc' = "label" /\ UNCHANGED <<outcome, rerun, reports>>
     \/ /\ ~verdict.valid /\ ~dry /\ Retryable /\ MaxRetries > 0
        /\ rerun' = TRUE /\ pc' = "enter" /\ UNCHANGED <<outcome, reports>>
  /\ UNCHANGED <<rc, dry, tries, decision, gated, cost, first, calls, files, meters, session,
                 execs>>

\* A verdict that cannot be loaded leads to one more run where retries are
\* allowed.
MayRunAgain == ~dry /\ Retryable /\ MaxRetries > 0 /\ ~rerun

\* verdict_loader: a verdict, or None or an exception.  The latter leads to one
\* more run or, like None at once, to a report without a verdict.
LoadVerdict ==
  /\ pc = "load"
  /\ \/ verdict.valid /\ pc' = "label" /\ UNCHANGED <<outcome, rerun, reports>>
     \/ \E raised \in BOOLEAN :
          /\ ~verdict.valid
          /\ \/ /\ raised /\ MayRunAgain
                /\ rerun' = TRUE /\ pc' = "enter" /\ UNCHANGED <<outcome, reports>>
             \/ ~(raised /\ MayRunAgain) /\ Report("noVerdict") /\ UNCHANGED rerun
  /\ UNCHANGED <<rc, dry, tries, decision, gated, cost, first, calls, files, meters, session,
                 execs>>

\* cost_formatter and label_applier; the former may raise before the latter.
Label ==
  /\ pc = "label"
  /\ Report("verdict") \/ (Ends("raised") /\ UNCHANGED reports)
  /\ UNCHANGED <<rc, dry, tries, rerun, decision, gated, cost, first, calls, files, meters,
                 session, execs>>

Next == \/ Begin \/ PreGates \/ Hooks \/ Enter \/ Setup \/ Route \/ ClassifierReturns
        \/ Launch \/ AgentReturns \/ Exit \/ Judge \/ LoadCost \/ PostGates \/ LoadVerdict
        \/ Label

Spec == Init /\ [][Next]_vars

-----------------------------------------------------------------------------
(* Properties                                                              *)

\* A ticket is reported at most once, whatever was retried; a call that ended
\* without raising reported it exactly once, unless a pre-gate blocked it.
ReportedOnce ==
  /\ Len(reports) <= 1
  /\ pc = "idle" /\ outcome \in {"failed", "done"} => Len(reports) = 1
  /\ outcome = "blocked" => reports = <<>> /\ execs = first

\* Only a run that exited with 0 is reported with a verdict, after the
\* post-gates had seen some output of this call and found nothing.
VerdictOnlyAfterGates ==
  "verdict" \in {reports[i] : i \in DOMAIN reports} =>
    /\ reports = <<"verdict">> /\ rc = "ok"
    /\ dry \/ gated > first

\* Between container runs and between calls no session holds a backend or a
\* collector, whether it ended, failed or never came up.  Only a backend whose
\* own stop raised is left running, and a call that ran an agent ends raising
\* then: it neither goes on nor is reported.  A collector whose start raised after it
\* had started its child is held by no session (orphan), and runs on.
SessionsReleased ==
  /\ pc \notin InSession => backend # "up" /\ ~collector
  /\ backend = "up" => pc \in InSession \ {"setup"}
  /\ pc \notin InSession /\ execs > first /\ outcome # "raised" => backend = "none"

\* Where runs work on work_dir itself, the classifier's rating is used only if
\* the classifier of this very call wrote it, not one that an earlier call left.
RouteOfThisCall ==
  ~copied /\ decision = "classifier" => route.by = first + 1 /\ route.valid

\* A call never starts more agents than the classifier, the first run, the
\* allowed retries and the one run for an unreadable verdict.
RunsBounded == pc # "idle" => execs - first <= 1 + 1 + MaxRetries + 1

\* All runs of a call use the model of one decision.
DecidedOnce == [][decision # "none" /\ pc # "idle" => decision' = decision]_vars

\* gates.py: "Post-gates validate output to catch dangerous changes before
\* they reach the forge": the output that is reported is the one they saw.
ReportedOutputIsGated ==
  reports = <<"verdict">> /\ ~dry => gated = execs

\* README: "OTEL cost totals include the classifier".
CostIncludesClassifier ==
  pc = "postGates" /\ cost # {} /\ decision = "classifier" /\ first + 1 \in metered
    => first + 1 \in cost
=============================================================================
