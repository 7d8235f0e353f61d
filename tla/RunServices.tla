----------------------------- MODULE RunServices -----------------------------
(***************************************************************************)
(* What a run of the agent leans on: toolchains are provisioned before it, *)
(* its output is read and its telemetry collected during it, and after it  *)
(* the branch is pushed, the merge request made and its feedback read, the *)
(* Jira issue kept up to date.  The six share no state, so a behaviour     *)
(* exercises one of them; `part` says which and keeps the others at rest.  *)
(***************************************************************************)
EXTENDS GitPush, ForgeClient, JiraClient, Toolchains, RunStream, OtelCollector

CONSTANT
  Parts           \* the parts the behaviours exercise

ASSUME PartsAssumption ==
  Parts \subseteq {"push", "forge", "jira", "tools", "stream", "otel"}

VARIABLE part

servicesVars ==
  <<part, pushVars, forgeVars, jiraVars, toolVars, streamVars, otelVars>>

\* The parts a behaviour does not exercise start in one fixed state.
Rests(p, A) == IF part = p THEN TRUE ELSE A

ServicesInit ==
  /\ part \in Parts
  /\ Rests("push", remote = Absent /\ head = CHOOSE c \in Ours : TRUE)
  /\ Rests("forge", kind = "github" /\ theme = "access" /\ had = {})
  /\ Rests("jira", acli = FALSE /\ atCreation = FALSE)
  /\ Rests("tools",
       /\ tool = CHOOSE t \in Tools : TRUE
       /\ asked = CHOOSE r \in Requests : TRUE
       /\ listed = [v \in Releases |-> IF Publishable(v) THEN FirstBuild ELSE Unlisted])
  /\ Rests("stream",
       /\ harness = CHOOSE h \in Harnesses : TRUE
       /\ streaming = TRUE /\ wantsVerdict = FALSE
       /\ proc = [stubborn |-> FALSE, alive |-> TRUE, signal |-> "none", code |-> NoCode]
       /\ verdictFile = "absent")
  /\ Rests("otel",
       /\ otelTheme = "spans" /\ traceparent = CHOOSE t \in TraceIds : TRUE
       /\ born = [i \in SpanIds |-> [trace |-> traceparent, parent |-> NoParent]])
  /\ PushInit /\ ForgeInit /\ JiraInit /\ ToolInit /\ StreamInit /\ OtelInit

StreamTakes(A) ==
  /\ part = "stream" /\ A
  /\ UNCHANGED <<part, pushVars, forgeVars, jiraVars, toolVars, otelVars>>

ServicesNext ==
  \/ /\ part = "push" /\ PushNext
     /\ UNCHANGED <<part, forgeVars, jiraVars, toolVars, streamVars, otelVars>>
  \/ /\ part = "forge" /\ ForgeNext
     /\ UNCHANGED <<part, pushVars, jiraVars, toolVars, streamVars, otelVars>>
  \/ /\ part = "jira" /\ JiraNext
     /\ UNCHANGED <<part, pushVars, forgeVars, toolVars, streamVars, otelVars>>
  \/ /\ part = "tools" /\ ToolNext
     /\ UNCHANGED <<part, pushVars, forgeVars, jiraVars, streamVars, otelVars>>
  \/ StreamTakes(StreamNext)
  \/ /\ part = "otel" /\ OtelNext
     /\ UNCHANGED <<part, pushVars, forgeVars, jiraVars, toolVars, streamVars>>

\* Only the reading of the agent's output is owed progress: the host's thread
\* goes on and a signal it sent takes effect (see RunStream).
ServicesFair ==
  /\ WF_servicesVars(StreamTakes(Host))
  /\ WF_servicesVars(StreamTakes(SignalEnds))

Spec == ServicesInit /\ [][ServicesNext]_servicesVars /\ ServicesFair

=============================================================================
