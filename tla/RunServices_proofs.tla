-------------------------- MODULE RunServices_proofs --------------------------
(***************************************************************************)
(* RunServices behaves, in each of its parts, as the part's own            *)
(* specification allows, so what is proved of a part holds of the whole.   *)
(***************************************************************************)
EXTENDS RunServices, RemoteServices_proofs, RunOutput_proofs, Toolchains_proofs

\* A step of the services is a step of a part or leaves it alone.
LEMMA StepsOfParts ==
  ASSUME [ServicesNext]_servicesVars
  PROVE  /\ [PushNext]_pushVars
         /\ [ForgeNext]_forgeVars
         /\ [JiraNext]_jiraVars
         /\ [ToolNext]_toolVars
         /\ [StreamNext]_streamVars
         /\ [OtelNext]_otelVars
<1>1. CASE ServicesNext
  BY <1>1 DEF ServicesNext, StreamTakes
<1>2. CASE UNCHANGED servicesVars
  BY <1>2 DEF servicesVars
<1> QED
  BY <1>1, <1>2

\* push_branch, the forge and Jira clients, the toolchain provisioning, the
\* reading of the stream and the telemetry log inside a run are the ones their
\* own specifications describe.
THEOREM PartsImplemented ==
  Spec => PushSpec /\ ForgeSpec /\ JiraSpec /\ ToolSpec /\ StreamSpec /\ OtelSpec
<1>1. ServicesInit => PushInit /\ ForgeInit /\ JiraInit /\ ToolInit /\ StreamInit /\ OtelInit
  BY DEF ServicesInit
<1> QED
  BY <1>1, StepsOfParts, PTL DEF Spec, PushSpec, ForgeSpec, JiraSpec, ToolSpec, StreamSpec, OtelSpec

\* push_branch: a push that reports success left the branch at the pushed commit
\* at some moment of the call.
THEOREM PushesSucceed == Spec => []SuccessMeansPushed
<1> QED
  BY PartsImplemented, SuccessIsTrue, PTL

\* push_branch under a pinned lease overwrites nothing but what the lease names.
THEOREM PushesKeepLeases == Spec => PinnedLeaseHeld
<1> QED
  BY PartsImplemented, LeaseHeld, PTL

\* push_branch makes the remote branch a compare-and-swap register.
THEOREM BranchIsRegister == Spec => ImplementsLease
<1> QED
  BY PartsImplemented, PushIsLeased, PTL

\* The forge clients: a request that is handed out is the project's own, was open
\* during the call and is called new only by the call that made it.
THEOREM RequestsHandedOut == Spec => []ForgeAnswerTrue
<1> QED
  BY PartsImplemented, ForgeAnswers, PTL

\* The forge clients: no CI success over a check that kept running or failing.
THEOREM ChecksCovered == Spec => []SuccessCoversChecks
<1> QED
  BY PartsImplemented, SuccessEarned, PTL

\* The forge clients: feedback that is kept comes from somebody trusted.
THEOREM FeedbackKept == Spec => []TrustedFeedback
<1> QED
  BY PartsImplemented, FeedbackTrusted, PTL

\* The Jira client: a write that returns took effect.
THEOREM JiraWrites == Spec => []JiraWritesDone
<1> QED
  BY PartsImplemented, WritesAreDone, PTL

\* get_label_author: no older addition, and no reporter, is named in place of
\* the last addition.
THEOREM JiraAuthors == Spec => []LabelAuthorCurrent
<1> QED
  BY PartsImplemented, LabelAuthorIsCurrent, PTL

\* Toolchain provisioning: what is put on PATH is whole and of the version
\* asked for.
THEOREM ToolsWhole == Spec => []ToolchainsWhole
<1> QED
  BY PartsImplemented, OnlyWholeToolchains, PTL

\* _process_stream: no agent is signalled before its run is over, none is left
\* behind, and success is earned.
THEOREM AgentsStopped == Spec => []StoppedWhenOver
<1> QED
  BY PartsImplemented, AgentStopped, PTL

\* inject_root_spans leaves the run one whole trace.
THEOREM TracesAreOne == Spec => []OneTrace
<1> QED
  BY PartsImplemented, TraceIsOne, PTL

\* _parse_metrics counts every accepted event once.
THEOREM UsageOfRun == Spec => []UsageOnce
<1> QED
  BY PartsImplemented, UsageCountedOnce, PTL

=============================================================================
