---------------------------- MODULE OtelCollector ----------------------------
(***************************************************************************)
(* The OTEL log of one run (otel.py): the agent's exporter posts batches   *)
(* to the collector, which appends what it accepts to the log; batches are *)
(* lost, refused or posted again when the answer is lost.  When the run is *)
(* over the collector is stopped, the run's traces are stitched into one   *)
(* under a root (inject_root_spans), the usage is summed (_parse_metrics)  *)
(* and written back (append_codex_usage).  `theme` says whether the        *)
(* behaviour is about spans or about usage events.                         *)
(***************************************************************************)
EXTENDS Integers, FiniteSets, Functions

CONSTANTS
  SpanIds,        \* an initial segment of the positive numbers, as spans start
  TraceIds,       \* trace ids the agent's spans may have
  Batches,        \* batches of usage events
  Counts          \* token counts an event may carry

ASSUME OtelAssumption ==
  /\ SpanIds = 1..Cardinality(SpanIds) /\ IsFiniteSet(SpanIds)
  /\ TraceIds # {} /\ Counts \subseteq Nat

VARIABLES
  otelTheme,      \* "spans" or "usage"
  collecting,     \* the collector runs
  step,           \* what the host does with the log after the run
  born,           \* the spans the agent's run has, exported or not
  spans,          \* the spans in the log
  traceparent,    \* TRACEPARENT's trace, the one the run's root should have
  usage,          \* per batch, its event and how often the log has it
  lost,           \* an answer was lost: the exporter posted a batch again
  ownPoints,      \* token sums append_codex_usage wrote to the log
  totals          \* what the last reading of the log reports

otelVars ==
  <<otelTheme, collecting, step, born, spans, traceparent, usage, lost, ownPoints, totals>>

\* No parent; the span id TRACEPARENT names, which no span of the agent has.
NoParent == 0
RunSpan == Cardinality(SpanIds) + 1

\* ------------------------------------------------------------- collecting

\* A span starts after its parent and belongs to its trace; a first span has
\* no parent or, in TRACEPARENT's trace, the run's span.
Forests ==
  {f \in [SpanIds -> [trace : TraceIds, parent : SpanIds \cup {NoParent, RunSpan}]] :
     \A i \in SpanIds :
       \/ f[i].parent = NoParent
       \/ f[i].parent = RunSpan /\ f[i].trace = traceparent
       \/ f[i].parent \in 1..(i-1) /\ f[f[i].parent].trace = f[i].trace}

Event == [input : Counts, cached : Counts, written : Counts, output : Counts]

NoTokens == [input |-> 0, cached |-> 0, written |-> 0, output |-> 0]

\* Codex counts the cached and the cache-write tokens among its input.
Events == {e \in Event : e.cached + e.written <= e.input}

OtelInit ==
  /\ otelTheme \in {"spans", "usage"} /\ collecting = TRUE /\ step = "run"
  /\ traceparent \in TraceIds
  /\ IF otelTheme = "spans" THEN born \in Forests
     ELSE born = [i \in SpanIds |-> [trace |-> traceparent, parent |-> NoParent]]
  /\ spans = {} /\ lost = FALSE /\ ownPoints = 0 /\ totals = 0
  /\ usage \in [Batches -> [event : IF otelTheme = "usage" THEN Events ELSE {NoTokens},
                            stored : {0}]]

ofTheRun == <<otelTheme, born, traceparent>>

\* do_POST appends what it accepts; any span or batch may never arrive.
PostSpan ==
  /\ otelTheme = "spans" /\ collecting
  /\ \E i \in SpanIds :
       /\ ~\E s \in spans : s.id = i
       /\ spans' = spans \cup
            {[id |-> i, trace |-> born[i].trace, parent |-> born[i].parent, made |-> FALSE]}
  /\ UNCHANGED <<ofTheRun, collecting, step, usage, lost, ownPoints, totals>>

\* A batch whose answer was lost is posted, and appended, once more.
PostUsage ==
  /\ otelTheme = "usage" /\ collecting
  /\ \E b \in Batches :
       /\ usage[b].stored < 2
       /\ usage' = [usage EXCEPT ![b].stored = @ + 1]
       /\ lost' = (lost \/ usage[b].stored = 1)
  /\ UNCHANGED <<ofTheRun, collecting, step, spans, ownPoints, totals>>

\* stop_collector, before anything reads the log.
StopCollector ==
  /\ step = "run" /\ collecting' = FALSE /\ step' = "stitch"
  /\ UNCHANGED <<ofTheRun, spans, usage, lost, ownPoints, totals>>

\* -------------------------------------------------------------- the traces

Traces(ss) == {s.trace : s \in ss}
InTrace(t, ss) == {s \in ss : s.trace = t}
Ids(ss) == {s.id : s \in ss}
Roots(ss) == {s \in ss : s.parent = NoParent}
Parents(ss) == {s.parent : s \in ss} \ {NoParent}
Dangling(ss) == Parents(ss) \ Ids(ss)

Uses(p, ss) == Cardinality({s \in ss : s.parent = p})

\* The ids most spans name as parent among ps; the log's order breaks ties.
MostCommon(ps, ss) == {p \in ps : \A q \in ps : Uses(q, ss) <= Uses(p, ss)}

\* Point the spans whose parent is missing among ids at root.
Rehomed(ss, ids, root) ==
  {[s EXCEPT !.parent = IF @ \in ids \cup {NoParent} THEN @ ELSE root] : s \in ss}

\* The trace the others are merged into.
Primaries ==
  IF traceparent \in Traces(spans) THEN {traceparent}
  ELSE {t \in Traces(spans) : \A u \in Traces(spans) :
          Cardinality(InTrace(u, spans)) <= Cardinality(InTrace(t, spans))}

\* The span its root is, or will be given.
PrimaryRoots(ss) ==
  IF Roots(ss) # {} THEN Ids(Roots(ss))
  ELSE MostCommon(Dangling(ss), ss)

\* A span of another trace hangs under the root unless its parent is there.
Merged(s, primary, root) ==
  LET own == Ids(InTrace(s.trace, spans)) IN
  [s EXCEPT !.trace = primary, !.parent = IF @ \in own THEN @ ELSE root]

\* _stitch_run_traces: every trace of the log becomes part of one.
Stitch ==
  /\ step = "stitch" /\ step' = "inject"
  /\ IF otelTheme = "usage" \/ Cardinality(Traces(spans)) < 2 THEN UNCHANGED spans
     ELSE \E primary \in Primaries :
          LET mine == InTrace(primary, spans) IN
          \E root \in PrimaryRoots(mine) :
            spans' = Rehomed(mine, Ids(mine) \cup {root}, root) \cup
                     {Merged(s, primary, root) : s \in spans \ mine}
  /\ UNCHANGED <<ofTheRun, collecting, usage, lost, ownPoints, totals>>

\* _find_orphan_traces: the parent most spans of a trace without root name.
OrphanRoots(ss) == MostCommon(Parents(ss), ss)

Synthetic(t, id) == [id |-> id, trace |-> t, parent |-> NoParent, made |-> TRUE]

\* Mutant: a trace with a real root keeps its dangling spans.
InjectOrphansOnly ==
  /\ step = "inject" /\ step' = "read"
  /\ IF spans = {} THEN spans' = {Synthetic(traceparent, RunSpan)}
     ELSE \E t \in Traces(spans) :
          IF Roots(spans) # {} THEN UNCHANGED spans
          ELSE \E root \in OrphanRoots(spans) :
                 spans' = Rehomed(spans, Ids(spans), root) \cup {Synthetic(t, root)}
  /\ UNCHANGED <<ofTheRun, collecting, usage, lost, ownPoints, totals>>

\* inject_root_spans: spans whose parent never arrived hang under their
\* trace's root, and a trace without one is given one; a log without spans
\* is given the run's own root.  One trace is left by now.
Inject ==
  /\ step = "inject" /\ step' = "read"
  /\ IF otelTheme = "usage" THEN UNCHANGED spans
     ELSE IF spans = {} THEN spans' = {Synthetic(traceparent, RunSpan)}
     ELSE \E t \in Traces(spans) :
          IF Roots(spans) # {}
          THEN \E root \in Ids(Roots(spans)) : spans' = Rehomed(spans, Ids(spans), root)
          ELSE \E root \in OrphanRoots(spans) :
                 spans' = Rehomed(spans, Ids(spans), root) \cup {Synthetic(t, root)}
  /\ UNCHANGED <<ofTheRun, collecting, usage, lost, ownPoints, totals>>

\* --------------------------------------------------------------- the usage

\* Mutant: the cached tokens are counted as input too.
InclusiveInput(e) == e.input

\* Codex reports the input with the cached and the cache-write tokens in it.
FreshInput(e) == IF e.input > e.cached + e.written THEN e.input - e.cached - e.written ELSE 0

\* _parse_metrics: the four counts of every completion event in the log.
\* The points agentic-ci wrote itself are never read back.
Tokens(e) == FreshInput(e) + e.cached + e.written + e.output

TokensReported == SumFunction([b \in Batches |-> usage[b].stored * Tokens(usage[b].event)])

\* print_summary or read_usage_summary, then append_codex_usage.
ReadUsage ==
  /\ otelTheme = "usage" /\ step = "read" /\ step' = "append"
  /\ totals' = TokensReported
  /\ UNCHANGED <<ofTheRun, collecting, spans, usage, lost, ownPoints>>

AppendUsage ==
  /\ otelTheme = "usage" /\ step = "append" /\ step' = "again"
  /\ ownPoints' = ownPoints + totals
  /\ UNCHANGED <<ofTheRun, collecting, spans, usage, lost, totals>>

\* The log is read again, by a later summary or a classifier's session.
ReadAgain ==
  /\ otelTheme = "usage" /\ step = "again" /\ step' = "done"
  /\ totals' = TokensReported
  /\ UNCHANGED <<ofTheRun, collecting, spans, usage, lost, ownPoints>>

OtelNext ==
  \/ PostSpan \/ PostUsage \/ StopCollector \/ Stitch \/ Inject
  \/ ReadUsage \/ AppendUsage \/ ReadAgain

\* -------------------------------------------------------------- properties

\* inject_root_spans: whatever spans of the run were lost, the log it leaves
\* has one trace, a root in it, and no span whose parent is missing.
OneTrace ==
  step = "read" /\ otelTheme = "spans" =>
    /\ Cardinality(Traces(spans)) = 1
    /\ Roots(spans) # {} /\ Dangling(spans) = {}

\* _parse_metrics and append_codex_usage: each reading of the log reports
\* the tokens of every event the collector accepted, cached ones not twice,
\* each event once unless the exporter posted it again after a lost answer,
\* and what agentic-ci wrote into the log itself not at all.
UsageOnce ==
  step \in {"append", "again", "done"} /\ ~lost =>
    totals = SumFunction([b \in Batches |->
               IF usage[b].stored > 0 THEN usage[b].event.input + usage[b].event.output ELSE 0])

\* docs/otel-architecture.md and the comment in inject_root_spans: the root a
\* trace is given reuses the most common missing parent, so no exported span
\* has its id.
RootReusesMissing ==
  \A s, r \in spans : r.made /\ ~s.made => s.id # r.id

=============================================================================
