--------------------------- MODULE RunOutput_proofs ---------------------------
(***************************************************************************)
(* What is made of a run's output: how its stream is read to the end, and  *)
(* what the telemetry log tells of it, for any spans, batches and counts.  *)
(***************************************************************************)
EXTENDS RunStream, OtelCollector, FiniteSetTheorems, WellFoundedInduction, TLAPS

StreamSpec == StreamInit /\ [][StreamNext]_streamVars

Processes == [stubborn : BOOLEAN, alive : BOOLEAN, signal : {"none", "term", "kill"}, code : Int]

StreamTypeOK ==
  /\ writers \subseteq {"agent", "helper"} /\ complete \in BOOLEAN /\ proc \in Processes
  /\ reader \in {"read", "grace", "terminate", "wait", "reaped", "returned", "raised"}
  /\ rc \in Int

\* _process_stream and _resolve_exit_code: the host, and the processor of Claude
\* Code, signal an agent only after its messages said the run was complete or
\* once nobody can write to its stdout any more, however slow it is; when the
\* call returns the process is gone, and it returns success only for a process
\* that exited with 0 or a run that was said to be complete.
StoppedWhenOver ==
  /\ proc.signal # "none" => complete \/ writers = {}
  /\ reader = "returned" => ~proc.alive /\ (rc = 0 => proc.code = 0 \/ complete)

\* The host leaves its loop for the end of the process only when the run is over.
LeftWhenOver ==
  reader \in {"grace", "terminate", "wait", "reaped", "returned"} => complete \/ writers = {}

\* Once it is reaped, the process is gone.
ReapedIsGone == reader \in {"reaped", "returned"} => ~proc.alive

StreamInv == StreamTypeOK /\ LeftWhenOver /\ ReapedIsGone /\ StoppedWhenOver

-----------------------------------------------------------------------------
(* The stream                                                              *)

\* An agent that just started, with nothing read.
LEMMA InitStream == StreamInit => StreamInv
<1> SUFFICES ASSUME StreamInit PROVE StreamInv
  OBVIOUS
<1>1. proc \in Processes /\ proc.signal = "none"
  <2>1. proc \in [stubborn : BOOLEAN, alive : {TRUE}, signal : {"none"}, code : {99}]
    BY DEF StreamInit, NoCode
  <2>2. {TRUE} \subseteq BOOLEAN /\ {"none"} \subseteq {"none", "term", "kill"} /\ {99} \subseteq Int
    OBVIOUS
  <2> QED
    BY <2>1, <2>2 DEF Processes
<1>2. writers = {"agent"} /\ complete = FALSE /\ reader = "read" /\ rc \in Int
  BY DEF StreamInit, NoCode
<1> QED
  BY <1>1, <1>2 DEF StreamInv, StreamTypeOK, LeftWhenOver, ReapedIsGone, StoppedWhenOver

\* A signal is only noted for a living process.
LEMMA SignalledTyped ==
  ASSUME proc \in Processes, NEW s \in {"term", "kill"}
  PROVE  Signalled(s) \in Processes /\ Signalled(s).alive = proc.alive /\ Signalled(s).code = proc.code
<1> QED
  BY DEF Signalled, Processes

\* Every step keeps the agent running until its run is over.
LEMMA StepStream == StreamInv /\ [StreamNext]_streamVars => StreamInv'
<1> SUFFICES ASSUME StreamInv, [StreamNext]_streamVars PROVE StreamInv'
  OBVIOUS
<1>0. StreamTypeOK /\ proc \in Processes
  BY DEF StreamInv, StreamTypeOK
<1> USE DEF StreamInv, StreamTypeOK, LeftWhenOver, ReapedIsGone, StoppedWhenOver
<1>1. CASE AgentWrites \/ WritesVerdict \/ UNCHANGED streamVars
  <2>1. UNCHANGED <<writers, complete, proc, reader, rc>>
    BY <1>1 DEF AgentWrites, WritesVerdict, ofTheCall, streamVars
  <2> QED
    BY <2>1
<1>2. CASE StartsHelper \/ HelperEnds \/ ClosesStdout
  <2>1. /\ UNCHANGED <<complete, proc, reader, rc>> /\ writers' \subseteq {"agent", "helper"}
        /\ writers = {} => writers' = {}
    BY <1>2 DEF StartsHelper, HelperEnds, ClosesStdout
  <2> QED
    BY <2>1
<1>3. CASE AgentExits \/ SignalEnds
  <2>1. PICK code \in Int : Gone(code)
    BY <1>3 DEF AgentExits, SignalEnds
  <2>2. proc.alive
    BY <1>3 DEF AgentExits, SignalEnds
  <2>3. proc' \in Processes /\ ~proc'.alive /\ proc'.signal = proc.signal
    BY <1>0, <2>1 DEF Gone, Processes
  <2>4. UNCHANGED <<complete, reader, rc>> /\ writers' = writers \ {"agent"}
    BY <2>1 DEF Gone
  <2> QED
    BY <2>2, <2>3, <2>4
<1>4. CASE ReadLine
  <2>1. UNCHANGED <<writers, rc>> /\ reader = "read"
    BY <1>4 DEF ReadLine
  <2>2. \/ UNCHANGED <<proc, complete>> /\ reader' \in {"read", "raised"}
        \/ complete' = TRUE /\ reader' = "grace" /\ proc' \in {proc, Signalled("term")}
    BY <1>4, <2>1 DEF ReadLine, ToReader
  <2> QED
    BY <1>0, <2>1, <2>2, SignalledTyped
<1>5. CASE ReadEof \/ GraceEnds
  <2>1. /\ UNCHANGED <<writers, rc, proc, complete>> /\ reader' = "terminate"
        /\ reader = "grace" \/ writers = {}
    BY <1>5 DEF ReadEof, GraceEnds, ToReader
  <2> QED
    BY <2>1
<1>6. CASE Terminate
  <2>1. /\ UNCHANGED <<writers, rc, complete>> /\ reader = "terminate" /\ reader' = "wait"
        /\ proc' = Signalled("term")
    BY <1>6 DEF Terminate, ToReader
  <2> QED
    BY <1>0, <2>1, SignalledTyped
<1>7. CASE Await
  <2>1. /\ UNCHANGED <<writers, rc, complete>> /\ reader = "wait"
        /\ \/ ~proc.alive /\ reader' = "reaped" /\ UNCHANGED proc
           \/ reader' = reader /\ proc' = Signalled("kill")
    BY <1>7 DEF Await, ToReader
  <2> QED
    BY <1>0, <2>1, SignalledTyped
<1>8. CASE Resolve
  <2>1. /\ UNCHANGED <<writers, proc, complete>> /\ reader = "reaped" /\ reader' = "returned"
        /\ rc' \in {0, proc.code} /\ (rc' = 0 => complete \/ proc.code = 0)
    BY <1>8 DEF Resolve, ToReader
  <2>2. proc.code \in Int
    BY <1>0 DEF Processes
  <2> QED
    BY <2>1, <2>2
<1> QED
  BY <1>1, <1>2, <1>3, <1>4, <1>5, <1>6, <1>7, <1>8 DEF StreamNext

\* _process_stream: nobody signals an agent whose run is not over, and success
\* is an exit with 0 or a run that was said to be complete, for any number of
\* lines and whatever the agent and its helper do.
THEOREM AgentStopped == StreamSpec => []StoppedWhenOver
<1>1. StreamInv => StoppedWhenOver
  BY DEF StreamInv
<1> QED
  BY <1>1, InitStream, StepStream, PTL DEF StreamSpec

-----------------------------------------------------------------------------
(* The telemetry log                                                       *)

OtelSpec == OtelInit /\ [][OtelNext]_otelVars

OtelSteps == {"run", "stitch", "inject", "read", "append", "again", "done"}
SpanRecords == [id : Int, trace : TraceIds, parent : Int, made : BOOLEAN]
EventRecords == [input : Nat, cached : Nat, written : Nat, output : Nat]
UsageRecords == [event : {e \in EventRecords : e.cached + e.written <= e.input}, stored : Nat]

OtelTypeOK ==
  /\ otelTheme \in {"spans", "usage"} /\ step \in OtelSteps /\ traceparent \in TraceIds
  /\ born \in [SpanIds -> [trace : TraceIds, parent : SpanIds \cup {NoParent, RunSpan}]]
  /\ spans \subseteq SpanRecords
  /\ usage \in [Batches -> UsageRecords] /\ lost \in BOOLEAN

\* The collector runs as long as the run, and the log is of one theme.
CollectsDuringRun == collecting <=> step = "run"

\* Before the stitching there are only so many traces; after it, one at most.
TracesOfLog ==
  /\ step \in {"run", "stitch"} => IsFiniteSet(Traces(spans))
  /\ step = "inject" /\ otelTheme = "spans" => \A r, s \in spans : r.trace = s.trace

TraceInv == CollectsDuringRun /\ TracesOfLog /\ OneTrace

\* A batch is in the log twice only after a lost answer.
StoredOnce == ~lost => \A b \in Batches : usage[b].stored <= 1

\* A reading stays what the log says: nothing that counts is added to it.
ReadingCurrent == step \in {"append", "again", "done"} => totals = TokensReported

UsageInv == CollectsDuringRun /\ StoredOnce /\ ReadingCurrent

-----------------------------------------------------------------------------
(* Types                                                                   *)

\* Span ids are numbers.
LEMMA IdsAreNumbers ==
  SpanIds \subseteq Nat \ {0} /\ NoParent = 0 /\ RunSpan \in Int /\ RunSpan \notin SpanIds
<1>1. Cardinality(SpanIds) \in Nat
  BY OtelAssumption, FS_CardinalityType
<1> QED
  BY <1>1, OtelAssumption DEF NoParent, RunSpan

\* A log that is not read yet.
LEMMA InitOtel == OtelInit => OtelTypeOK /\ TraceInv /\ UsageInv
<1> SUFFICES ASSUME OtelInit PROVE OtelTypeOK /\ TraceInv /\ UsageInv
  OBVIOUS
<1>1. born \in [SpanIds -> [trace : TraceIds, parent : SpanIds \cup {NoParent, RunSpan}]]
  BY DEF OtelInit, Forests
<1>2. usage \in [Batches -> UsageRecords]
  <2>1. Events \cup {NoTokens} \subseteq {e \in EventRecords : e.cached + e.written <= e.input}
    <3>1. Counts \subseteq Nat
      BY OtelAssumption
    <3>2. Events \subseteq {e \in EventRecords : e.cached + e.written <= e.input}
      BY <3>1 DEF Events, Event, EventRecords
    <3>3. NoTokens \in {e \in EventRecords : e.cached + e.written <= e.input}
      BY DEF NoTokens, EventRecords
    <3> QED
      BY <3>2, <3>3
  <2>2. usage \in [Batches -> [event : Events \cup {NoTokens}, stored : {0}]]
    BY DEF OtelInit
  <2>3. ASSUME NEW b \in Batches PROVE usage[b] \in UsageRecords
    <3>1. usage[b] \in [event : Events \cup {NoTokens}, stored : {0}]
      BY <2>2
    <3> QED
      BY <2>1, <3>1 DEF UsageRecords
  <2> QED
    BY <2>2, <2>3
<1>3. OtelTypeOK
  BY <1>1, <1>2 DEF OtelInit, OtelTypeOK, OtelSteps
<1>4. Traces(spans) = {}
  BY DEF OtelInit, Traces
<1>5. TraceInv
  BY <1>4, FS_EmptySet DEF OtelInit, TraceInv, CollectsDuringRun, TracesOfLog, OneTrace
<1>6. UsageInv
  BY DEF OtelInit, UsageInv, CollectsDuringRun, StoredOnce, ReadingCurrent
<1> QED
  BY <1>3, <1>5, <1>6

\* Spans that are given another parent stay spans of their trace.
LEMMA RehomedSpans ==
  ASSUME NEW ss \in SUBSET SpanRecords, NEW ids, NEW root \in Int
  PROVE  /\ Rehomed(ss, ids, root) \subseteq SpanRecords
         /\ Ids(Rehomed(ss, ids, root)) = Ids(ss)
         /\ \A r \in Rehomed(ss, ids, root) :
              /\ r.parent \in ids \cup {NoParent, root}
              /\ \E s \in ss : r.trace = s.trace
         /\ \A s \in ss : s.parent = NoParent => s \in Rehomed(ss, ids, root)
<1> DEFINE Home(s) == [s EXCEPT !.parent = IF @ \in ids \cup {NoParent} THEN @ ELSE root]
           homed == Rehomed(ss, ids, root)
<1>1. homed = {Home(s) : s \in ss}
  BY DEF Rehomed
<1>2. ASSUME NEW s \in ss
      PROVE  /\ Home(s) \in SpanRecords /\ Home(s).id = s.id /\ Home(s).trace = s.trace
             /\ Home(s).parent \in ids \cup {NoParent, root}
             /\ s.parent = NoParent => Home(s) = s
  BY DEF SpanRecords
<1> HIDE DEF Home, homed
<1>3. homed \subseteq SpanRecords
  BY <1>1, <1>2
<1>4. Ids(homed) = Ids(ss)
  BY <1>1, <1>2 DEF Ids
<1>5. \A r \in homed : r.parent \in ids \cup {NoParent, root} /\ \E s \in ss : r.trace = s.trace
  BY <1>1, <1>2
<1>6. \A s \in ss : s.parent = NoParent => s \in homed
  BY <1>1, <1>2
<1> QED
  BY <1>3, <1>4, <1>5, <1>6 DEF homed

\* The spans named as root are numbers.
LEMMA RootsAreNumbers ==
  ASSUME NEW ss \in SUBSET SpanRecords
  PROVE  PrimaryRoots(ss) \subseteq Int /\ OrphanRoots(ss) \subseteq Int /\ Ids(ss) \subseteq Int
<1> QED
  BY DEF PrimaryRoots, OrphanRoots, MostCommon, Roots, Dangling, Parents, Ids, SpanRecords

\* The log once its traces are merged into one under the root.
StitchedInto(primary, root) ==
  LET mine == InTrace(primary, spans) IN
  spans' = Rehomed(mine, Ids(mine) \cup {root}, root) \cup
           {Merged(s, primary, root) : s \in spans \ mine}

\* Stitching leaves spans of one trace.
LEMMA StitchedTraces ==
  ASSUME OtelTypeOK, TraceInv, Stitch
  PROVE  /\ spans' \subseteq SpanRecords
         /\ otelTheme = "spans" => \A r, s \in spans' : r.trace = s.trace
<1>1. spans \subseteq SpanRecords /\ IsFiniteSet(Traces(spans))
  BY DEF OtelTypeOK, TraceInv, TracesOfLog, Stitch
<1>2. CASE otelTheme = "usage"
  BY <1>1, <1>2 DEF Stitch
<1>3. CASE UNCHANGED spans /\ Cardinality(Traces(spans)) < 2
  <2>1. ASSUME NEW r \in spans, NEW s \in spans, r.trace # s.trace PROVE FALSE
    <3> DEFINE two == {r.trace} \cup {s.trace}
    <3>1. IsFiniteSet({r.trace}) /\ Cardinality({r.trace}) = 1
      BY FS_Singleton
    <3>2. Cardinality(two) = 2
      BY <2>1, <3>1, FS_AddElement
    <3>3. two \subseteq Traces(spans)
      BY DEF Traces
    <3> HIDE DEF two
    <3>4. Cardinality(two) <= Cardinality(Traces(spans)) /\ Cardinality(Traces(spans)) \in Nat
      BY <1>1, <3>3, FS_Subset, FS_CardinalityType
    <3> QED
      BY <1>3, <3>2, <3>4
  <2> QED
    BY <1>1, <1>3, <2>1
<1>4. ASSUME NEW primary \in Primaries, NEW root \in PrimaryRoots(InTrace(primary, spans)),
             StitchedInto(primary, root)
      PROVE  spans' \subseteq SpanRecords /\ \A r \in spans' : r.trace = primary
  <2> DEFINE mine == InTrace(primary, spans)
             homed == Rehomed(mine, Ids(mine) \cup {root}, root)
             others == {Merged(s, primary, root) : s \in spans \ mine}
  <2>1. mine \subseteq SpanRecords /\ \A s \in mine : s.trace = primary
    BY <1>1 DEF InTrace
  <2>2. root \in Int
    BY <1>4, <2>1, RootsAreNumbers
  <2>3. primary \in TraceIds
    BY <1>1 DEF Primaries, Traces, SpanRecords, OtelTypeOK
  <2>4. homed \subseteq SpanRecords /\ \A r \in homed : \E s \in mine : r.trace = s.trace
    BY <2>1, <2>2, RehomedSpans
  <2>5. ASSUME NEW s \in spans
        PROVE  Merged(s, primary, root) \in SpanRecords /\ Merged(s, primary, root).trace = primary
    <3> DEFINE own == Ids(InTrace(s.trace, spans))
               parent == IF s.parent \in own THEN s.parent ELSE root
    <3>1. s \in SpanRecords
      BY <1>1
    <3>2. parent \in Int
      BY <2>2, <3>1 DEF SpanRecords
    <3>3. Merged(s, primary, root) = [s EXCEPT !.trace = primary, !.parent = parent]
      BY <3>1 DEF Merged, SpanRecords
    <3> HIDE DEF parent
    <3> QED
      BY <2>3, <3>1, <3>2, <3>3 DEF SpanRecords
  <2>6. spans' = homed \cup others
    BY <1>4 DEF StitchedInto
  <2> HIDE DEF mine, homed
  <2> QED
    BY <2>1, <2>4, <2>5, <2>6
<1>5. CASE otelTheme # "usage" /\ ~(Cardinality(Traces(spans)) < 2)
  <2>1. PICK primary \in Primaries :
          \E root \in PrimaryRoots(InTrace(primary, spans)) : StitchedInto(primary, root)
    BY <1>5 DEF Stitch, StitchedInto
  <2>2. PICK root \in PrimaryRoots(InTrace(primary, spans)) : StitchedInto(primary, root)
    BY <2>1
  <2> QED
    BY <1>4, <2>2
<1> QED
  BY <1>2, <1>3, <1>5 DEF Stitch

\* Injecting the root leaves one trace, with a root and nothing that dangles.
LEMMA InjectedRoot ==
  ASSUME OtelTypeOK, TraceInv, Inject
  PROVE  spans' \subseteq SpanRecords /\ OneTrace'
<1>1. /\ spans \subseteq SpanRecords /\ traceparent \in TraceIds
      /\ otelTheme = "spans" => \A r, s \in spans : r.trace = s.trace
  BY DEF OtelTypeOK, TraceInv, TracesOfLog, Inject
<1>2. UNCHANGED otelTheme
  BY DEF Inject, ofTheRun
<1>3. CASE otelTheme = "usage"
  BY <1>1, <1>2, <1>3 DEF Inject, OneTrace
<1>4. ASSUME NEW log \in SUBSET SpanRecords, spans' = log, NEW t,
             \A r \in log : r.trace = t /\ r.parent \in Ids(log) \cup {NoParent},
             NEW first \in log, first.parent = NoParent
      PROVE  OneTrace'
  <2>1. Traces(log) = {t}
    BY <1>4 DEF Traces
  <2>2. Cardinality(Traces(log)) = 1
    BY <2>1, FS_Singleton
  <2>3. Roots(log) # {} /\ Dangling(log) = {}
    BY <1>4 DEF Roots, Dangling, Parents
  <2> QED
    BY <1>4, <2>2, <2>3 DEF OneTrace
<1>5. CASE otelTheme = "spans" /\ spans = {}
  <2> DEFINE only == Synthetic(traceparent, RunSpan)
  <2>1. only \in SpanRecords /\ only.trace = traceparent /\ only.parent = NoParent
    BY <1>1, IdsAreNumbers DEF Synthetic, SpanRecords
  <2>2. spans' = {only}
    BY <1>5 DEF Inject
  <2> HIDE DEF only
  <2> QED
    BY <1>4, <2>1, <2>2
<1>6. CASE otelTheme = "spans" /\ spans # {} /\ Roots(spans) # {}
  <2>1. PICK root \in Ids(Roots(spans)) : spans' = Rehomed(spans, Ids(spans), root)
    BY <1>6 DEF Inject
  <2>2. PICK s \in spans : s.parent = NoParent /\ s.id = root
    BY DEF Ids, Roots
  <2>3. root \in Ids(spans) /\ root \in Int
    BY <1>1, <2>2 DEF Ids, SpanRecords
  <2> DEFINE log == Rehomed(spans, Ids(spans), root)
  <2>4. /\ log \subseteq SpanRecords /\ Ids(log) = Ids(spans) /\ s \in log
        /\ \A r \in log : r.parent \in Ids(spans) \cup {NoParent, root} /\ \E q \in spans : r.trace = q.trace
    BY <1>1, <2>2, <2>3, RehomedSpans
  <2>5. spans' = log
    BY <2>1
  <2> HIDE DEF log
  <2>6. \A r \in log : r.trace = s.trace /\ r.parent \in Ids(log) \cup {NoParent}
    BY <1>1, <1>6, <2>2, <2>3, <2>4
  <2> QED
    BY <1>4, <2>2, <2>4, <2>5, <2>6
<1>7. CASE otelTheme = "spans" /\ spans # {} /\ Roots(spans) = {}
  <2>1. PICK t \in Traces(spans), root \in OrphanRoots(spans) :
          spans' = Rehomed(spans, Ids(spans), root) \cup {Synthetic(t, root)}
    BY <1>7 DEF Inject
  <2>2. root \in Int /\ t \in TraceIds /\ \A s \in spans : s.trace = t
    BY <1>1, <1>7, RootsAreNumbers DEF Traces, SpanRecords
  <2> DEFINE homed == Rehomed(spans, Ids(spans), root)
             given == Synthetic(t, root)
             log == homed \cup {given}
  <2>3. /\ homed \subseteq SpanRecords /\ Ids(homed) = Ids(spans)
        /\ \A r \in homed : r.parent \in Ids(spans) \cup {NoParent, root} /\ \E q \in spans : r.trace = q.trace
    BY <1>1, <2>2, RehomedSpans
  <2>4. given \in SpanRecords /\ given.id = root /\ given.parent = NoParent /\ given.trace = t
    BY <2>2 DEF Synthetic, SpanRecords, NoParent
  <2>5. spans' = homed \cup {given}
    BY <2>1
  <2> HIDE DEF homed, given
  <2>6. Ids(log) = Ids(spans) \cup {root}
    BY <2>3, <2>4 DEF Ids
  <2>7. \A r \in log : r.trace = t /\ r.parent \in Ids(log) \cup {NoParent}
    BY <2>2, <2>3, <2>4, <2>6
  <2>8. log \subseteq SpanRecords /\ given \in log /\ spans' = log
    BY <2>3, <2>4, <2>5
  <2> HIDE DEF log
  <2> QED
    BY <1>4, <2>4, <2>7, <2>8
<1>8. spans' \subseteq SpanRecords
  <2>1. CASE otelTheme = "usage" \/ spans = {}
    <3>1. Synthetic(traceparent, RunSpan) \in SpanRecords
      BY <1>1, IdsAreNumbers DEF Synthetic, SpanRecords
    <3> QED
      BY <1>1, <2>1, <3>1 DEF Inject
  <2>2. CASE otelTheme # "usage" /\ spans # {}
    <3>1. PICK t \in Traces(spans), root \in Ids(Roots(spans)) \cup OrphanRoots(spans) :
            spans' \subseteq Rehomed(spans, Ids(spans), root) \cup {Synthetic(t, root)}
      BY <2>2 DEF Inject
    <3>2. root \in Int /\ t \in TraceIds
      BY <1>1, RootsAreNumbers DEF Traces, SpanRecords, Ids, Roots
    <3>3. Synthetic(t, root) \in SpanRecords /\ Rehomed(spans, Ids(spans), root) \subseteq SpanRecords
      BY <1>1, <3>2, RehomedSpans DEF Synthetic, SpanRecords, NoParent
    <3> QED
      BY <3>1, <3>3
  <2> QED
    BY <2>1, <2>2
<1> QED
  BY <1>3, <1>5, <1>6, <1>7, <1>8 DEF OtelTypeOK

\* Every step keeps the types.
LEMMA StepOtelTyped == OtelTypeOK /\ TraceInv /\ [OtelNext]_otelVars => OtelTypeOK'
<1> SUFFICES ASSUME OtelTypeOK, TraceInv, [OtelNext]_otelVars PROVE OtelTypeOK'
  OBVIOUS
<1>1. CASE PostSpan
  <2>1. PICK i \in SpanIds :
          spans' = spans \cup {[id |-> i, trace |-> born[i].trace, parent |-> born[i].parent, made |-> FALSE]}
    BY <1>1 DEF PostSpan
  <2>2. [id |-> i, trace |-> born[i].trace, parent |-> born[i].parent, made |-> FALSE] \in SpanRecords
    <3>1. i \in Int /\ SpanIds \cup {NoParent, RunSpan} \subseteq Int
      BY IdsAreNumbers
    <3> QED
      BY <3>1 DEF OtelTypeOK, SpanRecords
  <2>3. spans' \subseteq SpanRecords
    BY <2>1, <2>2 DEF OtelTypeOK
  <2> QED
    BY <1>1, <2>3 DEF PostSpan, ofTheRun, OtelTypeOK
<1>2. CASE PostUsage
  <2>1. PICK b \in Batches :
          /\ usage[b].stored < 2 /\ usage' = [usage EXCEPT ![b].stored = @ + 1]
          /\ lost' = (lost \/ usage[b].stored = 1)
    BY <1>2 DEF PostUsage
  <2>2. usage' \in [Batches -> UsageRecords]
    <3> DEFINE posted == [usage[b] EXCEPT !.stored = @ + 1]
    <3>1. posted \in UsageRecords
      BY DEF UsageRecords, OtelTypeOK
    <3>2. usage' = [usage EXCEPT ![b] = posted]
      BY <2>1
    <3> HIDE DEF posted
    <3> QED
      BY <3>1, <3>2 DEF OtelTypeOK
  <2>3. lost' \in BOOLEAN
    BY <2>1
  <2> QED
    BY <1>2, <2>2, <2>3 DEF PostUsage, ofTheRun, OtelTypeOK
<1>3. CASE Stitch
  <2>1. spans' \subseteq SpanRecords
    BY <1>3, StitchedTraces
  <2> QED
    BY <1>3, <2>1 DEF Stitch, ofTheRun, OtelTypeOK, OtelSteps
<1>4. CASE Inject
  <2>1. spans' \subseteq SpanRecords
    BY <1>4, InjectedRoot
  <2> QED
    BY <1>4, <2>1 DEF Inject, ofTheRun, OtelTypeOK, OtelSteps
<1>5. CASE StopCollector \/ ReadUsage \/ AppendUsage \/ ReadAgain
  BY <1>5 DEF StopCollector, ReadUsage, AppendUsage, ReadAgain, ofTheRun, OtelTypeOK, OtelSteps
<1>6. CASE UNCHANGED otelVars
  BY <1>6 DEF otelVars, OtelTypeOK
<1> QED
  BY <1>1, <1>2, <1>3, <1>4, <1>5, <1>6 DEF OtelNext

-----------------------------------------------------------------------------
(* The traces                                                              *)

\* Every step keeps the traces countable, then one, then rooted.
LEMMA StepTraces == OtelTypeOK /\ TraceInv /\ [OtelNext]_otelVars => TraceInv'
<1> SUFFICES ASSUME OtelTypeOK, TraceInv, [OtelNext]_otelVars PROVE TraceInv'
  OBVIOUS
<1>1. CASE PostSpan
  <2>1. PICK i \in SpanIds :
          spans' = spans \cup {[id |-> i, trace |-> born[i].trace, parent |-> born[i].parent, made |-> FALSE]}
    BY <1>1 DEF PostSpan
  <2>2. Traces(spans') = Traces(spans) \cup {born[i].trace}
    <3> DEFINE posted == [id |-> i, trace |-> born[i].trace, parent |-> born[i].parent, made |-> FALSE]
    <3>1. posted.trace = born[i].trace
      OBVIOUS
    <3>2. spans' = spans \cup {posted}
      BY <2>1
    <3> HIDE DEF posted
    <3> QED
      BY <3>1, <3>2 DEF Traces
  <2>3. collecting /\ step = "run" /\ UNCHANGED <<collecting, step>> /\ IsFiniteSet(Traces(spans))
    BY <1>1 DEF PostSpan, TraceInv, CollectsDuringRun, TracesOfLog
  <2>4. IsFiniteSet(Traces(spans'))
    BY <2>2, <2>3, FS_AddElement
  <2> QED
    BY <2>3, <2>4 DEF TraceInv, CollectsDuringRun, TracesOfLog, OneTrace
<1>2. CASE StopCollector
  <2>1. step = "run" /\ step' = "stitch" /\ collecting' = FALSE /\ UNCHANGED spans
    BY <1>2 DEF StopCollector
  <2> QED
    BY <2>1 DEF TraceInv, CollectsDuringRun, TracesOfLog, OneTrace
<1>3. CASE Stitch
  <2>1. /\ step = "stitch" /\ step' = "inject" /\ UNCHANGED <<collecting, otelTheme>>
        /\ otelTheme = "spans" => \A r, s \in spans' : r.trace = s.trace
    BY <1>3, StitchedTraces DEF Stitch, ofTheRun
  <2> QED
    BY <2>1 DEF TraceInv, CollectsDuringRun, TracesOfLog, OneTrace
<1>4. CASE Inject
  <2>1. step = "inject" /\ step' = "read" /\ UNCHANGED collecting /\ OneTrace'
    BY <1>4, InjectedRoot DEF Inject
  <2> QED
    BY <2>1 DEF TraceInv, CollectsDuringRun, TracesOfLog
<1>5. CASE ReadUsage \/ AppendUsage \/ ReadAgain
  <2>1. step \in {"read", "append", "again"} /\ step' \in {"append", "again", "done"} /\ UNCHANGED collecting
    BY <1>5 DEF ReadUsage, AppendUsage, ReadAgain
  <2> QED
    BY <2>1 DEF TraceInv, CollectsDuringRun, TracesOfLog, OneTrace
<1>6. CASE PostUsage \/ UNCHANGED otelVars
  <2>1. UNCHANGED <<otelTheme, collecting, step, spans>>
    BY <1>6 DEF PostUsage, ofTheRun, otelVars
  <2> QED
    BY <2>1 DEF TraceInv, CollectsDuringRun, TracesOfLog, OneTrace
<1> QED
  BY <1>1, <1>2, <1>3, <1>4, <1>5, <1>6 DEF OtelNext

-----------------------------------------------------------------------------
(* The usage                                                               *)

\* The tokens of an event are its input, cached tokens included, and its output.
LEMMA TokensOfEvent ==
  ASSUME NEW e \in EventRecords, e.cached + e.written <= e.input
  PROVE  Tokens(e) = e.input + e.output
<1> QED
  BY DEF Tokens, FreshInput, EventRecords

\* What is summed over a log without duplicates is every stored event once.
LEMMA StoredOnceCounts ==
  ASSUME OtelTypeOK, \A b \in Batches : usage[b].stored <= 1
  PROVE  TokensReported = SumFunction([b \in Batches |->
           IF usage[b].stored > 0 THEN usage[b].event.input + usage[b].event.output ELSE 0])
<1> DEFINE counted(b) == usage[b].stored * Tokens(usage[b].event)
           once(b) == IF usage[b].stored > 0 THEN usage[b].event.input + usage[b].event.output ELSE 0
<1>1. ASSUME NEW b \in Batches PROVE counted(b) = once(b)
  <2>1. /\ usage[b].event \in EventRecords /\ usage[b].event.cached + usage[b].event.written <= usage[b].event.input
        /\ usage[b].stored \in {0, 1}
    <3>1. usage[b] \in UsageRecords /\ usage[b].stored <= 1
      BY DEF OtelTypeOK
    <3> QED
      BY <3>1 DEF UsageRecords
  <2>2. Tokens(usage[b].event) = usage[b].event.input + usage[b].event.output
    BY <2>1, TokensOfEvent
  <2>3. usage[b].event.input + usage[b].event.output \in Nat
    BY <2>1 DEF EventRecords
  <2>4. CASE usage[b].stored = 0
    BY <2>2, <2>3, <2>4
  <2>5. CASE usage[b].stored = 1
    BY <2>2, <2>3, <2>5
  <2> QED
    BY <2>1, <2>4, <2>5
<1>2. [b \in Batches |-> counted(b)] = [b \in Batches |-> once(b)]
  BY <1>1
<1> QED
  BY <1>2 DEF TokensReported

\* Every step keeps duplicates accounted for and readings current.
LEMMA StepUsage == OtelTypeOK /\ UsageInv /\ [OtelNext]_otelVars => UsageInv'
<1> SUFFICES ASSUME OtelTypeOK, UsageInv, [OtelNext]_otelVars PROVE UsageInv'
  OBVIOUS
<1> USE DEF UsageInv, CollectsDuringRun, StoredOnce, ReadingCurrent
<1>1. CASE PostUsage
  <2>1. PICK b \in Batches :
          /\ usage[b].stored < 2 /\ usage' = [usage EXCEPT ![b].stored = @ + 1]
          /\ lost' = (lost \/ usage[b].stored = 1)
    BY <1>1 DEF PostUsage
  <2>2. usage \in [Batches -> UsageRecords] /\ usage[b].stored \in Nat
    BY DEF OtelTypeOK, UsageRecords
  <2>3. \A d \in Batches \ {b} : usage'[d] = usage[d]
    BY <2>1, <2>2
  <2>4. usage'[b].stored = usage[b].stored + 1
    <3>1. usage'[b] = [usage[b] EXCEPT !.stored = @ + 1] /\ usage[b] \in UsageRecords
      BY <2>1, <2>2
    <3> QED
      BY <3>1 DEF UsageRecords
  <2>5. ~lost' => \A d \in Batches : usage'[d].stored <= 1
    <3> SUFFICES ASSUME ~lost' PROVE \A d \in Batches : usage'[d].stored <= 1
      OBVIOUS
    <3>1. ~lost /\ usage[b].stored # 1
      BY <2>1, Zenon
    <3>2. \A d \in Batches : usage[d].stored <= 1
      BY <3>1
    <3> QED
      BY <2>2, <2>3, <2>4, <3>1, <3>2
  <2>6. step = "run" /\ UNCHANGED <<collecting, step>>
    BY <1>1 DEF PostUsage
  <2> QED
    BY <2>5, <2>6
<1>2. CASE PostSpan \/ StopCollector \/ Stitch \/ Inject
  <2>1. /\ UNCHANGED <<usage, lost>> /\ step' \in {"run", "stitch", "inject", "read"}
        /\ collecting' <=> step' = "run"
    BY <1>2 DEF PostSpan, StopCollector, Stitch, Inject, OtelTypeOK
  <2> QED
    BY <2>1
<1>3. CASE ReadUsage \/ AppendUsage \/ ReadAgain
  <2>1. /\ UNCHANGED <<usage, lost, collecting>> /\ step' \in {"append", "again", "done"}
        /\ step \in {"read", "append", "again"} /\ totals' = TokensReported
    BY <1>3 DEF ReadUsage, AppendUsage, ReadAgain
  <2>2. TokensReported' = TokensReported
    BY <2>1 DEF TokensReported
  <2> QED
    BY <2>1, <2>2
<1>4. CASE UNCHANGED otelVars
  BY <1>4 DEF otelVars, TokensReported
<1> QED
  BY <1>1, <1>2, <1>3, <1>4 DEF OtelNext

-----------------------------------------------------------------------------
(* What the log tells                                                      *)

\* The invariants together hold of every state.
LEMMA OtelHolds == OtelSpec => [](OtelTypeOK /\ TraceInv /\ UsageInv)
<1> QED
  BY InitOtel, StepOtelTyped, StepTraces, StepUsage, PTL DEF OtelSpec

\* The log's spans, the usage events and the host's steps keep their types.
THEOREM OtelTyped == OtelSpec => []OtelTypeOK
<1> QED
  BY OtelHolds, PTL

\* inject_root_spans: whatever spans were lost, of however many traces, the log
\* it leaves has one trace, a root and no span whose parent is missing.
THEOREM TraceIsOne == OtelSpec => []OneTrace
<1>1. TraceInv => OneTrace
  BY DEF TraceInv
<1> QED
  BY <1>1, OtelHolds, PTL

\* _parse_metrics: every reading counts each stored event once, its cached
\* tokens not twice and agentic-ci's own points not at all, for any batches and
\* counts, unless an answer was lost.
THEOREM UsageCountedOnce == OtelSpec => []UsageOnce
<1>1. OtelTypeOK /\ UsageInv => UsageOnce
  BY StoredOnceCounts DEF UsageInv, StoredOnce, ReadingCurrent, UsageOnce
<1> QED
  BY <1>1, OtelHolds, PTL

-----------------------------------------------------------------------------
(***************************************************************************)
(* A root is always found: the model lets the stitching and the injection  *)
(* choose a root among the most common missing parents, and would do       *)
(* nothing where there is none.  The code has a fallback for that case.    *)
(***************************************************************************)

\* A span of the agent names no parent, the run's span, or an earlier span.
Earlier(i) == {NoParent, RunSpan} \cup 1..(i-1)
BornInOrder == \A i \in SpanIds : born[i].parent \in Earlier(i)

\* So do the spans of the log until they are stitched; the log is finite.
LogInOrder ==
  /\ step \in {"run", "stitch"} => \A s \in spans : s.id \in SpanIds /\ s.parent \in Earlier(s.id)
  /\ step \in {"run", "stitch", "inject"} => IsFiniteSet(spans)

RootFound ==
  /\ step = "stitch" /\ spans # {} => Primaries # {}
  /\ step = "stitch" => \A t \in Traces(spans) : PrimaryRoots(InTrace(t, spans)) # {}
  /\ step = "inject" /\ spans # {} => Roots(spans) # {} \/ OrphanRoots(spans) # {}

\* The image of a finite set is finite.
LEMMA ImageFinite ==
  ASSUME NEW S, IsFiniteSet(S), NEW f
  PROVE  IsFiniteSet({f[x] : x \in S})
<1> DEFINE T == {f[x] : x \in S}
           g == [x \in S |-> f[x]]
<1>1. g \in Surjection(S, T)
  BY DEF Surjection
<1> HIDE DEF T, g
<1>2. IsFiniteSet(T)
  BY <1>1, FS_Surjection
<1> QED
  BY <1>2 DEF T

\* A set of natural numbers has a least one.
LEMMA LeastNumber ==
  ASSUME NEW T \in SUBSET Nat, T # {}
  PROVE  \E x \in T : \A y \in T : x <= y
<1>1. PICK x \in T : \A y \in T : <<y, x>> \notin OpToRel(<, Nat)
  BY WFMin, NatLessThanWellFounded, Zenon
<1>2. \A y \in T : ~(y < x)
  BY <1>1, Zenon DEF OpToRel
<1> QED
  BY <1>2

\* Numbers that are bounded have a greatest one.
LEMMA GreatestNumber ==
  ASSUME NEW S, S # {}, NEW f \in [S -> Nat], NEW n \in Nat, \A x \in S : f[x] <= n
  PROVE  \E x \in S : \A y \in S : f[y] <= f[x]
<1> DEFINE T == {n - f[x] : x \in S}
<1>1. T \in SUBSET Nat /\ T # {}
  OBVIOUS
<1>2. PICK least \in T : \A y \in T : least <= y
  BY <1>1, LeastNumber
<1>3. PICK x \in S : least = n - f[x]
  OBVIOUS
<1>4. ASSUME NEW y \in S PROVE f[y] <= f[x]
  <2>1. n - f[x] <= n - f[y]
    BY <1>2, <1>3
  <2> QED
    BY <2>1
<1> QED
  BY <1>4

\* Among some parents there is one that most spans of a finite log name.
LEMMA MostCommonFound ==
  ASSUME NEW ss, IsFiniteSet(ss), NEW ps, ps # {}
  PROVE  MostCommon(ps, ss) # {}
<1> DEFINE f == [p \in ps |-> Uses(p, ss)]
<1>1. ASSUME NEW p \in ps PROVE f[p] \in Nat /\ f[p] <= Cardinality(ss)
  <2> DEFINE named == {s \in ss : s.parent = p}
  <2>1. named \in SUBSET ss
    OBVIOUS
  <2> HIDE DEF named
  <2>2. IsFiniteSet(named) /\ Cardinality(named) <= Cardinality(ss) /\ Cardinality(named) \in Nat
    BY <2>1, FS_Subset, FS_CardinalityType
  <2> QED
    BY <2>2 DEF Uses, named
<1>2. Cardinality(ss) \in Nat
  BY FS_CardinalityType
<1>3. f \in [ps -> Nat]
  BY <1>1
<1>4. \E p \in ps : \A q \in ps : f[q] <= f[p]
  <2> HIDE DEF f
  <2> QED
    BY <1>1, <1>2, <1>3, GreatestNumber
<1>5. PICK p \in ps : \A q \in ps : Uses(q, ss) <= Uses(p, ss)
  BY <1>4
<1> QED
  BY <1>5 DEF MostCommon

\* A trace in the order of birth has a root or a span whose parent is missing:
\* its earliest one.
LEMMA EarliestDangles ==
  ASSUME NEW ss, ss # {}, IsFiniteSet(ss), \A s \in ss : s.id \in SpanIds /\ s.parent \in Earlier(s.id)
  PROVE  PrimaryRoots(ss) # {}
<1>1. Ids(ss) \in SUBSET Nat /\ Ids(ss) # {}
  BY IdsAreNumbers DEF Ids
<1>2. PICK first \in ss : \A s \in ss : first.id <= s.id
  <2>1. PICK least \in Ids(ss) : \A i \in Ids(ss) : least <= i
    BY <1>1, LeastNumber
  <2> QED
    BY <2>1 DEF Ids
<1>3. first.parent \in {NoParent, RunSpan} \cup 1..(first.id - 1) /\ first.id \in Nat \ {0}
  BY IdsAreNumbers DEF Earlier
<1>4. CASE first.parent = NoParent
  BY <1>4 DEF PrimaryRoots, Roots, Ids
<1>5. CASE first.parent # NoParent
  <2>1. first.parent \notin Ids(ss)
    BY <1>2, <1>3, <1>5, IdsAreNumbers DEF Ids
  <2>2. Dangling(ss) # {}
    BY <1>5, <2>1 DEF Dangling, Parents
  <2>3. MostCommon(Dangling(ss), ss) # {}
    BY <2>2, MostCommonFound
  <2> QED
    BY <2>3 DEF PrimaryRoots, Roots, Ids
<1> QED
  BY <1>4, <1>5

\* One of the traces is the one the others are merged into.
LEMMA PrimaryFound == IsFiniteSet(spans) /\ spans # {} => Primaries # {}
<1> SUFFICES ASSUME IsFiniteSet(spans), spans # {} PROVE Primaries # {}
  OBVIOUS
<1>1. CASE traceparent \in Traces(spans)
  BY <1>1 DEF Primaries
<1>2. CASE traceparent \notin Traces(spans)
  <2> DEFINE f == [t \in Traces(spans) |-> Cardinality(InTrace(t, spans))]
  <2>1. ASSUME NEW t \in Traces(spans) PROVE f[t] \in Nat /\ f[t] <= Cardinality(spans)
    <3>1. InTrace(t, spans) \in SUBSET spans
      BY DEF InTrace
    <3> QED
      BY <3>1, FS_Subset, FS_CardinalityType
  <2>2. Cardinality(spans) \in Nat
    BY FS_CardinalityType
  <2>3. f \in [Traces(spans) -> Nat] /\ Traces(spans) # {}
    BY <2>1 DEF Traces
  <2>4. \E t \in Traces(spans) : \A u \in Traces(spans) : f[u] <= f[t]
    <3> HIDE DEF f
    <3> QED
      BY <2>1, <2>2, <2>3, GreatestNumber
  <2> QED
    BY <1>2, <2>4 DEF Primaries
<1> QED
  BY <1>1, <1>2

\* Where the log is in order, a root is found.
LEMMA InOrderHasRoot == LogInOrder => RootFound
<1> SUFFICES ASSUME LogInOrder PROVE RootFound
  OBVIOUS
<1>1. CASE step = "stitch"
  <2>1. IsFiniteSet(spans) /\ \A s \in spans : s.id \in SpanIds /\ s.parent \in Earlier(s.id)
    BY <1>1 DEF LogInOrder
  <2>2. ASSUME NEW t \in Traces(spans) PROVE PrimaryRoots(InTrace(t, spans)) # {}
    <3>1. InTrace(t, spans) \in SUBSET spans /\ InTrace(t, spans) # {}
      BY DEF InTrace, Traces
    <3>2. IsFiniteSet(InTrace(t, spans))
      BY <2>1, <3>1, FS_Subset
    <3> QED
      BY <2>1, <3>1, <3>2, EarliestDangles
  <2> QED
    BY <1>1, <2>1, <2>2, PrimaryFound DEF RootFound
<1>2. CASE step = "inject"
  <2>1. SUFFICES ASSUME spans # {}, Roots(spans) = {} PROVE OrphanRoots(spans) # {}
    BY <1>2 DEF RootFound
  <2>2. Parents(spans) # {}
    BY <2>1 DEF Roots, Parents
  <2>3. IsFiniteSet(spans)
    BY <1>2 DEF LogInOrder
  <2> QED
    BY <2>2, <2>3, MostCommonFound DEF OrphanRoots
<1>3. CASE step \notin {"stitch", "inject"}
  BY <1>3 DEF RootFound
<1> QED
  BY <1>1, <1>2, <1>3

\* Spans are born in order.
LEMMA InitInOrder == OtelInit => BornInOrder /\ LogInOrder
<1> SUFFICES ASSUME OtelInit PROVE BornInOrder /\ LogInOrder
  OBVIOUS
<1>1. BornInOrder
  <2>1. CASE otelTheme = "spans"
    <3>1. born \in Forests
      BY <2>1 DEF OtelInit
    <3> QED
      BY <3>1 DEF Forests, BornInOrder, Earlier
  <2>2. CASE otelTheme # "spans"
    BY <2>2 DEF OtelInit, BornInOrder, Earlier
  <2> QED
    BY <2>1, <2>2
<1>2. LogInOrder
  BY FS_EmptySet DEF OtelInit, LogInOrder
<1> QED
  BY <1>1, <1>2

\* Every step keeps the log in order and finite.
LEMMA StepInOrder == BornInOrder /\ LogInOrder /\ [OtelNext]_otelVars => (BornInOrder /\ LogInOrder)'
<1> SUFFICES ASSUME BornInOrder, LogInOrder, [OtelNext]_otelVars PROVE BornInOrder' /\ LogInOrder'
  OBVIOUS
<1>0. BornInOrder'
  <2>1. UNCHANGED born
    BY DEF OtelNext, PostSpan, PostUsage, StopCollector, Stitch, Inject, ReadUsage, AppendUsage,
           ReadAgain, ofTheRun, otelVars
  <2> QED
    BY <2>1 DEF BornInOrder
<1>1. CASE PostSpan
  <2>1. PICK i \in SpanIds :
          spans' = spans \cup {[id |-> i, trace |-> born[i].trace, parent |-> born[i].parent, made |-> FALSE]}
    BY <1>1 DEF PostSpan
  <2> DEFINE posted == [id |-> i, trace |-> born[i].trace, parent |-> born[i].parent, made |-> FALSE]
  <2>2. posted.id \in SpanIds /\ posted.parent \in Earlier(posted.id)
    BY DEF BornInOrder
  <2>3. spans' = spans \cup {posted}
    BY <2>1
  <2> HIDE DEF posted
  <2>4. UNCHANGED step
    BY <1>1 DEF PostSpan
  <2>5. IsFiniteSet(spans) => IsFiniteSet(spans')
    BY <2>3, FS_AddElement
  <2> QED
    BY <1>0, <2>2, <2>3, <2>4, <2>5 DEF LogInOrder
<1>2. CASE Stitch
  <2>1. step = "stitch" /\ step' = "inject" /\ IsFiniteSet(spans)
    BY <1>2 DEF Stitch, LogInOrder
  <2>2. ASSUME NEW primary, NEW root, StitchedInto(primary, root) PROVE IsFiniteSet(spans')
    <3> DEFINE mine == InTrace(primary, spans)
               home == [s \in mine |-> [s EXCEPT !.parent = IF @ \in (Ids(mine) \cup {root}) \cup {NoParent} THEN @ ELSE root]]
               merge == [s \in spans \ mine |-> Merged(s, primary, root)]
    <3>1. mine \in SUBSET spans /\ spans \ mine \in SUBSET spans
      BY DEF InTrace
    <3>2. Rehomed(mine, Ids(mine) \cup {root}, root) = {home[s] : s \in mine}
      BY DEF Rehomed
    <3>3. {Merged(s, primary, root) : s \in spans \ mine} = {merge[s] : s \in spans \ mine}
      OBVIOUS
    <3>4. spans' = {home[s] : s \in mine} \cup {merge[s] : s \in spans \ mine}
      BY <2>2, <3>2, <3>3 DEF StitchedInto
    <3> HIDE DEF mine, home, merge
    <3>5. IsFiniteSet(mine) /\ IsFiniteSet(spans \ mine)
      BY <2>1, <3>1, FS_Subset
    <3>6. IsFiniteSet({home[s] : s \in mine}) /\ IsFiniteSet({merge[s] : s \in spans \ mine})
      BY <3>5, ImageFinite
    <3> QED
      BY <3>4, <3>6, FS_Union
  <2>3. \/ UNCHANGED spans
        \/ \E primary \in Primaries : \E root \in PrimaryRoots(InTrace(primary, spans)) : StitchedInto(primary, root)
    BY <1>2 DEF Stitch, StitchedInto
  <2>4. IsFiniteSet(spans')
    BY <2>1, <2>2, <2>3
  <2> QED
    BY <1>0, <2>1, <2>4 DEF LogInOrder
<1>3. CASE StopCollector
  <2>1. step = "run" /\ step' = "stitch" /\ UNCHANGED spans
    BY <1>3 DEF StopCollector
  <2> QED
    BY <1>0, <2>1 DEF LogInOrder
<1>4. CASE Inject \/ ReadUsage \/ AppendUsage \/ ReadAgain
  <2>1. step' \in {"read", "append", "again", "done"}
    BY <1>4 DEF Inject, ReadUsage, AppendUsage, ReadAgain
  <2> QED
    BY <1>0, <2>1 DEF LogInOrder
<1>5. CASE PostUsage \/ UNCHANGED otelVars
  <2>1. UNCHANGED <<step, spans>>
    BY <1>5 DEF PostUsage, otelVars
  <2> QED
    BY <1>0, <2>1 DEF LogInOrder
<1> QED
  BY <1>1, <1>2, <1>3, <1>4, <1>5 DEF OtelNext

\* inject_root_spans: in whatever is left of a run's traces, the primary trace
\* has a root or a missing parent to take its place, and so has the one trace
\* that remains; the fallback for a trace without either is never needed.
THEOREM RootAlwaysFound == OtelSpec => []RootFound
<1> QED
  BY InitInOrder, StepInOrder, InOrderHasRoot, PTL DEF OtelSpec

=============================================================================
