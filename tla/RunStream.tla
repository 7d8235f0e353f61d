------------------------------ MODULE RunStream ------------------------------
(***************************************************************************)
(* Reading one agent process (Backend._process_stream, the stream          *)
(* processors of stream.py, _resolve_exit_code and LocalBackend.run): the  *)
(* host reads lines until one says the run is complete or nobody holds the *)
(* agent's stdout any more, then ends the process - a grace period for the *)
(* telemetry exporter, SIGTERM, ten seconds, SIGKILL - and decides the     *)
(* exit code from it, the completion and the verdict file.  The agent may  *)
(* go on after it announced completion, ignore SIGTERM, leave a helper     *)
(* with its stdout, or write what is not a message.                        *)
(***************************************************************************)
EXTENDS Integers, Sequences

CONSTANTS
  Harnesses,      \* "claude", "opencode", "codex"
  MaxLines        \* bound: lines an agent writes in a behaviour

ASSUME StreamAssumption ==
  Harnesses \subseteq {"claude", "opencode", "codex"} /\ MaxLines \in Nat

VARIABLES
  harness,        \* whose messages the processor reads
  streaming,      \* lines go through the processor, or straight to stdout
  wantsVerdict,   \* the caller set verdict_path
  pipe,           \* lines written and not read yet
  lines,          \* number of lines written
  writers,        \* processes that hold the write end of the agent's stdout
  proc,           \* the agent process
  reader,         \* where the host is in _process_stream
  complete,       \* stream_complete
  verdictFile,    \* the verdict file: absent, left by an earlier run, or this run's
  rc              \* the exit code decided; None before

streamVars ==
  <<harness, streaming, wantsVerdict, pipe, lines, writers, proc, reader,
    complete, verdictFile, rc>>

NoCode == 99

\* Lines as the processors tell them apart: progress, one that ends the run,
\* a failure, the skills' "FULL RUN COMPLETE", JSON that is no object.
Lines == {"progress", "final", "failed", "marker", "bare"}

\* process_line: Claude Code's result without is_error or the marker of a
\* tool result, OpenCode's last step_finish, Codex's turn.completed.
Completes(line) == line \in {"final"} \cup (IF harness = "claude" THEN {"marker"} ELSE {})

\* A processor keeps or prints a failure and reads on; a JSON value that is no
\* object has no type, and it raises.
ReadsOn(line) == line \in {"progress", "failed", "marker"} /\ ~Completes(line)

StreamInit ==
  /\ harness \in Harnesses /\ streaming \in BOOLEAN /\ wantsVerdict \in BOOLEAN
  /\ pipe = <<>> /\ lines = 0 /\ writers = {"agent"}
  /\ proc \in [stubborn : BOOLEAN, alive : {TRUE}, signal : {"none"}, code : {NoCode}]
  /\ reader = "read" /\ complete = FALSE
  /\ verdictFile \in {"absent", "earlier"} /\ rc = NoCode

ofTheCall == <<harness, streaming, wantsVerdict>>

\* ---------------------------------------------------------------- the agent

AgentWrites ==
  /\ proc.alive /\ "agent" \in writers /\ lines < MaxLines
  /\ \E line \in Lines : pipe' = Append(pipe, line)
  /\ lines' = lines + 1
  /\ UNCHANGED <<ofTheCall, writers, proc, reader, complete, verdictFile, rc>>

WritesVerdict ==
  /\ proc.alive /\ verdictFile' = "own"
  /\ UNCHANGED <<ofTheCall, pipe, lines, writers, proc, reader, complete, rc>>

StartsHelper ==
  /\ proc.alive /\ "agent" \in writers
  /\ writers' = writers \cup {"helper"}
  /\ UNCHANGED <<ofTheCall, pipe, lines, proc, reader, complete, verdictFile, rc>>

HelperEnds ==
  /\ "helper" \in writers /\ writers' = writers \ {"helper"}
  /\ UNCHANGED <<ofTheCall, pipe, lines, proc, reader, complete, verdictFile, rc>>

ClosesStdout ==
  /\ proc.alive /\ writers' = writers \ {"agent"}
  /\ UNCHANGED <<ofTheCall, pipe, lines, proc, reader, complete, verdictFile, rc>>

Gone(code) ==
  /\ proc' = [proc EXCEPT !.alive = FALSE, !.code = code]
  /\ writers' = writers \ {"agent"}
  /\ UNCHANGED <<ofTheCall, pipe, lines, reader, complete, verdictFile, rc>>

AgentExits == proc.alive /\ \E code \in {0, 1} : Gone(code)

\* A stubborn agent ignores SIGTERM; nothing survives SIGKILL.
SignalEnds ==
  /\ proc.alive
  /\ \/ proc.signal = "term" /\ ~proc.stubborn /\ Gone(-15)
     \/ proc.signal = "kill" /\ Gone(-9)

\* ----------------------------------------------------------------- the host

ToReader(pc) == reader' = pc

Signalled(s) == IF proc.alive THEN [proc EXCEPT !.signal = s] ELSE proc

\* One line.  The processor of Claude Code itself signals the agent when it
\* sees the marker.  The output file or stdout may not take a line, and the
\* processor raises at a bare one: the exception closes the file and leaves the
\* rest, the process with it.
ReadLine ==
  /\ reader = "read" /\ pipe # <<>>
  /\ pipe' = Tail(pipe)
  /\ LET line == Head(pipe) IN
     \/ /\ ~streaming \/ ReadsOn(line)
        /\ UNCHANGED <<proc, reader, complete>>
     \/ /\ streaming /\ Completes(line)
        /\ complete' = TRUE /\ ToReader("grace")
        /\ proc' = IF line = "marker" THEN Signalled("term") ELSE proc
     \/ ToReader("raised") /\ UNCHANGED <<proc, complete>>
  /\ UNCHANGED <<ofTheCall, lines, writers, verdictFile, rc>>

\* The loop ends without completion once every write end is closed.
ReadEof ==
  /\ reader = "read" /\ pipe = <<>> /\ writers = {}
  /\ ToReader("terminate")
  /\ UNCHANGED <<ofTheCall, pipe, lines, writers, proc, complete, verdictFile, rc>>

\* wait(timeout=10) for the exporter: the agent exits or time runs out.
GraceEnds ==
  /\ reader = "grace" /\ ToReader("terminate")
  /\ UNCHANGED <<ofTheCall, pipe, lines, writers, proc, complete, verdictFile, rc>>

Terminate ==
  /\ reader = "terminate" /\ proc' = Signalled("term") /\ ToReader("wait")
  /\ UNCHANGED <<ofTheCall, pipe, lines, writers, complete, verdictFile, rc>>

\* Mutant: the second wait has no timeout and no SIGKILL after it.
AwaitOnly ==
  /\ reader = "wait" /\ ~proc.alive /\ ToReader("reaped")
  /\ UNCHANGED proc
  /\ UNCHANGED <<ofTheCall, pipe, lines, writers, complete, verdictFile, rc>>

\* wait(timeout=10), then SIGKILL and a wait without limit.
Await ==
  /\ reader = "wait"
  /\ \/ ~proc.alive /\ ToReader("reaped") /\ UNCHANGED proc
     \/ proc.alive /\ proc.signal # "kill" /\ proc' = Signalled("kill") /\ UNCHANGED reader
  /\ UNCHANGED <<ofTheCall, pipe, lines, writers, complete, verdictFile, rc>>

\* stderr joined (or left behind after five seconds), errors flushed; a
\* completed run that exited badly succeeds unless its verdict is missing.
Resolve ==
  /\ reader = "reaped" /\ ToReader("returned")
  /\ rc' = IF complete /\ proc.code # 0 /\ (wantsVerdict => verdictFile # "absent")
           THEN 0 ELSE proc.code
  /\ UNCHANGED <<ofTheCall, pipe, lines, writers, proc, complete, verdictFile>>

Host == ReadLine \/ ReadEof \/ GraceEnds \/ Terminate \/ Await \/ Resolve

StreamNext ==
  \/ AgentWrites \/ WritesVerdict \/ StartsHelper \/ HelperEnds \/ ClosesStdout
  \/ AgentExits \/ SignalEnds
  \/ ReadLine \/ ReadEof \/ GraceEnds \/ Terminate \/ Await \/ Resolve

\* The host's thread goes on and a signal it sent takes effect; the agent owes
\* nothing: it may run, stay silent or keep its stdout for ever.
StreamFair == WF_streamVars(Host) /\ WF_streamVars(SignalEnds)

\* -------------------------------------------------------------- properties

\* _process_stream: once the agent's messages say the run is complete, or
\* nobody can write to its stdout any more, the host stops reading and the
\* process is gone, whether or not it ignores SIGTERM, exits while it is
\* being signalled or left a helper with its stdout - unless reading a line
\* raised.
StreamEnds ==
  complete \/ (reader = "read" /\ writers = {}) ~>
    (reader = "returned" /\ ~proc.alive) \/ reader = "raised"

=============================================================================
