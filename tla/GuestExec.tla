------------------------------ MODULE GuestExec ------------------------------
(***************************************************************************)
(* execute_command of crates/petri-guest/src/server.rs: the thread that    *)
(* serves a connection runs one workload at a time.  It spawns the child,  *)
(* writes its stdin, starts a reader thread for each output pipe and polls *)
(* the child against the timeout.  The child is an arbitrary program: it   *)
(* writes what it likes, may read its stdin or not, may close any of the   *)
(* three, may leave a descendant that inherits the pipes, and may never    *)
(* exit.                                                                   *)
(***************************************************************************)
EXTENDS Integers, Sequences, SequencesExt, FiniteSetsExt

CONSTANTS Cap,        \* the effective output cap, in bytes
          PipeRoom,   \* bytes a pipe holds
          Input,      \* length of a request's stdin
          Drop, Root, \* Policy::drop_privileges, and whether the agent runs as root
          BytesOn,    \* per stream: the bytes the workload writes
          MaxWritten  \* bound on the bytes written to each stream

Streams == {"stdout", "stderr"}
Ends == {"stdin"} \cup Streams

\* "l" and "t" are the two bytes of one character, "a" is a character.
Byte == {"a", "l", "t"}

CommandSpec == [stdin : {0, Input}]
NoSpec == [stdin |-> 0]

ASSUME ExecAssumption ==
  /\ Cap \in Nat /\ PipeRoom \in Nat \ {0} /\ Input \in Nat \ {0} /\ MaxWritten \in Nat
  /\ Drop \in BOOLEAN /\ Root \in BOOLEAN
  /\ BytesOn \in [Streams -> SUBSET Byte]

VARIABLES
  exec,     \* control state of the connection thread inside execute_command
  spec,     \* the request's CommandSpec
  child,    \* the direct child
  heir,     \* a descendant of it runs
  open,     \* the ends of the pipes that these two have not closed
  creds,    \* the identity the workload runs with
  fed, drained,  \* bytes of stdin written by the agent and read by the workload
  pipe,     \* per stream: bytes in the pipe
  reader,   \* per stream: its reader thread
  output,   \* CapturedOutput
  expired,  \* started.elapsed() >= timeout
  outcome,  \* why the poll loop ended
  result,   \* the ResultFrame, a set with at most one element
  written,  \* history: per stream, everything the workload wrote
  exited    \* history: how the direct child ended by itself, as a set

execVars == <<exec, spec, child, heir, open, creds, fed, drained, pipe, reader, output,
              expired, outcome, result, written, exited>>
workloadVars == <<child, heir, open, fed, drained, pipe, written, exited>>

-----------------------------------------------------------------------------
(* The conversions. *)

Valid(bytes) ==
  \A i \in DOMAIN bytes :
    /\ bytes[i] = "l" => i < Len(bytes) /\ bytes[i + 1] = "t"
    /\ bytes[i] = "t" => i > 1 /\ bytes[i - 1] = "l"

\* bytes_to_string_preserving_utf8: everything before the first invalid byte.
BytesToString(bytes) ==
  SubSeq(bytes, 1, Max({n \in 0 .. Len(bytes) : Valid(SubSeq(bytes, 1, n))}))

NewOutput == [stdout |-> <<>>, stderr |-> <<>>, retained |-> 0, truncated |-> FALSE]

\* Mutant: bytes that do not fit at all are not counted as truncated.
AppendQuietly(o, s, bytes) ==
  LET keep == Min({IF o.retained > Cap THEN 0 ELSE Cap - o.retained, Len(bytes)})
  IN  IF keep = 0 THEN o
      ELSE [o EXCEPT ![s] = @ \o SubSeq(bytes, 1, keep), !.retained = @ + keep,
                     !.truncated = @ \/ keep < Len(bytes)]

\* Mutant: retained_bytes counts what is dropped too.
AppendCountsAll(o, s, bytes) ==
  LET keep == Min({IF o.retained > Cap THEN 0 ELSE Cap - o.retained, Len(bytes)})
  IN  [o EXCEPT ![s] = @ \o SubSeq(bytes, 1, keep), !.retained = @ + Len(bytes),
                !.truncated = @ \/ keep < Len(bytes)]

\* CapturedOutput::append: both streams share one cap.
AppendOutput(o, s, bytes) ==
  LET keep == Min({IF o.retained > Cap THEN 0 ELSE Cap - o.retained, Len(bytes)})
  IN  [o EXCEPT ![s] = @ \o SubSeq(bytes, 1, keep), !.retained = @ + keep,
                !.truncated = @ \/ keep < Len(bytes)]

\* ResultFrame::process and ::timeout over finish_output; guest_error has no output.
Finished(status, o) ==
  {[status |-> status, stdout |-> BytesToString(o.stdout), stderr |-> BytesToString(o.stderr),
    truncated |-> o.truncated]}
ExecError == {[status |-> "guest_error", stdout |-> <<>>, stderr |-> <<>>, truncated |-> FALSE]}

AgentUid == 1000
Identity == IF Root THEN [uid |-> 0, gid |-> 0, groups |-> {0}]
            ELSE [uid |-> AgentUid, gid |-> AgentUid, groups |-> {AgentUid}]

\* pre_exec of configure_privilege_drop: each call needs uid 0, and a failure
\* (no element) fails the spawn.
DropPrivileges ==
  LET Able(cs) == {c \in cs : c.uid = 0}
      setgroups(cs) == {[c EXCEPT !.groups = {}] : c \in Able(cs)}
      setgid(cs) == {[c EXCEPT !.gid = AgentUid] : c \in Able(cs)}
      setuid(cs) == {[c EXCEPT !.uid = AgentUid] : c \in Able(cs)}
  IN  IF Drop /\ Root THEN setuid(setgid(setgroups({Identity}))) ELSE {Identity}

-----------------------------------------------------------------------------
(* The connection thread. *)

ExecInit ==
  /\ exec = "idle" /\ spec = NoSpec /\ creds = {}
  /\ child = "none" /\ heir = FALSE /\ open = {}
  /\ fed = 0 /\ drained = 0
  /\ pipe = [s \in Streams |-> <<>>] /\ written = [s \in Streams |-> <<>>]
  /\ reader = [s \in Streams |-> "none"] /\ output = NewOutput
  /\ expired = FALSE /\ outcome = "none" /\ result = {} /\ exited = {}

\* handle_bash hands execute_command a CommandSpec; the clock has been running
\* since the frame was read.
Execute ==
  /\ exec = "idle"
  /\ spec' \in CommandSpec
  /\ exec' = "spawn"
  /\ UNCHANGED <<workloadVars, creds, reader, output, expired, outcome, result>>

\* spawn_output_reader for both pipes.
StartReaders == reader' = [s \in Streams |-> "reading"]

Spawn ==
  /\ exec = "spawn"
  /\ \E c \in DropPrivileges : creds' = {c}
  /\ child' = "running"
  /\ IF spec.stdin > 0 THEN exec' = "stdin" /\ open' = Ends /\ UNCHANGED reader
                       ELSE exec' = "poll" /\ open' = Streams /\ StartReaders
  /\ UNCHANGED <<spec, heir, fed, drained, pipe, output, expired, outcome, result, written,
                 exited>>

\* No such command, no such directory, or a failing pre_exec.
SpawnFails ==
  /\ exec = "spawn"
  /\ result' = ExecError /\ exec' = "answer"
  /\ UNCHANGED <<spec, workloadVars, creds, reader, output, expired, outcome>>

\* The read end of stdin, and the write ends of the output pipes, are held by
\* the child until it ends and by its descendant, unless they closed them.
Held(end) == (child = "running" \/ heir) /\ end \in open

\* write_all blocks while the pipe is full.  Dropping child_stdin closes it; what
\* the workload makes of it from then on is of no consequence to the agent.
WriteStdin ==
  /\ exec = "stdin" /\ Held("stdin") /\ fed - drained < PipeRoom
  /\ IF fed + 1 < spec.stdin
       THEN fed' = fed + 1 /\ UNCHANGED <<exec, reader, drained, open>>
       ELSE /\ exec' = "poll" /\ StartReaders
            /\ fed' = 0 /\ drained' = 0 /\ open' = open \ {"stdin"}
  /\ UNCHANGED <<spec, child, heir, creds, pipe, output, expired, outcome, result, written, exited>>

\* Nobody is left to read it: the child is killed, but not waited for.
StdinBroken ==
  /\ exec = "stdin" /\ ~Held("stdin")
  /\ result' = ExecError /\ exec' = "answer" /\ outcome' = "stdin"
  /\ child' = "zombie"
  /\ UNCHANGED <<spec, heir, open, creds, fed, drained, pipe, reader, output, expired, written,
                 exited>>

\* try_wait finds that the child has ended.
PollExited ==
  /\ exec = "poll" /\ child = "zombie"
  /\ child' = "reaped" /\ outcome' = "exit" /\ exec' = "join"
  /\ UNCHANGED <<spec, heir, open, creds, fed, drained, pipe, reader, output, expired, result,
                 written, exited>>

\* Mutant: the loop only ends with the child.
PollTimeoutNever ==
  /\ exec = "poll" /\ child = "running" /\ expired
  /\ UNCHANGED execVars

\* try_wait found it running, and the time is up.
PollTimeout ==
  /\ exec = "poll" /\ child = "running" /\ expired
  /\ exec' = "kill"
  /\ UNCHANGED <<spec, workloadVars, creds, reader, output, expired, outcome, result>>

\* Mutant: the child is killed and not waited for.
KillOnly ==
  /\ exec = "kill"
  /\ child' = "zombie" /\ outcome' = "timeout" /\ exec' = "join"
  /\ UNCHANGED <<spec, heir, open, creds, fed, drained, pipe, reader, output, expired, result,
                 written, exited>>

\* Kill and wait for the direct child, which may have ended by now.
KillAndWait ==
  /\ exec = "kill"
  /\ child' = "reaped" /\ outcome' = "timeout" /\ exec' = "join"
  /\ UNCHANGED <<spec, heir, open, creds, fed, drained, pipe, reader, output, expired, result,
                 written, exited>>

\* try_wait fails: kill, wait, join, guest_error.
PollError ==
  /\ exec = "poll"
  /\ child' = "reaped" /\ outcome' = "error" /\ exec' = "join"
  /\ UNCHANGED <<spec, heir, open, creds, fed, drained, pipe, reader, output, expired, result,
                 written, exited>>

\* Both readers are joined; then the captured output makes the result.
Join ==
  /\ exec = "join" /\ \A s \in Streams : reader[s] \in {"done", "failed"}
  /\ result' = CASE outcome = "exit" ->
                      Finished(IF exited = {"ok"} THEN "success" ELSE "failure", output)
                 [] outcome = "timeout" -> Finished("timeout", output)
                 [] outcome = "error" -> ExecError
  /\ exec' = "answer"
  /\ UNCHANGED <<spec, workloadVars, creds, reader, output, expired, outcome>>

\* The frame is returned; what runs on no longer has the agent's pipes.
Return ==
  /\ exec = "answer"
  /\ exec' = "idle" /\ spec' = NoSpec /\ creds' = {}
  /\ child' = "none" /\ heir' = FALSE /\ open' = {}
  /\ fed' = 0 /\ drained' = 0
  /\ pipe' = [s \in Streams |-> <<>>] /\ written' = [s \in Streams |-> <<>>]
  /\ reader' = [s \in Streams |-> "none"] /\ output' = NewOutput
  /\ expired' = FALSE /\ outcome' = "none" /\ result' = {} /\ exited' = {}

ExecThread == Spawn \/ WriteStdin \/ StdinBroken \/ PollExited \/ PollTimeout \/ KillAndWait
              \/ Join \/ Return
ExecFault == SpawnFails \/ PollError

-----------------------------------------------------------------------------
(* The reader threads and the clock. *)

\* A read returns some of what the pipe holds, up to the 8 KiB buffer.
ReaderTakes(s) ==
  /\ reader[s] = "reading"
  /\ \E n \in 1 .. Len(pipe[s]) :
       /\ output' = AppendOutput(output, s, SubSeq(pipe[s], 1, n))
       /\ pipe' = [pipe EXCEPT ![s] = SubSeq(@, n + 1, Len(@))]
  /\ UNCHANGED <<exec, spec, child, heir, open, creds, fed, drained, reader, expired, outcome,
                 result, written, exited>>

\* Nobody can write any more, and everything has been read.
ReaderEof(s) ==
  /\ reader[s] = "reading" /\ pipe[s] = <<>> /\ ~Held(s)
  /\ reader' = [reader EXCEPT ![s] = "done"]
  /\ UNCHANGED <<exec, spec, workloadVars, creds, output, expired, outcome, result>>

\* A failed read ends the thread as well, and with it the read end of the pipe.
\* (The lock of the output cannot be poisoned: append does not panic.)
ReaderFails(s) ==
  /\ reader[s] = "reading"
  /\ reader' = [reader EXCEPT ![s] = "failed"]
  /\ UNCHANGED <<exec, spec, workloadVars, creds, output, expired, outcome, result>>

Elapse ==
  /\ exec # "idle" /\ ~expired /\ expired' = TRUE
  /\ UNCHANGED <<exec, spec, workloadVars, creds, reader, output, outcome, result>>

-----------------------------------------------------------------------------
(* The workload. *)

\* A write to a full pipe blocks, and one to a pipe that nobody reads fails.
Writes(s, b) ==
  /\ Held(s) /\ reader[s] # "failed"
  /\ Len(pipe[s]) < PipeRoom /\ Len(written[s]) < MaxWritten
  /\ pipe' = [pipe EXCEPT ![s] = Append(@, b)]
  /\ written' = [written EXCEPT ![s] = Append(@, b)]
  /\ UNCHANGED <<exec, spec, child, heir, open, creds, fed, drained, reader, output, expired,
                 outcome, result, exited>>

ReadsStdin ==
  /\ Held("stdin") /\ drained < fed /\ drained' = drained + 1
  /\ UNCHANGED <<exec, spec, child, heir, open, creds, fed, pipe, reader, output, expired,
                 outcome, result, written, exited>>

\* Neither the child nor its descendant has this end open any more.
Closes(end) ==
  /\ Held(end) /\ open' = open \ {end}
  /\ UNCHANGED <<exec, spec, child, heir, creds, fed, drained, pipe, reader, output, expired,
                 outcome, result, written, exited>>

Forks ==
  /\ child = "running" /\ ~heir /\ heir' = TRUE
  /\ UNCHANGED <<exec, spec, child, open, creds, fed, drained, pipe, reader, output, expired,
                 outcome, result, written, exited>>

Exits(how) ==
  /\ child = "running" /\ child' = "zombie" /\ exited' = {how}
  /\ UNCHANGED <<exec, spec, heir, open, creds, fed, drained, pipe, reader, output, expired,
                 outcome, result, written>>

HeirExits ==
  /\ heir /\ heir' = FALSE
  /\ UNCHANGED <<exec, spec, child, open, creds, fed, drained, pipe, reader, output, expired,
                 outcome, result, written, exited>>

Workload == \/ \E s \in Streams : \E b \in BytesOn[s] : Writes(s, b)
            \/ ReadsStdin \/ Forks \/ HeirExits \/ \E end \in Ends : Closes(end)
            \/ \E how \in {"ok", "failed"} : Exits(how)

ExecNext == Execute \/ ExecThread \/ ExecFault \/ Elapse \/ Workload
            \/ \E s \in Streams : ReaderTakes(s) \/ ReaderEof(s) \/ ReaderFails(s)

\* The agent's threads run and time passes; nothing is assumed of the workload,
\* and no system call has to fail.
ExecFairness ==
  /\ WF_execVars(ExecThread)
  /\ WF_execVars(Elapse)
  /\ \A s \in Streams : WF_execVars(ReaderTakes(s)) /\ WF_execVars(ReaderEof(s))

ExecSpec == ExecInit /\ [][ExecNext]_execVars

-----------------------------------------------------------------------------
(* Properties. *)

ExecTypeOK ==
  /\ exec \in {"idle", "spawn", "stdin", "poll", "kill", "join", "answer"}
  /\ spec \in CommandSpec \cup {NoSpec}
  /\ child \in {"none", "running", "zombie", "reaped"} /\ heir \in BOOLEAN /\ open \subseteq Ends
  /\ \A c \in creds : c.uid \in {0, AgentUid} /\ c.gid \in {0, AgentUid}
  /\ drained <= fed /\ fed <= spec.stdin
  /\ \A s \in Streams : /\ Len(pipe[s]) <= PipeRoom
                         /\ reader[s] \in {"none", "reading", "done", "failed"}
                         /\ IsPrefix(output[s], written[s])
  /\ output.retained = Len(output.stdout) + Len(output.stderr)
  /\ expired \in BOOLEAN
  /\ outcome \in {"none", "stdin", "exit", "timeout", "error"}

\* A result of a process (execute_command with both readers joined) carries at
\* most Cap bytes.  Without output_truncated, each stream is the text
\* (bytes_to_string_preserving_utf8) of what was written to it from its first
\* byte on: of all of it when the reader met the end of the pipe, of a part when
\* a read failed.  With it, more than Cap bytes were written.
OutputComplete ==
  \A r \in result : r.status # "guest_error" =>
    /\ Len(r.stdout) + Len(r.stderr) <= Cap
    /\ ~r.truncated =>
         \A s \in Streams : \E n \in 0 .. Len(written[s]) :
           /\ r[s] = BytesToString(SubSeq(written[s], 1, n))
           /\ reader[s] = "done" => n = Len(written[s])
    /\ r.truncated => Len(written["stdout"]) + Len(written["stderr"]) > Cap

\* A result of a process is only returned once the direct child has been waited
\* for and nothing holds a pipe that a reader has not given up after an error,
\* and says how the child ended: success and failure are the child's own,
\* timeout is only said after the deadline.
ResultMeansEnded ==
  \A r \in result : r.status # "guest_error" =>
    /\ child = "reaped"
    /\ \A s \in Streams : Held(s) => reader[s] = "failed"
    /\ r.status = "success" => exited = {"ok"}
    /\ r.status = "failure" => exited = {"failed"}
    /\ r.status = "timeout" => expired

\* The direct child does not outlive its deadline: once the poll loop runs and
\* the time is up, the child ends, whatever it does itself.
ChildEndsInTime == (exec = "poll" /\ expired) ~> (child # "running")

\* When the effective timeout expires the command is ended and its result is
\* returned (docs/vsock-dispatch-protocol.md:265).  The code does so only if it
\* has got as far as its poll loop and no descendant of the child holds a pipe.
CommandAnswered == expired ~> (exec = "idle")
=============================================================================
