--------------------------- MODULE GuestExecProof ---------------------------
(***************************************************************************)
(* Proofs about execute_command, for any output cap, pipe size, length of  *)
(* stdin and amount of output.                                             *)
(***************************************************************************)
EXTENDS GuestExec, SequenceTheorems, WellFoundedInduction, TLAPS

-----------------------------------------------------------------------------
(* The conversions. *)

\* A nonempty set of naturals with a bound has a greatest element.
LEMMA GreatestNat ==
  ASSUME NEW b \in Nat, NEW T \in SUBSET (0 .. b), T # {}
  PROVE  Max(T) \in T
<1> DEFINE R == OpToRel(<, Nat)
           U == {b - n : n \in T}
<1>1. U \in SUBSET Nat /\ U # {}
  <2>1. U \in SUBSET Nat
    OBVIOUS
  <2>2. U # {}
    OBVIOUS
  <2> QED BY <2>1, <2>2
<1>2. \E x \in U : \A y \in U : ~(<<y, x>> \in R)
  BY <1>1, NatLessThanWellFounded, WFMin
<1>3. \A x, y \in Nat : <<y, x>> \in R <=> y < x
  BY DEF OpToRel
<1> HIDE DEF R
<1>4. PICK x \in U : \A y \in U : ~(<<y, x>> \in R)
  BY <1>2
<1>5. \A y \in U : ~(y < x)
  BY <1>1, <1>3, <1>4
<1>6. PICK m \in T : x = b - m
  OBVIOUS
<1>7. \A n \in T : m >= n
  BY <1>5, <1>6
<1> QED BY <1>7 DEF Max

\* The text of a captured stream is no longer than the stream.
LEMMA TextLength ==
  ASSUME NEW bytes \in Seq(Byte)
  PROVE  Len(BytesToString(bytes)) \in Nat /\ Len(BytesToString(bytes)) <= Len(bytes)
<1> DEFINE T == {n \in 0 .. Len(bytes) : Valid(SubSeq(bytes, 1, n))}
<1>1. SubSeq(bytes, 1, 0) = <<>>
  BY SubSeqEmpty
<1>2. Valid(<<>>)
  BY DEF Valid
<1>3. 0 \in T
  <2>1. 0 \in 0 .. Len(bytes)
    OBVIOUS
  <2>2. Valid(SubSeq(bytes, 1, 0))
    BY <1>1, <1>2
  <2> QED BY <2>1, <2>2
<1>4. T \in SUBSET (0 .. Len(bytes)) /\ T # {} /\ Len(bytes) \in Nat
  BY <1>3
<1>5. Max(T) \in 0 .. Len(bytes)
  BY <1>4, GreatestNat
<1>6. BytesToString(bytes) = SubSeq(bytes, 1, Max(T))
  BY DEF BytesToString
<1> HIDE DEF T
<1>7. \A i \in 1 .. Max(T) : bytes[i] \in Byte
  BY <1>5
<1>8. Len(SubSeq(bytes, 1, Max(T))) = IF 1 <= Max(T) THEN Max(T) - 1 + 1 ELSE 0
  BY <1>5, <1>7, SubSeqProperties
<1> QED BY <1>5, <1>6, <1>8

\* What was captured of a stream is the first part of what was written to it.
LEMMA FirstPart ==
  ASSUME NEW x \in Seq(Byte), NEW y \in Seq(Byte)
  PROVE  /\ Len(x) \in 0 .. Len(x \o y)
         /\ SubSeq(x \o y, 1, Len(x)) = x
         /\ y = <<>> => Len(x) = Len(x \o y)
<1>1. x \o y \in Seq(Byte) /\ Len(x \o y) = Len(x) + Len(y) /\ Len(x) \in Nat /\ Len(y) \in Nat
  BY ConcatProperties, LenProperties
<1>2. SubSeq(x \o y, 1, Len(x)) = x
  <2>1. CASE Len(x) = 0
    BY <1>1, <2>1, SubSeqEmpty, EmptySeq
  <2>2. CASE Len(x) # 0
    BY <1>1, <2>2, SubSeqOfConcat1, SubSeqFull
  <2> QED BY <2>1, <2>2
<1>3. Len(x) \in 0 .. Len(x \o y)
  BY <1>1
<1>4. y = <<>> => Len(x) = Len(x \o y)
  BY <1>1, ConcatEmptySeq
<1> QED BY <1>2, <1>3, <1>4, Zenon

OutputType == [stdout : Seq(Byte), stderr : Seq(Byte), retained : Nat, truncated : BOOLEAN]
Counted(o) == o.retained = Len(o.stdout) + Len(o.stderr)
Other(s) == IF s = "stdout" THEN "stderr" ELSE "stdout"

\* CapturedOutput::append keeps the output within the cap: it takes all of the
\* bytes, or fills the cap and says so.
LEMMA AppendCapped ==
  ASSUME NEW o \in OutputType, NEW s \in Streams, NEW bytes \in Seq(Byte),
         Counted(o), o.retained <= Cap
  PROVE  LET p == AppendOutput(o, s, bytes)
         IN  /\ p \in OutputType
             /\ Counted(p) /\ p.retained <= Cap
             /\ p[Other(s)] = o[Other(s)]
             /\ o.truncated => p.truncated
             /\ ~p.truncated => p[s] = o[s] \o bytes
             /\ p.truncated /\ ~o.truncated => o.retained + Len(bytes) > Cap
<1> DEFINE room == Cap - o.retained
           keep == Min({IF o.retained > Cap THEN 0 ELSE Cap - o.retained, Len(bytes)})
           p == AppendOutput(o, s, bytes)
<1>1. /\ o.stdout \in Seq(Byte) /\ o.stderr \in Seq(Byte) /\ o.retained \in Nat
      /\ o.truncated \in BOOLEAN /\ Cap \in Nat
  BY ExecAssumption DEF OutputType
<1>2. keep = IF room <= Len(bytes) THEN room ELSE Len(bytes)
  <2>1. {IF o.retained > Cap THEN 0 ELSE Cap - o.retained, Len(bytes)} = {room, Len(bytes)}
    BY <1>1
  <2>2. room \in Nat /\ Len(bytes) \in Nat
    BY <1>1
  <2> QED BY <2>1, <2>2 DEF Min
<1>3. keep \in 0 .. Len(bytes) /\ keep <= room
  BY <1>1, <1>2
<1>4. p = [o EXCEPT ![s] = @ \o SubSeq(bytes, 1, keep), !.retained = @ + keep,
                    !.truncated = @ \/ keep < Len(bytes)]
  BY DEF AppendOutput
<1> HIDE DEF keep, p
<1>5. /\ SubSeq(bytes, 1, keep) \in Seq(Byte) /\ Len(SubSeq(bytes, 1, keep)) = keep
      /\ keep = Len(bytes) => SubSeq(bytes, 1, keep) = bytes
  BY <1>3
<1>6. /\ p.retained = o.retained + keep
      /\ p.truncated = (o.truncated \/ keep < Len(bytes))
      /\ p[s] = o[s] \o SubSeq(bytes, 1, keep) /\ p[Other(s)] = o[Other(s)]
  BY <1>4 DEF Streams, OutputType, Other
<1>7. p \in OutputType
  <2>1. p.retained \in Nat /\ p.truncated \in BOOLEAN
    BY <1>1, <1>3, <1>6
  <2>2. o[s] \o SubSeq(bytes, 1, keep) \in Seq(Byte) /\ o[Other(s)] \in Seq(Byte)
    BY <1>1, <1>5, ConcatProperties DEF Streams, Other
  <2>3. p.stdout \in Seq(Byte) /\ p.stderr \in Seq(Byte)
    BY <1>6, <2>2 DEF Streams, Other
  <2>4. p = [stdout |-> p.stdout, stderr |-> p.stderr, retained |-> p.retained,
             truncated |-> p.truncated]
    BY <1>4 DEF OutputType, Streams
  <2> QED BY <2>1, <2>3, <2>4 DEF OutputType
<1>8. Counted(p)
  <2> DEFINE a == Len(o.stdout)
             b == Len(o.stderr)
  <2>0. a \in Nat /\ b \in Nat
    BY <1>1
  <2>1. p.retained = a + b + keep
    <3>1. o.retained = a + b
      BY DEF Counted
    <3>2. p.retained = o.retained + keep
      BY <1>6
    <3> QED BY <1>3, <2>0, <3>1, <3>2
  <2> HIDE DEF a, b
  <2>2. CASE s = "stdout"
    <3>1. p.stdout = o.stdout \o SubSeq(bytes, 1, keep) /\ p.stderr = o.stderr
      BY <1>6, <2>2 DEF Other
    <3>2. Len(p.stdout) = a + keep
      BY <1>1, <1>5, <3>1 DEF a
    <3>3. Len(p.stderr) = b
      BY <3>1 DEF b
    <3> QED BY <1>3, <2>0, <2>1, <3>2, <3>3 DEF Counted
  <2>3. CASE s = "stderr"
    <3>1. p.stderr = o.stderr \o SubSeq(bytes, 1, keep) /\ p.stdout = o.stdout
      BY <1>6, <2>3 DEF Other
    <3>2. Len(p.stderr) = b + keep
      BY <1>1, <1>5, <3>1 DEF b
    <3>3. Len(p.stdout) = a
      BY <3>1 DEF a
    <3> QED BY <1>3, <2>0, <2>1, <3>2, <3>3 DEF Counted
  <2> QED BY <2>2, <2>3 DEF Streams
<1>9. p.retained <= Cap
  BY <1>1, <1>3, <1>6
<1>10. ~p.truncated => p[s] = o[s] \o bytes
  <2>0. ~p.truncated => ~(keep < Len(bytes))
    BY <1>6, Zenon
  <2>1. ~p.truncated => keep = Len(bytes)
    BY <1>3, <2>0
  <2> QED BY <1>5, <1>6, <2>1
<1>11. p.truncated /\ ~o.truncated => o.retained + Len(bytes) > Cap
  BY <1>1, <1>2, <1>3, <1>6
<1> QED BY <1>6, <1>7, <1>8, <1>9, <1>10, <1>11 DEF p

-----------------------------------------------------------------------------
(* The inductive invariant. *)

Types ==
  /\ child \in {"none", "running", "zombie", "reaped"} /\ heir \in BOOLEAN /\ expired \in BOOLEAN
  /\ reader \in [Streams -> {"none", "reading", "done", "failed"}]
  /\ pipe \in [Streams -> Seq(Byte)] /\ written \in [Streams -> Seq(Byte)]
  /\ output \in OutputType

\* What has been written is in the output or still in the pipe, until the cap
\* is exceeded.
Capture ==
  /\ Counted(output) /\ output.retained <= Cap
  /\ ~output.truncated => \A s \in Streams : written[s] = output[s] \o pipe[s]
  /\ output.truncated => Len(written["stdout"]) + Len(written["stderr"]) > Cap

\* Where the connection thread is, and what the child has done by then.
Control ==
  /\ exec \in {"idle", "spawn"} =>
       child = "none" /\ ~heir /\ \A s \in Streams : reader[s] = "none"
  /\ \A s \in Streams : reader[s] = "done" => pipe[s] = <<>> /\ ~Held(s)
  /\ child = "zombie" /\ exec # "answer" => exited \in {{"ok"}, {"failed"}}
  /\ outcome = "exit" => child = "reaped" /\ exited \in {{"ok"}, {"failed"}}
  /\ exec = "join" => child = "reaped" /\ outcome \in {"exit", "timeout", "error"}
  /\ outcome = "timeout" \/ exec = "kill" => expired

\* A result of a process is made of the output when both readers have ended.
Results ==
  /\ exec # "answer" => result = {}
  /\ ResultMeansEnded
  /\ \A r \in result : r.status # "guest_error" =>
       /\ \A s \in Streams : reader[s] \in {"done", "failed"}
       /\ r.stdout = BytesToString(output.stdout) /\ r.stderr = BytesToString(output.stderr)
       /\ r.truncated = output.truncated

ExecInv == Types /\ Capture /\ Control /\ Results

\* The state in which a command finds the agent.
LEMMA FreshCapture ==
  ASSUME NEW o, o = NewOutput
  PROVE  o \in OutputType /\ Counted(o) /\ o.retained <= Cap /\ ~o.truncated
         /\ o.stdout = <<>> /\ o.stderr = <<>>
<1>1. <<>> \in Seq(Byte) /\ Len(<<>>) = 0
  OBVIOUS
<1>2. o \in OutputType
  BY <1>1 DEF NewOutput, OutputType
<1> QED BY <1>1, <1>2, ExecAssumption DEF NewOutput, Counted

\* The agent starts with no command.
LEMMA ExecInitInv == ExecInit => ExecInv
<1> SUFFICES ASSUME ExecInit PROVE ExecInv
  OBVIOUS
<1> USE DEF ExecInit
<1>1. /\ output \in OutputType /\ Counted(output) /\ output.retained <= Cap /\ ~output.truncated
      /\ output.stdout = <<>> /\ output.stderr = <<>>
  BY FreshCapture
<1>2. Types
  <2>1. <<>> \in Seq(Byte)
    OBVIOUS
  <2>2. pipe \in [Streams -> Seq(Byte)] /\ written \in [Streams -> Seq(Byte)]
    BY <2>1
  <2> QED BY <1>1, <2>2 DEF Types
<1>3. Capture
  <2>1. \A s \in Streams : written[s] = output[s] \o pipe[s]
    BY <1>1 DEF Streams
  <2> QED BY <1>1, <2>1 DEF Capture
<1>4. Control /\ Results
  BY DEF Control, Results, ResultMeansEnded, Held
<1> QED BY <1>2, <1>3, <1>4 DEF ExecInv

-----------------------------------------------------------------------------
(* Steps. *)

\* Steps that move no byte.
LEMMA CaptureKept ==
  ASSUME ExecInv, UNCHANGED <<pipe, written, output>>
  PROVE  Capture'
BY DEF ExecInv, Capture

\* The connection thread, up to the join.
LEMMA ThreadSteps ==
  ASSUME ExecInv,
         \/ Execute \/ Spawn \/ SpawnFails \/ WriteStdin \/ StdinBroken \/ PollExited \/ PollTimeout
         \/ KillAndWait \/ PollError
  PROVE  ExecInv'
<1> USE DEF ExecInv
<1>1. UNCHANGED <<pipe, written, output>>
  BY DEF Execute, Spawn, SpawnFails, WriteStdin, StdinBroken, PollExited, PollTimeout, KillAndWait,
         PollError, workloadVars
<1>2. Capture'
  BY <1>1, CaptureKept
<1>3. CASE Execute \/ SpawnFails \/ PollTimeout
  <2>1. /\ UNCHANGED <<child, heir, open, exited, reader, expired, outcome>>
        /\ exec' \in {"spawn", "answer", "kill"} /\ exec # "answer"
        /\ exec' = "kill" => expired
        /\ exec' = "spawn" => exec = "idle"
        /\ \/ result' = {}
           \/ exec' = "answer" /\ result' = ExecError
    BY <1>3 DEF Execute, SpawnFails, PollTimeout, workloadVars, Results
  <2>2. Types'
    BY <1>1, <2>1 DEF Types
  <2>3. Control'
    BY <1>1, <2>1 DEF Control, Held
  <2>4. Results'
    BY <2>1 DEF Results, ResultMeansEnded, ExecError
  <2> QED BY <1>2, <2>2, <2>3, <2>4
<1>4. CASE Spawn \/ WriteStdin
  <2>1. /\ UNCHANGED <<heir, exited, expired, outcome, result>> /\ result = {}
        /\ exec \in {"spawn", "stdin"} /\ exec' \in {"stdin", "poll"}
        /\ \/ child' = child
           \/ exec = "spawn" /\ child' = "running"
        /\ exec = "spawn" \/ open' \subseteq open
        /\ reader' = reader \/ reader' = [s \in Streams |-> "reading"]
    BY <1>4 DEF Spawn, WriteStdin, StartReaders, Results
  <2>2. Types'
    BY <1>1, <2>1 DEF Types
  <2>3. Control'
    BY <1>1, <2>1 DEF Control, Held
  <2>4. Results'
    BY <2>1 DEF Results, ResultMeansEnded
  <2> QED BY <1>2, <2>2, <2>3, <2>4
<1>5. CASE PollExited \/ KillAndWait \/ PollError
  <2>1. /\ UNCHANGED <<heir, open, exited, reader, expired, result>> /\ result = {}
        /\ exec \in {"poll", "kill"} /\ exec' = "join" /\ child' = "reaped"
        /\ \/ outcome' = "exit" /\ child = "zombie"
           \/ outcome' = "timeout" /\ exec = "kill"
           \/ outcome' = "error"
    BY <1>5 DEF PollExited, KillAndWait, PollError, Results
  <2>2. Types'
    BY <1>1, <2>1 DEF Types
  <2>3. Control'
    BY <1>1, <2>1 DEF Control, Held
  <2>4. Results'
    BY <2>1 DEF Results, ResultMeansEnded
  <2> QED BY <1>2, <2>2, <2>3, <2>4
<1>6. CASE StdinBroken
  <2>1. /\ UNCHANGED <<heir, open, exited, reader, expired>>
        /\ child' = "zombie" /\ exec' = "answer" /\ outcome' = "stdin" /\ result' = ExecError
    BY <1>6 DEF StdinBroken
  <2>2. Types'
    BY <1>1, <2>1 DEF Types
  <2>3. Control'
    BY <1>1, <2>1 DEF Control, Held
  <2>4. Results'
    BY <2>1 DEF Results, ResultMeansEnded, ExecError
  <2> QED BY <1>2, <2>2, <2>3, <2>4
<1> QED BY <1>3, <1>4, <1>5, <1>6

\* The clock, the end of a reader, and what the workload does without writing.
LEMMA QuietSteps ==
  ASSUME ExecInv,
         \/ Elapse \/ ReadsStdin \/ Forks \/ HeirExits
         \/ \E how \in {"ok", "failed"} : Exits(how)
         \/ \E end \in Ends : Closes(end)
         \/ \E s \in Streams : ReaderEof(s) \/ ReaderFails(s)
  PROVE  ExecInv'
<1> USE DEF ExecInv
<1>1. UNCHANGED <<pipe, written, output, exec, outcome, result>>
  BY DEF Elapse, ReadsStdin, Forks, HeirExits, Exits, Closes, ReaderEof, ReaderFails, workloadVars
<1>2. Capture'
  BY <1>1, CaptureKept
<1>3. CASE Elapse \/ ReadsStdin \/ \E end \in Ends : Closes(end)
  <2>1. /\ UNCHANGED <<child, heir, exited, reader>> /\ open' \subseteq open
        /\ expired' \in BOOLEAN /\ (expired => expired')
    BY <1>3 DEF Elapse, ReadsStdin, Closes, workloadVars, Types
  <2>2. Types' /\ Control'
    BY <1>1, <2>1 DEF Types, Control, Held
  <2>3. Results'
    BY <1>1, <2>1 DEF Results, ResultMeansEnded, Held
  <2> QED BY <1>2, <2>2, <2>3
<1>4. CASE Forks \/ HeirExits
  <2>1. /\ UNCHANGED <<child, open, exited, reader, expired>>
        /\ \/ heir' = FALSE
           \/ heir' = TRUE /\ child = "running"
    BY <1>4 DEF Forks, HeirExits
  <2>2. Types' /\ Control'
    <3>1. CASE heir' = FALSE
      BY <1>1, <2>1, <3>1 DEF Types, Control, Held
    <3>2. CASE heir' = TRUE /\ child = "running"
      BY <1>1, <2>1, <3>2 DEF Types, Control, Held
    <3> QED BY <2>1, <3>1, <3>2
  <2>3. Results'
    BY <1>1, <2>1 DEF Results, ResultMeansEnded, Held
  <2> QED BY <1>2, <2>2, <2>3
<1>5. CASE \E how \in {"ok", "failed"} : Exits(how)
  <2>1. /\ UNCHANGED <<heir, open, reader, expired>>
        /\ child = "running" /\ child' = "zombie" /\ exited' \in {{"ok"}, {"failed"}}
    BY <1>5 DEF Exits
  <2>2. Types'
    BY <1>1, <2>1 DEF Types
  <2>3. Control'
    BY <1>1, <2>1 DEF Control, Held
  <2>4. Results'
    BY <1>1, <2>1 DEF Results, ResultMeansEnded
  <2> QED BY <1>2, <2>2, <2>3, <2>4
<1>6. CASE \E s \in Streams : ReaderEof(s) \/ ReaderFails(s)
  <2>1. PICK s \in Streams : ReaderEof(s) \/ ReaderFails(s)
    BY <1>6
  <2>2. /\ UNCHANGED <<child, heir, open, exited, expired>> /\ reader[s] = "reading"
        /\ \/ reader' = [reader EXCEPT ![s] = "done"] /\ ~Held(s) /\ pipe[s] = <<>>
           \/ reader' = [reader EXCEPT ![s] = "failed"]
    BY <2>1 DEF ReaderEof, ReaderFails, workloadVars
  <2>3. Types'
    BY <1>1, <2>2 DEF Types
  <2>4. Control'
    BY <1>1, <2>2 DEF Types, Control, Held
  <2>5. Results'
    BY <1>1, <2>2 DEF Results, ResultMeansEnded
  <2> QED BY <1>2, <2>3, <2>4, <2>5
<1> QED BY <1>3, <1>4, <1>5, <1>6

\* Both readers have ended.
LEMMA JoinStep ==
  ASSUME ExecInv, Join
  PROVE  ExecInv'
<1> USE DEF ExecInv
<1>1. /\ UNCHANGED <<pipe, written, output, child, heir, open, exited, reader, expired, outcome>>
      /\ child = "reaped" /\ exec' = "answer" /\ outcome \in {"exit", "timeout", "error"}
      /\ \A s \in Streams : reader[s] \in {"done", "failed"} /\ (Held(s) => reader[s] = "failed")
  BY DEF Join, workloadVars, Control
<1>2. Capture'
  BY <1>1, CaptureKept
<1>3. Types' /\ Control'
  BY <1>1 DEF Types, Control, Held
<1>4. \A s \in Streams : Held(s)' => reader'[s] = "failed"
  BY <1>1 DEF Held
<1>5. CASE outcome = "exit"
  <2>1. result' = Finished(IF exited = {"ok"} THEN "success" ELSE "failure", output)
    BY <1>5 DEF Join
  <2>2. exited = {"ok"} \/ exited = {"failed"}
    BY <1>5 DEF Control
  <2> QED BY <1>1, <1>2, <1>3, <1>4, <2>1, <2>2 DEF Results, ResultMeansEnded, Finished
<1>6. CASE outcome = "timeout"
  <2>1. result' = Finished("timeout", output)
    BY <1>6 DEF Join
  <2>2. expired
    BY <1>6 DEF Control
  <2> QED BY <1>1, <1>2, <1>3, <1>4, <2>1, <2>2 DEF Results, ResultMeansEnded, Finished
<1>7. CASE outcome = "error"
  <2>1. result' = ExecError
    BY <1>7 DEF Join
  <2> QED BY <1>1, <1>2, <1>3, <2>1 DEF Results, ResultMeansEnded, ExecError
<1> QED BY <1>1, <1>5, <1>6, <1>7

\* The next command finds the agent as it started.
LEMMA ReturnStep ==
  ASSUME ExecInv, Return
  PROVE  ExecInv'
<1> USE DEF Return
<1>1. /\ output' \in OutputType /\ Counted(output') /\ output'.retained <= Cap
      /\ ~output'.truncated /\ output'.stdout = <<>> /\ output'.stderr = <<>>
  BY FreshCapture
<1>2. Types'
  <2>1. <<>> \in Seq(Byte)
    OBVIOUS
  <2>2. pipe' \in [Streams -> Seq(Byte)] /\ written' \in [Streams -> Seq(Byte)]
    BY <2>1
  <2> QED BY <1>1, <2>2 DEF Types
<1>3. Capture'
  <2>1. \A s \in Streams : written'[s] = output'[s] \o pipe'[s]
    BY <1>1 DEF Streams
  <2> QED BY <1>1, <2>1 DEF Capture
<1>4. Control' /\ Results'
  BY DEF Control, Results, ResultMeansEnded, Held
<1> QED BY <1>2, <1>3, <1>4 DEF ExecInv

\* A byte written goes to the end of the pipe.
LEMMA WriteSteps ==
  ASSUME ExecInv, NEW s \in Streams, NEW b \in Byte, Writes(s, b)
  PROVE  ExecInv'
<1> USE DEF ExecInv
<1>1. /\ UNCHANGED <<exec, child, heir, open, reader, output, expired, outcome, result, exited>>
      /\ Held(s)
      /\ pipe' = [pipe EXCEPT ![s] = Append(@, b)]
      /\ written' = [written EXCEPT ![s] = Append(@, b)]
  BY DEF Writes
<1>2. /\ pipe \in [Streams -> Seq(Byte)] /\ written \in [Streams -> Seq(Byte)]
      /\ \A t \in Streams : output[t] \in Seq(Byte)
  BY DEF Types, OutputType, Streams
<1>3. Types'
  BY <1>1, <1>2 DEF Types
<1>4. Control'
  BY <1>1 DEF Control, Held
<1>5. Results'
  BY <1>1 DEF Results, ResultMeansEnded, Held
<1>6. ~output.truncated => \A t \in Streams : written'[t] = output[t] \o pipe'[t]
  <2> SUFFICES ASSUME ~output.truncated, NEW t \in Streams
               PROVE  written'[t] = output[t] \o pipe'[t]
    OBVIOUS
  <2>1. written[t] = output[t] \o pipe[t]
    BY DEF Capture
  <2>2. CASE t # s
    BY <1>1, <1>2, <2>1, <2>2
  <2>3. CASE t = s
    <3>1. \A x, y \in Seq(Byte) : Append(x \o y, b) = x \o Append(y, b)
      OBVIOUS
    <3> QED BY <1>1, <1>2, <2>1, <2>3, <3>1
  <2> QED BY <2>2, <2>3
<1>7. output.truncated => Len(written'["stdout"]) + Len(written'["stderr"]) > Cap
  <2>1. \A t \in Streams : Len(written[t]) \in Nat /\ Len(written'[t]) \in Nat
                         /\ Len(written'[t]) >= Len(written[t])
    BY <1>1, <1>2
  <2>2. PICK a \in Nat, b1 \in Nat :
          a = Len(written["stdout"]) /\ b1 = Len(written["stderr"])
    BY <2>1 DEF Streams
  <2>3. PICK x \in Nat, y \in Nat :
          x = Len(written'["stdout"]) /\ y = Len(written'["stderr"]) /\ x >= a /\ y >= b1
    BY <2>1, <2>2 DEF Streams
  <2>4. output.truncated => a + b1 > Cap
    BY <2>2 DEF Capture
  <2>5. Cap \in Nat /\ x >= a /\ y >= b1
    BY <2>3, ExecAssumption
  <2>6. \A c, i, j, k, l \in Nat : k >= i /\ l >= j /\ i + j > c => k + l > c
    OBVIOUS
  <2>7. a + b1 > Cap => x + y > Cap
    BY ONLY a \in Nat, b1 \in Nat, x \in Nat, y \in Nat, <2>5, <2>6
  <2> QED BY <2>3, <2>4, <2>7
<1>8. Capture'
  BY <1>1, <1>6, <1>7 DEF Capture
<1> QED BY <1>3, <1>4, <1>5, <1>8

\* A reader moves bytes from its pipe to the output, or over the cap.
LEMMA ReaderSteps ==
  ASSUME ExecInv, NEW s \in Streams, ReaderTakes(s)
  PROVE  ExecInv'
<1> USE DEF ExecInv
<1>1. PICK n \in 1 .. Len(pipe[s]) :
        /\ output' = AppendOutput(output, s, SubSeq(pipe[s], 1, n))
        /\ pipe' = [pipe EXCEPT ![s] = SubSeq(@, n + 1, Len(@))]
  BY DEF ReaderTakes
<1>2. /\ UNCHANGED <<exec, child, heir, open, reader, expired, outcome, result, written, exited>>
      /\ reader[s] = "reading"
  BY DEF ReaderTakes
<1>3. /\ pipe \in [Streams -> Seq(Byte)] /\ written \in [Streams -> Seq(Byte)]
      /\ output \in OutputType /\ Other(s) \in Streams
      /\ \A t \in Streams : output[t] \in Seq(Byte)
  BY DEF Types, OutputType, Streams, Other
<1> DEFINE bytes == SubSeq(pipe[s], 1, n)
           rest == SubSeq(pipe[s], n + 1, Len(pipe[s]))
<1>4. pipe[s] \in Seq(Byte) /\ bytes \in Seq(Byte) /\ rest \in Seq(Byte) /\ Len(bytes) = n
  BY <1>3
<1>5. bytes \o rest = pipe[s]
  BY <1>4
<1>6. pipe'[s] = rest /\ \A t \in Streams : t # s => pipe'[t] = pipe[t]
  BY <1>1, <1>3
<1> HIDE DEF bytes, rest
<1>7. /\ output' \in OutputType /\ Counted(output') /\ output'.retained <= Cap
      /\ output'[Other(s)] = output[Other(s)]
      /\ output.truncated => output'.truncated
      /\ ~output'.truncated => output'[s] = output[s] \o bytes
      /\ output'.truncated /\ ~output.truncated => output.retained + Len(bytes) > Cap
  <2> DEFINE p == AppendOutput(output, s, bytes)
  <2>1. output' = p
    BY <1>1 DEF bytes
  <2>2. Counted(output) /\ output.retained <= Cap
    BY DEF Capture
  <2>3. /\ p \in OutputType /\ Counted(p) /\ p.retained <= Cap
        /\ p[Other(s)] = output[Other(s)]
        /\ output.truncated => p.truncated
        /\ ~p.truncated => p[s] = output[s] \o bytes
        /\ p.truncated /\ ~output.truncated => output.retained + Len(bytes) > Cap
    BY <1>3, <1>4, <2>2, AppendCapped
  <2> HIDE DEF p
  <2> QED BY <2>1, <2>3, Zenon
<1>8. Types'
  BY <1>1, <1>2, <1>3, <1>4, <1>7 DEF Types, rest
<1>9. Control'
  BY <1>1, <1>2, <1>6 DEF Control, Held
<1>10. Results'
  BY <1>2 DEF Results, ResultMeansEnded, Held
<1>11. ~output'.truncated => \A t \in Streams : written'[t] = output'[t] \o pipe'[t]
  <2> SUFFICES ASSUME ~output'.truncated, NEW t \in Streams
               PROVE  written'[t] = output'[t] \o pipe'[t]
    OBVIOUS
  <2>1. written[t] = output[t] \o pipe[t]
    BY <1>7 DEF Capture
  <2>2. CASE t = s
    <3>1. output'[t] \o pipe'[t] = (output[s] \o bytes) \o rest
      BY <1>6, <1>7, <2>2
    <3>2. (output[s] \o bytes) \o rest = output[s] \o (bytes \o rest)
      <4>1. output[s] \in Seq(Byte) /\ bytes \in Seq(Byte) /\ rest \in Seq(Byte)
        BY <1>3, <1>4
      <4>2. \A x, y, z \in Seq(Byte) : (x \o y) \o z = x \o (y \o z)
        BY ConcatAssociative
      <4> QED BY <4>1, <4>2, Zenon
    <3> QED BY <1>2, <1>5, <2>1, <2>2, <3>1, <3>2
  <2>3. CASE t = Other(s)
    BY <1>2, <1>6, <1>7, <2>1, <2>3 DEF Other, Streams
  <2> QED BY <2>2, <2>3 DEF Streams, Other
<1>12. output'.truncated => Len(written'["stdout"]) + Len(written'["stderr"]) > Cap
  <2> SUFFICES ASSUME output'.truncated, ~output.truncated
               PROVE  Len(written["stdout"]) + Len(written["stderr"]) > Cap
    BY <1>2 DEF Capture
  <2>1. output.retained + n > Cap
    BY <1>4, <1>7
  <2>2. \A t \in Streams : Len(written[t]) = Len(output[t]) + Len(pipe[t])
    BY <1>3 DEF Capture
  <2>3. PICK a \in Nat : a = Len(output["stdout"])
    BY <1>3 DEF Streams
  <2>4. PICK b \in Nat : b = Len(output["stderr"])
    BY <1>3 DEF Streams
  <2>5. PICK x \in Nat : x = Len(pipe["stdout"])
    BY <1>3 DEF Streams
  <2>6. PICK y \in Nat : y = Len(pipe["stderr"])
    BY <1>3 DEF Streams
  <2>7. output.retained = a + b
    BY <2>3, <2>4 DEF Capture, Counted
  <2>8. n <= x \/ n <= y
    BY <2>5, <2>6 DEF Streams
  <2>9. Len(written["stdout"]) = a + x /\ Len(written["stderr"]) = b + y
    BY <2>2, <2>3, <2>4, <2>5, <2>6 DEF Streams
  <2>10. Cap \in Nat
    BY ExecAssumption
  <2> QED BY <2>1, <2>7, <2>8, <2>9, <2>10
<1>13. Capture'
  BY <1>7, <1>11, <1>12 DEF Capture
<1> QED BY <1>8, <1>9, <1>10, <1>13

\* Every step of the agent and of its workload keeps the invariant.
LEMMA ExecStep == ExecInv /\ [ExecNext]_execVars => ExecInv'
<1> SUFFICES ASSUME ExecInv, [ExecNext]_execVars PROVE ExecInv'
  OBVIOUS
<1>1. CASE UNCHANGED execVars
  BY <1>1 DEF execVars, ExecInv, Types, Capture, Control, Results, ResultMeansEnded, Held
<1>2. CASE Execute \/ ExecThread \/ ExecFault
  BY <1>2, ThreadSteps, JoinStep, ReturnStep DEF ExecThread, ExecFault
<1>3. CASE Elapse \/ \E s \in Streams : ReaderTakes(s) \/ ReaderEof(s) \/ ReaderFails(s)
  BY <1>3, QuietSteps, ReaderSteps
<1>4. CASE Workload
  <2>1. CASE \E s \in Streams : \E b \in BytesOn[s] : Writes(s, b)
    <3>1. PICK s \in Streams : \E b \in BytesOn[s] : Writes(s, b)
      BY <2>1
    <3>2. BytesOn[s] \subseteq Byte
      BY ExecAssumption
    <3> QED BY <3>1, <3>2, WriteSteps
  <2>2. CASE \/ ReadsStdin \/ Forks \/ HeirExits \/ \E end \in Ends : Closes(end)
             \/ \E how \in {"ok", "failed"} : Exits(how)
    BY <2>2, QuietSteps
  <2> QED BY <1>4, <2>1, <2>2 DEF Workload
<1> QED BY <1>1, <1>2, <1>3, <1>4 DEF ExecNext

\* The invariant holds in every state of execute_command.
LEMMA ExecInvariant == ExecSpec => []ExecInv
BY ExecInitInv, ExecStep, PTL DEF ExecSpec

\* A result made by execute_command carries at most Cap bytes.  Without
\* output_truncated each stream is the text, cut before the first byte that is
\* not UTF-8, of all that was written to it, or of its first bytes when a read
\* failed: for every cap, every size of the pipes and every sequence of writes
\* and reads.
THEOREM Completeness == ExecSpec => []OutputComplete
<1> DEFINE Text(r, s) == \E n \in 0 .. Len(written[s]) :
                           /\ r[s] = BytesToString(SubSeq(written[s], 1, n))
                           /\ reader[s] = "done" => n = Len(written[s])
<1>1. ExecInv => OutputComplete
  <2> SUFFICES ASSUME ExecInv, NEW r \in result, r.status # "guest_error"
               PROVE  /\ Len(r.stdout) + Len(r.stderr) <= Cap
                      /\ ~r.truncated => \A s \in Streams : Text(r, s)
                      /\ r.truncated => Len(written["stdout"]) + Len(written["stderr"]) > Cap
    BY DEF OutputComplete
  <2>1. /\ r.stdout = BytesToString(output.stdout) /\ r.stderr = BytesToString(output.stderr)
        /\ r.truncated = output.truncated
    BY DEF ExecInv, Results
  <2>2. output.stdout \in Seq(Byte) /\ output.stderr \in Seq(Byte) /\ output.retained \in Nat
    BY DEF ExecInv, Types, OutputType
  <2>3. Len(r.stdout) + Len(r.stderr) <= Cap
    <3>1. PICK a \in Nat, b \in Nat : a = Len(output.stdout) /\ b = Len(output.stderr)
      BY <2>2
    <3>2. PICK x \in Nat, y \in Nat : x = Len(r.stdout) /\ y = Len(r.stderr) /\ x <= a /\ y <= b
      BY <2>1, <2>2, <3>1, TextLength
    <3>3. a + b <= Cap /\ Cap \in Nat
      BY <3>1, ExecAssumption DEF ExecInv, Capture, Counted
    <3>4. \A c, i, j, k, l \in Nat : k <= i /\ l <= j /\ i + j <= c => k + l <= c
      OBVIOUS
    <3>5. x <= a /\ y <= b
      BY <3>2
    <3>6. x + y <= Cap
      BY ONLY a \in Nat, b \in Nat, x \in Nat, y \in Nat, <3>3, <3>4, <3>5
    <3> QED BY <3>2, <3>6
  <2>4. ~r.truncated => \A s \in Streams : Text(r, s)
    <3> SUFFICES ASSUME ~r.truncated, NEW s \in Streams PROVE Text(r, s)
      OBVIOUS
    <3>1. output[s] \in Seq(Byte) /\ r[s] = BytesToString(output[s]) /\ pipe[s] \in Seq(Byte)
      BY <2>1, <2>2 DEF Streams, ExecInv, Types
    <3>2. written[s] = output[s] \o pipe[s]
      BY <2>1 DEF ExecInv, Capture
    <3>3. /\ Len(output[s]) \in 0 .. Len(written[s])
          /\ SubSeq(written[s], 1, Len(output[s])) = output[s]
          /\ pipe[s] = <<>> => Len(output[s]) = Len(written[s])
      BY <3>1, <3>2, FirstPart
    <3>4. reader[s] = "done" => Len(output[s]) = Len(written[s])
      BY <3>3 DEF ExecInv, Control
    <3> QED BY <3>1, <3>3, <3>4
  <2>5. r.truncated => Len(written["stdout"]) + Len(written["stderr"]) > Cap
    BY <2>1 DEF ExecInv, Capture
  <2> QED BY <2>3, <2>4, <2>5
<1> QED BY <1>1, ExecInvariant, PTL

\* A result of a process is made once the direct child has been waited for and
\* nothing holds a pipe but one whose reader gave up after a failed read, and it
\* says how the child ended.
THEOREM Ended == ExecSpec => []ResultMeansEnded
<1>1. ExecInv => ResultMeansEnded
  BY DEF ExecInv, Results
<1> QED BY <1>1, ExecInvariant, PTL
=============================================================================
