----------------------------- MODULE LspClient -----------------------------
(***************************************************************************)
(* The language servers of the guest agent: LspManager of                  *)
(* crates/petri-guest/src/lsp/manager.rs over the JSON-RPC connection Rpc  *)
(* of lsp/jsonrpc.rs, for one language.  The manager lives as long as the  *)
(* agent and is called by the thread that serves the connection.  Each     *)
(* connection has a reader thread that forwards the server's messages to a *)
(* channel; the two queues between server and manager are one sequence.    *)
(* The server is an arbitrary program: it may answer late or never, ask    *)
(* questions of its own, send what does not parse, stop reading, close its *)
(* stdin or its stdout, or die, and a descendant may hold the pipes on.    *)
(***************************************************************************)
EXTENDS Naturals, Sequences

CONSTANTS Files,          \* the files requests name, and
          FileClass,      \* what prepare and ensure_open find out about each
          ServerIds,      \* the ids the server gives its own requests
          MaxDispatches,  \* bound on the dispatches
          MaxExtra        \* bound on what a server sends unasked

ToolKind == {"position", "diagnostics"}  \* rename is a position request too
Class == {"disabled", "bad_args", "unknown_language", "no_server", "relative", "no_workspace",
          "missing", "outside", "too_large", "ok"}   \* too_large: or unreadable

ASSUME LspAssumption ==
  /\ FileClass \in [Files -> Class]
  /\ ServerIds \subseteq Nat /\ MaxDispatches \in Nat /\ MaxExtra \in Nat

VARIABLES
  lsp,         \* control state of the connection thread inside dispatch
  call,        \* the dispatch: tool, file, its number, attempt of run()
  await,       \* what pump_one waits for, and under which id
  due,         \* the deadline of the wait has passed
  after,       \* what follows once the reader thread has been joined
  server,      \* the ServerProcess: process, Rpc and open documents
  lspResult,   \* the LspOutcome, a set with at most one element
  dispatches

lspVars == <<lsp, call, await, due, after, server, lspResult, dispatches>>

NoCall == [tool |-> "position", file |-> CHOOSE f \in Files : TRUE, n |-> 0, attempt |-> 0]
NoWait == [for |-> "none", id |-> 0]
NoServer ==
  [proc |-> "none", stdin |-> "closed", stdout |-> "closed", \* the process and its pipes
   reader |-> "ended", closed |-> FALSE, next_id |-> 1, events |-> <<>>,
   diagnostics |-> {}, open |-> {},       \* fields of Rpc and ServerProcess
   pending |-> {}, docs |-> {}, extra |-> 0] \* what the server itself knows

LspInit ==
  /\ lsp = "idle" /\ call = NoCall /\ await = NoWait /\ due = FALSE /\ after = "none"
  /\ server = NoServer /\ lspResult = {} /\ dispatches = 0

Outcome(kind, of) == {[kind |-> kind, of |-> of]}

-----------------------------------------------------------------------------
(* dispatch and run. *)

\* Mutant: an error code that handle_lsp does not know.
PrepareNotFound(f) ==
  IF FileClass[f] = "missing" THEN Outcome("not_found", 0) ELSE {}

\* parse_args, then prepare: disabled, language::detect, server_for_language,
\* canonical_in_workspace.
Prepare(f) ==
  CASE FileClass[f] = "bad_args" -> Outcome("invalid_request", 0)
    [] FileClass[f] \in {"disabled", "unknown_language", "no_server"} -> Outcome("unavailable", 0)
    [] FileClass[f] = "no_workspace" -> Outcome("failed", 0)
    [] FileClass[f] \in {"relative", "missing"} -> Outcome("invalid_request", 0)
    [] FileClass[f] = "outside" -> Outcome("policy_denied", 0)
    [] OTHER -> {}

LspDispatch(tool, f) ==
  /\ lsp = "idle" /\ dispatches < MaxDispatches
  /\ dispatches' = dispatches + 1
  /\ call' = [tool |-> tool, file |-> f, n |-> dispatches', attempt |-> 0]
  /\ lspResult' = Prepare(f)
  /\ lsp' = IF Prepare(f) = {} THEN "top" ELSE "answer"
  /\ UNCHANGED <<await, due, after, server>>

Answer(outcome) ==
  /\ lspResult' = outcome /\ lsp' = "answer" /\ await' = NoWait /\ due' = FALSE
  /\ UNCHANGED <<call, after, dispatches>>

\* Dropping the Rpc joins its reader thread, before its writer is dropped.  The
\* process is not killed.
DropServer(then) ==
  /\ lsp' = "drop" /\ after' = then /\ await' = NoWait /\ due' = FALSE
  /\ UNCHANGED <<call, lspResult, dispatches>>

IsAlive == ~server.closed /\ server.proc = "alive"

\* The top of run's loop: reuse a live server, remove a dead one.
FindServer ==
  /\ lsp = "top"
  /\ IF server.proc # "none" /\ ~IsAlive
     THEN DropServer("start")
     ELSE /\ lsp' = IF server.proc = "none" THEN "start" ELSE "open"
          /\ UNCHANGED <<call, await, due, after, lspResult, dispatches>>
  /\ UNCHANGED server

Spawned == [NoServer EXCEPT !.proc = "alive", !.stdin = "open", !.stdout = "open",
                            !.reader = "reading"]

\* Mutant: the file the server is started for counts as open.
StartServerAssumesOpen ==
  /\ lsp = "start"
  /\ server' = [Spawned EXCEPT !.open = {call.file}, !.next_id = 2, !.pending =
                  {[id |-> 1, of |-> 0, file |-> call.file]}]
  /\ await' = [for |-> "initialize", id |-> 1] /\ lsp' = "await"
  /\ UNCHANGED <<call, due, after, lspResult, dispatches>>

\* ServerProcess::start up to the wait for the answer to initialize, which an
\* empty pipe has room for.
StartServer ==
  /\ lsp = "start"
  /\ server' = [Spawned EXCEPT !.next_id = 2, !.pending = {[id |-> 1, of |-> 0, file |-> call.file]}]
  /\ await' = [for |-> "initialize", id |-> 1] /\ lsp' = "await"
  /\ UNCHANGED <<call, due, after, lspResult, dispatches>>

SpawnServerFails ==
  /\ lsp = "start" /\ Answer(Outcome("failed", 0)) /\ UNCHANGED server

\* A Connection error: start fails for good; run drops the server and tries
\* once more, or gives up and keeps it; shutdown goes on.
Lost ==
  CASE await.for = "initialize" -> DropServer("failed")
    [] await.for = "shutdown" -> DropServer("exit")
    [] OTHER -> IF call.attempt = 0 THEN DropServer("retry") ELSE Answer(Outcome("failed", 0))

\* Rpc::write is a blocking write to the server's stdin, without a deadline: it
\* fails once nobody has the other end, and waits while the pipe is full.
CanWrite == server.stdin = "open"
Full == server.stdin = "full"

Stuck == lsp' = "stuck" /\ UNCHANGED <<call, await, due, after, lspResult, dispatches>>

\* ensure_open: a file is sent once to each server process.
EnsureOpen ==
  /\ lsp = "open"
  /\ CASE call.file \in server.open ->
            lsp' = "send" /\ UNCHANGED <<server, call, await, due, after, lspResult, dispatches>>
       [] call.file \notin server.open /\ FileClass[call.file] = "too_large" ->
            Answer(Outcome("failed", 0)) /\ UNCHANGED server
       [] call.file \notin server.open /\ FileClass[call.file] # "too_large" ->
            \/ Full /\ Stuck /\ UNCHANGED server
            \/ ~Full /\ ~CanWrite /\ Lost /\ UNCHANGED server
            \/ /\ CanWrite /\ lsp' = "send"
               /\ server' = [server EXCEPT !.open = @ \cup {call.file}, !.docs = @ \cup {call.file}]
               /\ UNCHANGED <<call, await, due, after, lspResult, dispatches>>

\* A message with an id has been written.
Asked(id, of) == server.pending \cup {[id |-> id, of |-> of, file |-> call.file]}

\* Mutant: the id of a request that was given up is used again.
SendRequestSameId ==
  /\ lsp = "send" /\ call.tool = "position"
  /\ \/ Full /\ Stuck /\ UNCHANGED server
     \/ ~Full /\ ~CanWrite /\ Lost /\ UNCHANGED server
     \/ /\ CanWrite /\ lsp' = "await" /\ await' = [for |-> "request", id |-> server.next_id]
        /\ server' = [server EXCEPT !.pending = Asked(server.next_id, call.n)]
        /\ UNCHANGED <<call, due, after, lspResult, dispatches>>

\* Rpc::request, up to the wait.
SendRequest ==
  /\ lsp = "send" /\ call.tool = "position"
  /\ \/ Full /\ Stuck /\ server' = [server EXCEPT !.next_id = @ + 1]
     \/ ~Full /\ ~CanWrite /\ Lost /\ server' = [server EXCEPT !.next_id = @ + 1]
     \/ /\ CanWrite /\ lsp' = "await" /\ await' = [for |-> "request", id |-> server.next_id]
        /\ server' = [server EXCEPT !.next_id = @ + 1, !.pending = Asked(server.next_id, call.n)]
        /\ UNCHANGED <<call, due, after, lspResult, dispatches>>

\* wait_for_diagnostics: what was published before will do.
AskDiagnostics ==
  /\ lsp = "send" /\ call.tool = "diagnostics"
  /\ IF call.file \in server.diagnostics
     THEN Answer(Outcome("diagnostics", call.n))
     ELSE /\ await' = [for |-> "diagnostics", id |-> 0] /\ lsp' = "await"
          /\ UNCHANGED <<call, due, after, lspResult, dispatches>>
  /\ UNCHANGED server

-----------------------------------------------------------------------------
(* pump_one, handle_inbound and the waits around them. *)

\* handle_inbound: diagnostics are kept, a question is answered (nothing is
\* kept of that).
Inbound(e) == [server EXCEPT !.events = Tail(@),
                             !.diagnostics = IF e.kind = "publish" THEN @ \cup {e.file} ELSE @]

\* request takes any message with its id, wait_for_diagnostics any message once
\* the file's diagnostics are there.
Settles(e) ==
  IF await.for = "diagnostics" THEN call.file \in Inbound(e).diagnostics
  ELSE e.kind \in {"reply", "error", "ask"} /\ e.id = await.id

\* What the caller makes of the message that settles the wait; initialize goes
\* on to write `initialized`, shutdown `exit`.
Settled(e) ==
  CASE await.for = "initialize" ->
         IF e.kind = "error" THEN DropServer("failed")
         ELSE \/ Full /\ Stuck
              \/ ~Full /\ ~CanWrite /\ DropServer("failed")
              \/ /\ CanWrite /\ lsp' = "open" /\ await' = NoWait
                 /\ UNCHANGED <<call, due, after, lspResult, dispatches>>
    [] await.for = "request" ->
         IF e.kind = "error" THEN Answer(Outcome("failed", 0)) ELSE Answer(Outcome("available", e.of))
    [] await.for = "diagnostics" -> Answer(Outcome("diagnostics", call.n))
    [] await.for = "shutdown" -> IF Full THEN Stuck ELSE DropServer("exit")

\* shutdown kills the process once `exit` is written or its write has failed.
Killed(s) == IF await.for = "shutdown" /\ ~Full THEN [s EXCEPT !.proc = "dead"] ELSE s

\* The event is handled: the connection is closed, a question is answered, or
\* the message is looked at.
PumpOne ==
  /\ lsp = "await" /\ ~due /\ server.events # <<>>
  /\ LET e == Head(server.events)
     IN  CASE e.kind = "closed" ->
                /\ IF await.for = "shutdown" /\ Full THEN Stuck ELSE Lost
                /\ server' = Killed([server EXCEPT !.events = Tail(@), !.closed = TRUE])
           [] e.kind = "ask" /\ Full -> Stuck /\ server' = Inbound(e)
           [] e.kind = "ask" /\ ~Full /\ ~CanWrite -> Lost /\ server' = Killed(Inbound(e))
           [] OTHER ->
                /\ server' = IF Settles(e) THEN Killed(Inbound(e)) ELSE Inbound(e)
                /\ IF Settles(e) THEN Settled(e)
                   ELSE UNCHANGED <<lsp, call, await, due, after, lspResult, dispatches>>

\* Mutant: the deadline is not looked at.
WaitTimedOutNever == lsp = "await" /\ due /\ UNCHANGED lspVars

\* LspError::Timeout is not a lost connection.
WaitTimedOut ==
  /\ lsp = "await" /\ due
  /\ CASE await.for = "initialize" -> DropServer("failed")
       [] await.for = "request" -> Answer(Outcome("failed", 0))
       [] await.for = "diagnostics" -> Answer(Outcome("diagnostics", call.n))
       [] await.for = "shutdown" -> IF Full THEN Stuck ELSE DropServer("exit")
  /\ server' = Killed(server)

\* A blocked write fails when the last holder of the other end is gone.
Unstuck ==
  /\ lsp = "stuck" /\ ~Full
  /\ Lost /\ server' = Killed(server)

\* Rpc::drop returns when the reader thread has ended.
JoinReader ==
  /\ lsp = "drop" /\ server.reader = "ended"
  /\ server' = NoServer
  /\ CASE after = "failed" -> lspResult' = Outcome("failed", 0) /\ lsp' = "answer" /\ UNCHANGED call
       [] after = "retry" -> lsp' = "top" /\ call' = [call EXCEPT !.attempt = 1] /\ UNCHANGED lspResult
       [] after = "start" -> lsp' = "start" /\ UNCHANGED <<call, lspResult>>
       [] after = "exit" -> lsp' = "exited" /\ UNCHANGED <<call, lspResult>>
  /\ after' = "none" /\ UNCHANGED <<await, due, dispatches>>

\* handle_lsp turns the outcome into a result frame.
LspReturn ==
  /\ lsp = "answer" /\ lsp' = "idle" /\ lspResult' = {} /\ call' = NoCall
  /\ UNCHANGED <<await, due, after, server, dispatches>>

\* The agent ends: LspManager::shutdown, with 2 s for the server's answer.
Shutdown ==
  /\ lsp = "idle"
  /\ CASE server.proc = "none" ->
            lsp' = "exited" /\ UNCHANGED <<server, call, await, due, after, lspResult, dispatches>>
       [] server.proc # "none" /\ (server.closed \/ (~Full /\ ~CanWrite)) ->
            DropServer("exit") /\ server' = [server EXCEPT !.proc = "dead"]
       [] OTHER ->
            /\ server' = [server EXCEPT !.next_id = @ + 1, !.pending =
                            IF Full THEN @ ELSE Asked(server.next_id, 0)]
            /\ await' = [for |-> "shutdown", id |-> server.next_id]
            /\ lsp' = IF Full THEN "stuck" ELSE "await"
            /\ UNCHANGED <<call, due, after, lspResult, dispatches>>

LspThread == FindServer \/ StartServer \/ EnsureOpen \/ SendRequest \/ AskDiagnostics \/ PumpOne
             \/ WaitTimedOut \/ Unstuck \/ JoinReader \/ LspReturn

-----------------------------------------------------------------------------
(* The clock, the reader thread and the server. *)

Deadline ==
  /\ lsp = "await" /\ ~due /\ due' = TRUE
  /\ UNCHANGED <<lsp, call, await, after, server, lspResult, dispatches>>

Others == <<lsp, call, await, due, after, lspResult, dispatches>>

\* read_message reaches the end of the stream, which a descendant of the server
\* may hold open after the server has died.
ReaderEnds ==
  /\ server.stdout = "closed" /\ server.reader = "reading"
  /\ server' = [server EXCEPT !.reader = "ended", !.events = Append(@, [kind |-> "closed"])]
  /\ UNCHANGED Others

Talks == server.stdout = "open" /\ server.reader = "reading"

Replies ==
  /\ Talks
  /\ \E p \in server.pending, k \in {"reply", "error"} :
       server' = [server EXCEPT !.pending = @ \ {p},
                                !.events = Append(@, [kind |-> k, id |-> p.id, of |-> p.of])]
  /\ UNCHANGED Others

Publishes ==
  /\ Talks /\ server.extra < MaxExtra
  /\ \E f \in server.docs :
       server' = [server EXCEPT !.extra = @ + 1,
                                !.events = Append(@, [kind |-> "publish", file |-> f])]
  /\ UNCHANGED Others

Asks ==
  /\ Talks /\ server.extra < MaxExtra
  /\ \E id \in ServerIds :
       server' = [server EXCEPT !.extra = @ + 1,
                                !.events = Append(@, [kind |-> "ask", id |-> id, of |-> 0])]
  /\ UNCHANGED Others

\* A frame that read_message fails on: without a usable Content-Length, or whose body is not JSON.
Garbles ==
  /\ Talks
  /\ server' = [server EXCEPT !.reader = "ended", !.events = Append(@, [kind |-> "closed"])]
  /\ UNCHANGED Others

Dies ==
  /\ server.proc = "alive" /\ server' = [server EXCEPT !.proc = "dead"]
  /\ UNCHANGED Others

\* Nobody reads the server's stdin any more and the next message does not fit.
\* (Reading on after a while is a slow write.)
StopsReading ==
  /\ CanWrite /\ server' = [server EXCEPT !.stdin = "full"]
  /\ UNCHANGED Others

ClosesStdin ==
  /\ CanWrite \/ Full
  /\ server' = [server EXCEPT !.stdin = "closed"]
  /\ UNCHANGED Others

ClosesStdout ==
  /\ server.stdout = "open" /\ server' = [server EXCEPT !.stdout = "closed"]
  /\ UNCHANGED Others

LspNext ==
  \/ \E tool \in ToolKind, f \in Files : LspDispatch(tool, f)
  \/ LspThread \/ SpawnServerFails \/ Shutdown \/ Deadline \/ ReaderEnds
  \/ Replies \/ Publishes \/ Asks \/ Garbles \/ Dies
  \/ StopsReading \/ ClosesStdin \/ ClosesStdout

LspSpec == LspInit /\ [][LspNext]_lspVars

\* The agent's threads run and time passes; nothing is assumed of the server.
LspFairness == WF_lspVars(LspThread) /\ WF_lspVars(Deadline) /\ WF_lspVars(ReaderEnds)

-----------------------------------------------------------------------------
(* Properties. *)

LspTypeOK ==
  /\ lsp \in {"idle", "top", "start", "await", "stuck", "open", "send", "drop", "answer", "exited"}
  /\ call.tool \in ToolKind /\ call.file \in Files /\ call.attempt \in {0, 1}
  /\ await.for \in {"none", "initialize", "request", "diagnostics", "shutdown"}
  /\ lsp = "await" => await.for # "none"
  /\ await.for # "none" => lsp \in {"await", "stuck"}
  /\ after \in {"none", "failed", "retry", "start", "exit"}
  /\ server.proc \in {"none", "alive", "dead"} /\ server.reader \in {"reading", "ended"}
  /\ server.stdin \in {"open", "full", "closed"} /\ server.stdout \in {"open", "closed"}
  /\ server.open \subseteq Files /\ server.diagnostics \subseteq Files
  /\ \A r \in lspResult : r.kind \in {"available", "diagnostics", "failed", "unavailable",
                                      "invalid_request", "policy_denied"}

\* An available result is the server's reply to this very request (Rpc::request
\* matches ids): not the late reply to one given up earlier, not the reply of a
\* server that has been replaced.  The one other message that is taken for it is
\* a question of the server's own that happens to carry the id waited for, which
\* a server that counts its requests from 1 sends sooner or later.
ReplyIsOwn ==
  \A r \in lspResult : r.kind = "available" =>
     r.of = call.n \/ (r.of = 0 /\ server.next_id - 1 \in ServerIds)

\* A request about a file reaches only a server process that has been told to
\* open the file, also after a restart (ensure_open).
DocumentOpenFirst ==
  \A p \in server.pending : p.of # 0 => p.file \in server.docs

\* Every dispatch returns, or the thread waits for ever in one of two places: in
\* a write to a server that lives on and does not read its stdin (Rpc::write has
\* no deadline), or in Rpc::drop, for a reader whose stream the server or a
\* descendant of it holds open.  Waits for messages end by their deadline, and a
\* lost server is restarted once.
LspReturns ==
  \/ []<>(lsp \in {"idle", "exited"})
  \/ <>[](lsp = "stuck" /\ server.stdin = "full")
  \/ <>[](lsp = "drop" /\ server.reader = "reading" /\ server.stdout = "open")
=============================================================================
