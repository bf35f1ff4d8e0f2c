----------------------------- MODULE GuestTools -----------------------------
(***************************************************************************)
(* The two kinds of tools a connection thread of the guest agent runs,     *)
(* commands (GuestExec) and language-server requests (LspClient): one      *)
(* handler at a time, while the processes they started run on their own.   *)
(***************************************************************************)
EXTENDS GuestExec, LspClient

toolVars == <<execVars, lspVars>>

ToolsInit == ExecInit /\ LspInit

\* handle_frame calls one handler and waits for it.
HandleBash == lsp = "idle" /\ dispatches = 0 /\ Execute /\ UNCHANGED lspVars
HandleLsp ==
  /\ exec = "idle"
  /\ \E tool \in ToolKind, f \in Files : LspDispatch(tool, f)
  /\ UNCHANGED execVars

\* Bound: commands come before the first request for a language server, with
\* which they share nothing but the thread.
ToolsNext ==
  \/ HandleBash
  \/ /\ ExecThread \/ ExecFault \/ Elapse \/ Workload
        \/ \E s \in Streams : ReaderTakes(s) \/ ReaderEof(s) \/ ReaderFails(s)
     /\ UNCHANGED lspVars
  \/ HandleLsp
  \/ /\ LspThread \/ SpawnServerFails \/ (Shutdown /\ exec = "idle") \/ Deadline \/ ReaderEnds
        \/ Replies \/ Publishes \/ Asks \/ Garbles \/ Dies
        \/ StopsReading \/ ClosesStdin \/ ClosesStdout
     /\ UNCHANGED execVars

ToolsSpec == ToolsInit /\ [][ToolsNext]_toolVars /\ ExecFairness /\ LspFairness
=============================================================================
