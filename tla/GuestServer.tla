---------------------------- MODULE GuestServer ----------------------------
(***************************************************************************)
(* The guest agent and the host side of its connections.                   *)
(*                                                                         *)
(* The agent is one thread that boots (policy, ruleset, DNS proxy) and     *)
(* then serves one connection after the other, one frame after the other;  *)
(* any I/O error ends it, and systemd starts it again in the same kernel.  *)
(* Beside it runs the DNS proxy thread; they share the active network      *)
(* level and the nftables table.  What a command or a language server does *)
(* while the agent waits for it is left open here.                         *)
(*                                                                         *)
(* Over vsock the peers are the dispatch threads of the petri-vz helper:   *)
(* each checks the helper's state, opens a connection of its own, sends    *)
(* one frame and waits for one line.  Over TCP a client may send several   *)
(* frames on a connection and may hang up at any time.                     *)
(***************************************************************************)
EXTENDS DispatchFrame

CONSTANTS
  RawPolicies,      \* policy documents
  Clients,          \* dispatch threads of the helper, or TCP clients
  Waiter,           \* the helper's readiness poll, a connection without frames
  FramesOf,         \* the frames a client may send: [Clients -> SUBSET Frame]
  MaxFrames,        \* how many of them, on a TCP connection
  MaxStarts,        \* how often the agent is started
  Queries,          \* DNS queries of workloads
  Addresses,
  DnsOf             \* the addresses the upstream resolver has for a name

ASSUME ServerAssumption == Waiter \notin Clients /\ MaxFrames \in Nat /\ MaxStarts \in Nat

\* Options have at most one element, and numbers are unsigned.
ASSUME FramesAssumption ==
  \A c \in Clients : \A f \in FramesOf[c] :
    /\ \A a, b \in f.args : a = b
    /\ \A a \in f.args : /\ \A l, m \in a.to_network : l = m
                         /\ \A l, m \in a.to_command : l = m
    /\ \A l \in f.limits : l.timeout_ms \subseteq Nat /\ l.max_output_bytes \subseteq Nat

ASSUME PoliciesAssumption ==
  \A raw \in RawPolicies : {raw.max_runtime_secs, raw.max_output_bytes} \subseteq Nat

VARIABLES
  policy, transport, root,                        \* fixed at boot
  vm, helper, poll,                               \* the helper's VMController
  agent, active_command, active_network, pending, \* the agent's main thread
  conn, answer, running,
  table,                                          \* the kernel's petri table
  proxy,                                          \* the DNS proxy thread
  backlog, client,                                \* connections
  starts, granted, workload                       \* history

vmVars == <<vm, helper, poll>>
agentVars == <<agent, active_command, active_network, pending, conn, answer, running>>
history == <<starts, granted, workload>>
vars == <<policy, transport, root, vmVars, agentVars, table, proxy, backlog, client, history>>

Peers == Clients \cup {Waiter}
NoFrame == {}
Idle == [pc |-> "idle", line |-> NoFrame, sent |-> 0]

Init ==
  /\ policy \in UNION {Validate(raw) : raw \in RawPolicies}
  /\ transport \in {"vsock", "tcp"}
  /\ root \in IF transport = "vsock" THEN {TRUE} ELSE BOOLEAN
  /\ vm = "running" /\ helper = "starting"
  /\ poll = IF transport = "vsock" THEN "trying" ELSE "done"
  /\ agent = "exited" /\ active_command = "none" /\ active_network = "none"
  /\ pending = NoFrame /\ conn = {} /\ answer = NoFrame /\ running = NoFrame
  /\ table = NoTable
  /\ proxy = [pc |-> "off", level |-> "none", query |-> NoFrame, add |-> {}]
  /\ backlog = <<>>
  /\ client = [c \in Clients |-> Idle]
  /\ starts = 0 /\ granted = "none" /\ workload = FALSE

\* What the set_mode in progress asks of an axis.
Requested(axis) == UNION {a[axis] : a \in UNION {f.args : f \in pending}}

-----------------------------------------------------------------------------
(* Boot of the agent. *)

\* main: policy and level first.  The policy is the file of the instance.
Start ==
  /\ vm = "running" /\ agent = "exited" /\ starts < MaxStarts
  /\ agent' = "boot" /\ starts' = starts + 1
  /\ active_network' = policy.network.default
  /\ UNCHANGED <<policy, transport, root, vmVars, active_command, pending, conn, answer,
                 running, table, proxy, backlog, client, granted, workload>>

\* Leaving main with an error: the process ends, its threads, its sockets and
\* (systemd kills the unit's control group) the workloads with it.
Exit ==
  /\ agent' = "exited"
  /\ pending' = NoFrame /\ conn' = {} /\ answer' = NoFrame /\ running' = NoFrame
  /\ proxy' = [proxy EXCEPT !.pc = "off", !.query = NoFrame, !.add = {}]
  /\ backlog' = <<>>
  /\ workload' = FALSE
  /\ client' = [c \in Clients |->
       IF client[c].pc \in {"open", "waiting"} THEN [client[c] EXCEPT !.pc = "broken"]
                                               ELSE client[c]]
  /\ UNCHANGED <<policy, transport, root, vmVars, active_command, active_network, table,
                 starts, granted>>

\* apply_boot leaves the kernel alone at the full level.
SkipsBootRules == ~policy.network_enabled \/ ~root \/ policy.network.default = "full"

ApplyBoot ==
  /\ agent = "boot"
  /\ table' = IF SkipsBootRules THEN table
              ELSE Plan(policy.network.default, policy.network.allowlist)
  /\ agent' = "dns"
  /\ UNCHANGED <<policy, transport, root, vmVars, active_command, active_network, pending,
                 conn, answer, running, proxy, backlog, client, history>>

\* nft cannot be run, or refuses the script: fatal, the kernel is unchanged.
ApplyBootFails ==
  /\ agent = "boot" /\ ~SkipsBootRules
  /\ Exit

NeedsProxy == policy.network_enabled /\ root /\ HasDomains(policy.network.allowlist)

StartDnsProxy ==
  /\ agent = "dns"
  /\ proxy' = [proxy EXCEPT !.pc = IF NeedsProxy THEN "idle" ELSE "off"]
  /\ agent' = "accept"
  /\ UNCHANGED <<policy, transport, root, vmVars, active_command, active_network, pending,
                 conn, answer, running, table, backlog, client, history>>

\* resolv.conf cannot be written, or port 53 is taken: fatal.
StartDnsProxyFails ==
  /\ agent = "dns" /\ NeedsProxy
  /\ Exit

Listening == agent \notin {"exited", "boot", "dns", "off"}

-----------------------------------------------------------------------------
(* The agent's connection loop. *)

\* Mutant: the command level outlives the connection.
AcceptKeepsLevel ==
  /\ agent = "accept" /\ backlog # <<>>
  /\ conn' = {Head(backlog)} /\ backlog' = Tail(backlog)
  /\ granted' = policy.command.default
  /\ agent' = "read"
  /\ UNCHANGED <<policy, transport, root, vmVars, active_command, active_network, pending,
                 answer, running, table, proxy, client, starts, workload>>

\* A new connection starts at the default command level.
Accept ==
  /\ agent = "accept" /\ backlog # <<>>
  /\ conn' = {Head(backlog)} /\ backlog' = Tail(backlog)
  /\ active_command' = policy.command.default /\ granted' = policy.command.default
  /\ agent' = "read"
  /\ UNCHANGED <<policy, transport, root, vmVars, active_network, pending, answer, running,
                 table, proxy, client, starts, workload>>

\* The frame a client has sent is gone from its connection.
TakeLine(c) == client' = [client EXCEPT ![c].line = NoFrame]

\* Mutant: a frame that does not parse is dropped.
ReadRefusedSilently ==
  /\ agent = "read"
  /\ \E c \in conn \cap Clients : \E f \in client[c].line :
       /\ Refusal(f, policy, active_command) # {}
       /\ answer' = Refusal(f, policy, active_command) \ {Malformed}
       /\ agent' = IF answer' = {} THEN "read" ELSE "write"
       /\ TakeLine(c)
  /\ UNCHANGED <<policy, transport, root, vmVars, active_command, active_network, pending,
                 conn, running, table, proxy, backlog, history>>

\* handle_frame refuses: the reply is all that happens.
ReadRefused ==
  /\ agent = "read"
  /\ \E c \in conn \cap Clients : \E f \in client[c].line :
       /\ Refusal(f, policy, active_command) # {}
       /\ answer' = Refusal(f, policy, active_command)
       /\ TakeLine(c)
  /\ agent' = "write"
  /\ UNCHANGED <<policy, transport, root, vmVars, active_command, active_network, pending,
                 conn, running, table, proxy, backlog, history>>

\* Mutant: the ruleset is left to the next boot.
ReadSetModeNoRules ==
  /\ agent = "read"
  /\ \E c \in conn \cap Clients : \E f \in client[c].line :
       /\ Refusal(f, policy, active_command) = {} /\ Handler(f) = "set_mode"
       /\ pending' = {f}
       /\ TakeLine(c)
  /\ agent' = "commit"
  /\ UNCHANGED <<policy, transport, root, vmVars, active_command, active_network, conn,
                 answer, running, table, proxy, backlog, history>>

\* handle_set_mode: with both axes checked, nft runs first when it has to.
ReadSetMode ==
  /\ agent = "read"
  /\ \E c \in conn \cap Clients : \E f \in client[c].line : \E a \in f.args :
       /\ Refusal(f, policy, active_command) = {} /\ Handler(f) = "set_mode"
       /\ a.to_network # {} => root
       /\ table' = IF a.to_network = {} THEN table
                   ELSE Plan(UnwrapOr(a.to_network, "none"), policy.network.allowlist)
       /\ pending' = {f}
       /\ TakeLine(c)
  /\ agent' = "commit"
  /\ UNCHANGED <<policy, transport, root, vmVars, active_command, active_network, conn,
                 answer, running, proxy, backlog, history>>

\* Mutant: the command level is set before nft is run.
ReadSetModeFailsLate ==
  /\ agent = "read"
  /\ \E c \in conn \cap Clients : \E f \in client[c].line : \E a \in f.args :
       /\ Refusal(f, policy, active_command) = {} /\ Handler(f) = "set_mode"
       /\ a.to_network # {}
       /\ active_command' = UnwrapOr(a.to_command, active_command)
       /\ answer' = {Rejected(f, "internal_error")}
       /\ TakeLine(c)
  /\ agent' = "write"
  /\ UNCHANGED <<policy, transport, root, vmVars, active_network, pending, conn, running,
                 table, proxy, backlog, history>>

\* nft fails (always, without root): a reply, and nothing has changed.
ReadSetModeFails ==
  /\ agent = "read"
  /\ \E c \in conn \cap Clients : \E f \in client[c].line : \E a \in f.args :
       /\ Refusal(f, policy, active_command) = {} /\ Handler(f) = "set_mode"
       /\ a.to_network # {}
       /\ answer' = {Rejected(f, "internal_error")}
       /\ TakeLine(c)
  /\ agent' = "write"
  /\ UNCHANGED <<policy, transport, root, vmVars, active_command, active_network, pending,
                 conn, running, table, proxy, backlog, history>>

\* The levels follow; the proxy thread may have run since the ruleset changed.
CommitSetMode ==
  /\ agent = "commit"
  /\ \E f \in pending : \E a \in f.args :
       /\ active_command' = UnwrapOr(a.to_command, active_command)
       /\ active_network' = UnwrapOr(a.to_network, active_network)
       /\ answer' = {Data(f)}
  /\ agent' = "write"
  /\ UNCHANGED <<policy, transport, root, vmVars, pending, conn, running, table, proxy,
                 backlog, client, history>>

\* handle_bash_command: the launch of the command.
ReadLaunch ==
  /\ agent = "read"
  /\ \E c \in conn \cap Clients : \E f \in client[c].line : \E a \in f.args :
       /\ Refusal(f, policy, active_command) = {} /\ Handler(f) = "bash"
       /\ running' = {[frame |-> f, command |-> a.command,
                       timeout |-> EffectiveTimeout(f, policy),
                       cap |-> EffectiveOutputCap(f, policy)]}
       /\ TakeLine(c)
  /\ agent' = "exec" /\ workload' = TRUE
  /\ UNCHANGED <<policy, transport, root, vmVars, active_command, active_network, pending,
                 conn, answer, table, proxy, backlog, starts, granted>>

\* execute_command returns; descendants of the command may live on.
CommandReturns ==
  /\ agent = "exec"
  /\ \E r \in running :
       \E reply \in {Reply(r.frame.id, s, "") : s \in {"success", "failure"}}
                    \cup {Reply(r.frame.id, "timeout", "timeout_exceeded"), GuestError(r.frame)} :
         answer' = {reply}
  /\ running' = NoFrame
  /\ agent' = "write"
  /\ UNCHANGED <<policy, transport, root, vmVars, active_command, active_network, pending,
                 conn, table, proxy, backlog, client, history>>

\* handle_lsp: the outcome of LspManager::dispatch becomes the reply.
ReadLsp ==
  /\ agent = "read"
  /\ \E c \in conn \cap Clients : \E f \in client[c].line :
       /\ Refusal(f, policy, active_command) = {} /\ Handler(f) = "lsp"
       /\ \E reply \in {Data(f), Rejected(f, "invalid_request"), Rejected(f, "policy_denied"),
                         GuestError(f)} : answer' = {reply}
       /\ TakeLine(c)
  /\ agent' = "write"
  /\ UNCHANGED <<policy, transport, root, vmVars, active_command, active_network, pending,
                 conn, running, table, proxy, backlog, history>>

\* The peer of the connection being served has hung up.
PeerGone == \E c \in conn : c # Waiter => client[c].pc \in {"done", "hungup"}

\* serve_lines writes the answer; over vsock the peer reads one line and closes.
WriteAnswer ==
  /\ agent = "write"
  /\ \E c \in conn \cap Clients :
       client' = IF client[c].pc # "waiting" THEN client
                 ELSE [client EXCEPT ![c].pc = IF transport = "vsock" THEN "done" ELSE "open"]
  /\ granted' = UnwrapOr(Requested("to_command"), granted)
  /\ pending' = NoFrame /\ answer' = NoFrame
  /\ agent' = "read"
  /\ UNCHANGED <<policy, transport, root, vmVars, active_command, active_network, conn,
                 running, table, proxy, backlog, starts, workload>>

\* The agent ends when accept fails, when a read fails or its line is not UTF-8,
\* and when it writes to a connection that the peer has reset.
ConnectionError ==
  /\ agent \in {"accept", "read"} \/ (agent = "write" /\ PeerGone)
  /\ Exit

ReadEof ==
  /\ agent = "read" /\ PeerGone
  /\ \A c \in conn \cap Clients : client[c].line = NoFrame
  /\ conn' = {} /\ agent' = "accept"
  /\ UNCHANGED <<policy, transport, root, vmVars, active_command, active_network, pending,
                 answer, running, table, proxy, backlog, client, history>>

AgentStep ==
  \/ ApplyBoot \/ ApplyBootFails \/ StartDnsProxy \/ StartDnsProxyFails
  \/ Accept \/ ReadRefused \/ ReadSetMode \/ ReadSetModeFails \/ CommitSetMode
  \/ ReadLaunch \/ CommandReturns \/ ReadLsp \/ WriteAnswer \/ ReadEof

-----------------------------------------------------------------------------
(* The DNS proxy thread, and the timeouts of the sets it fills. *)

\* serve_loop: the level is read once, when the query arrives.  A query that is
\* not forwarded is denied, which changes nothing.
ProxyForward ==
  /\ proxy.pc = "idle" /\ workload
  /\ \E q \in Queries :
       /\ Forwards(active_network, policy.network.allowlist, q)
       /\ proxy' = [pc |-> "asked", level |-> active_network, query |-> {q}, add |-> {}]
  /\ UNCHANGED <<policy, transport, root, vmVars, agentVars, table, backlog, client, history>>

\* The upstream answers, or does not in time; the workload gets the response.
ProxyRespond ==
  /\ proxy.pc = "asked"
  /\ \E q \in proxy.query : \E answered \in BOOLEAN :
       LET add == IF answered THEN Admits(proxy.level, DnsOf[Normalize(q.name)]) ELSE {}
       IN  proxy' = [proxy EXCEPT !.pc = IF add = {} THEN "idle" ELSE "admit",
                                  !.query = NoFrame, !.add = add]
  /\ UNCHANGED <<policy, transport, root, vmVars, agentVars, table, backlog, client, history>>

\* Only then are the addresses admitted; nft may fail, which is not fatal.
ProxyAdmit ==
  /\ proxy.pc = "admit"
  /\ table' \in {table, AddResolved(table, proxy.add)}
  /\ proxy' = [proxy EXCEPT !.pc = "idle", !.add = {}]
  /\ UNCHANGED <<policy, transport, root, vmVars, agentVars, backlog, client, history>>

\* The kernel drops a resolved address when its timeout is over.
Expire ==
  /\ \E a \in table.resolved : table' = [table EXCEPT !.resolved = @ \ {a}]
  /\ UNCHANGED <<policy, transport, root, vmVars, agentVars, proxy, backlog, client, history>>

-----------------------------------------------------------------------------
(* The helper: readiness poll, stop, and the dispatch threads. *)

\* waitForGuestVsock: a connection that is closed at once ends the poll.
PollConnects ==
  /\ poll = "trying" /\ Listening
  /\ poll' = "connected" /\ backlog' = Append(backlog, Waiter)
  /\ UNCHANGED <<policy, transport, root, vm, helper, agentVars, table, proxy, client, history>>

\* Mutant: the poll reports its own state.
PollReportsRaw ==
  /\ poll \in {"trying", "connected"}
  /\ helper' = poll
  /\ poll' = "done"
  /\ UNCHANGED <<policy, transport, root, vm, agentVars, table, proxy, backlog, client, history>>

\* setState does not look at the state it overwrites.
PollReports ==
  /\ poll \in {"trying", "connected"}
  /\ helper' = IF poll = "connected" THEN "ready" ELSE "failed"
  /\ poll' = "done"
  /\ UNCHANGED <<policy, transport, root, vm, agentVars, table, proxy, backlog, client, history>>

\* VMController.stop, or the guest shuts down: everything in the guest is gone.
VmStops ==
  /\ transport = "vsock" /\ vm = "running"
  /\ vm' = "stopped" /\ agent' = "off"
  /\ pending' = NoFrame /\ conn' = {} /\ answer' = NoFrame /\ running' = NoFrame
  /\ proxy' = [proxy EXCEPT !.pc = "off", !.query = NoFrame, !.add = {}]
  /\ backlog' = <<>> /\ table' = NoTable /\ workload' = FALSE
  /\ client' = [c \in Clients |->
       IF client[c].pc \in {"open", "waiting"} THEN [client[c] EXCEPT !.pc = "broken"]
                                               ELSE client[c]]
  /\ UNCHANGED <<policy, transport, root, helper, poll, active_command, active_network,
                 starts, granted>>

\* The state follows, once the stop has completed.
HelperStopped ==
  /\ vm = "stopped" /\ helper' = "stopped" /\ vm' = "off"
  /\ UNCHANGED <<policy, transport, root, poll, agentVars, table, proxy, backlog, client, history>>

\* dispatch: the state is checked under the lock, and used after it.
CheckReady(c) ==
  /\ client[c].pc = "idle"
  /\ client' = [client EXCEPT ![c].pc =
       IF transport = "vsock" /\ helper # "ready" THEN "failed" ELSE "checked"]
  /\ UNCHANGED <<policy, transport, root, vmVars, agentVars, table, proxy, backlog, history>>

Connect(c) ==
  /\ client[c].pc = "checked"
  /\ client' = [client EXCEPT ![c].pc = IF Listening THEN "open" ELSE "failed"]
  /\ backlog' = IF Listening THEN Append(backlog, c) ELSE backlog
  /\ UNCHANGED <<policy, transport, root, vmVars, agentVars, table, proxy, history>>

Send(c) ==
  /\ client[c].pc = "open"
  /\ client[c].sent < (IF transport = "vsock" THEN 1 ELSE MaxFrames)
  /\ \E f \in FramesOf[c] :
       client' = [client EXCEPT ![c].pc = "waiting", ![c].line = {f}, ![c].sent = @ + 1]
  /\ UNCHANGED <<policy, transport, root, vmVars, agentVars, table, proxy, backlog, history>>

\* readLine meets the end of the connection before a line: dispatch fails.
ConnectionLost(c) ==
  /\ client[c].pc = "broken"
  /\ client' = [client EXCEPT ![c].pc = "failed", ![c].line = NoFrame]
  /\ UNCHANGED <<policy, transport, root, vmVars, agentVars, table, proxy, backlog, history>>

\* A TCP client goes away, with or without an answer.
HangUp(c) ==
  /\ transport = "tcp" /\ client[c].pc \in {"open", "waiting"}
  /\ client' = [client EXCEPT ![c].pc = "hungup"]
  /\ UNCHANGED <<policy, transport, root, vmVars, agentVars, table, proxy, backlog, history>>

DispatchThread(c) == CheckReady(c) \/ Connect(c) \/ Send(c) \/ ConnectionLost(c)

Next ==
  \/ Start \/ AgentStep \/ ConnectionError
  \/ ProxyForward \/ ProxyRespond \/ ProxyAdmit \/ Expire
  \/ PollConnects \/ PollReports \/ VmStops \/ HelperStopped
  \/ \E c \in Clients : DispatchThread(c) \/ HangUp(c)

Spec == Init /\ [][Next]_vars

\* The agent's thread and the helper's threads run, and no connection has to
\* fail; that commands and language servers return is the subject of GuestExec
\* and LspClient.
FairSpec ==
  /\ Spec
  /\ WF_vars(AgentStep)
  /\ \A c \in Clients : WF_vars(DispatchThread(c))

-----------------------------------------------------------------------------
(* Properties. *)

\* Type correctness of the agent, the proxy and the connections.
GuestTypeOK ==
  /\ transport \in {"vsock", "tcp"} /\ root \in BOOLEAN /\ workload \in BOOLEAN
  /\ vm \in {"running", "stopped", "off"}
  /\ helper \in {"starting", "ready", "stopped", "failed"}
  /\ poll \in {"trying", "connected", "done"}
  /\ agent \in {"off", "exited", "boot", "dns", "accept", "read", "commit", "exec", "write"}
  /\ active_command \in CommandLevel /\ granted \in CommandLevel
  /\ active_network \in NetworkLevel
  /\ conn \subseteq Peers
  /\ table.present \in BOOLEAN /\ table.resolved \subseteq Addresses
  /\ proxy.pc \in {"off", "idle", "asked", "admit"} /\ proxy.level \in NetworkLevel
  /\ \A i \in 1..Len(backlog) : backlog[i] \in Peers
  /\ \A c \in Clients : client[c].pc \in
       {"idle", "checked", "open", "waiting", "broken", "hungup", "done", "failed"}

\* The level in force: the active one, or the one whose rules nft has just
\* installed and whose commit is the agent's next step.
LevelInForce == UnwrapOr(Requested("to_network"), active_network)

Permitted(level) ==
  CASE level = "full" -> Addresses
    [] level = "none" -> {}
    [] level = "allowlist" ->
         (UNION {e.covers : e \in {e \in Elements(policy.network.allowlist) : IsIpLiteral(e)}})
         \cup (UNION {DnsOf[Normalize(q.name)] :
                        q \in {q \in Queries : Matches(policy.network.allowlist, q.name)}})

\* Whenever the agent serves or a workload runs, the kernel lets a workload
\* reach nothing that the level in force does not permit, and that level is
\* within the policy's ceiling: not during set_mode, not by an answer the
\* proxy admits late, not across a crash and restart of the agent.
EgressContained ==
  (root /\ policy.network_enabled /\ (Listening \/ workload)) =>
    /\ NetworkAtMost(LevelInForce, policy.network.max)
    /\ \A a \in Addresses : Accepts(table, a) => a \in Permitted(LevelInForce)

\* Until the agent is restarted the table is exactly the plan of the level in
\* force: a failed or refused set_mode leaves ruleset and level in agreement.
RulesetAgrees ==
  (root /\ policy.network_enabled /\ Listening /\ starts = 1) =>
    [table EXCEPT !.resolved = {}] = Plan(LevelInForce, policy.network.allowlist)

\* A command runs only if the policy allows it at the level its own connection
\* was last told, or the default: no connection inherits another's level.
LaunchWithinGrant ==
  \A r \in running : Allows(policy.command, granted, r.command)

\* No command runs with a timeout or an output cap above the policy's, or above
\* what its request asked for.
NoRunOverCap ==
  \A r \in running :
    /\ r.timeout <= policy.max_runtime_secs * MsPerSec
    /\ r.cap <= policy.max_output_bytes
    /\ \A l \in r.frame.limits : /\ \A t \in l.timeout_ms : r.timeout <= t
                                 /\ \A b \in l.max_output_bytes : r.cap <= b

\* A frame that is answered with a refusal changes no level and no rule.
RefusalChangesNothing ==
  [][\A r \in answer' \ answer :
       r.status \in {"rejected", "malformed"} =>
         UNCHANGED <<table, active_command, active_network, running>>]_vars

\* Every dispatch of the helper returns: with the agent's line, or with an
\* error once the agent or the guest is gone.
DispatchReturns ==
  \A c \in Clients :
    (transport = "vsock" /\ client[c].pc = "checked") ~> (client[c].pc \in {"done", "failed"})
=============================================================================
