-------------------------- MODULE GuestServerProof --------------------------
(***************************************************************************)
(* Proofs about the guest agent, for any policies, clients, frames, names  *)
(* and addresses, and any number of restarts: the agent's steps preserve   *)
(* the invariant of GuestServerLemmas, and what follows from it.           *)
(***************************************************************************)
EXTENDS GuestServerLemmas

-----------------------------------------------------------------------------
(* Start, boot and end of the agent. *)

\* The agent starts with no request in hand and no command running.
LEMMA StartStep ==
  ASSUME ServerInv, Start
  PROVE  ServerInv'
<1> USE DEF ServerInv
<1>1. pending = {} /\ running = {} /\ ~workload
  BY DEF Start, Pendings, Runs, Workloads, Listening
<1>2. Shapes'
  BY DEF Start, Shapes
<1>3. Pendings'
  BY <1>1, NoRequest DEF Start, Pendings, Shapes
<1>4. Workloads' /\ Grants' /\ Tables'
  BY <1>1 DEF Start, Workloads, Grants, Tables, Enforced, Listening
<1>5. Starts'
  BY DEF Start, Starts, Enforced, Listening
<1>6. Runs'
  BY <1>1 DEF Start, Runs, LaunchWithinGrant, NoRunOverCap
<1> QED BY <1>2, <1>3, <1>4, <1>5, <1>6

\* The agent ends, with or without the kernel and its table.
LEMMA EndSteps ==
  ASSUME ServerInv, Exit \/ VmStops
  PROVE  ServerInv'
<1> USE DEF ServerInv, NoFrame
<1>1. /\ UNCHANGED <<policy, root, active_command, active_network, starts, granted>>
      /\ agent' \in {"exited", "off"} /\ pending' = {} /\ running' = {} /\ workload' = FALSE
      /\ table' \in {table, NoTable}
      /\ proxy' = [proxy EXCEPT !.pc = "off", !.query = NoFrame, !.add = {}]
      /\ client' = [c \in Clients |->
           IF client[c].pc \in {"open", "waiting"} THEN [client[c] EXCEPT !.pc = "broken"]
                                                   ELSE client[c]]
  BY DEF Exit, VmStops
<1>2. client' \in ClientType
  <2>1. \A c \in Clients : client[c] \in [pc : ClientPc, line : SUBSET AllFrames, sent : Nat]
    BY DEF Shapes, ClientType
  <2>2. \A r \in [pc : ClientPc, line : SUBSET AllFrames, sent : Nat] :
          [r EXCEPT !.pc = "broken"] \in [pc : ClientPc, line : SUBSET AllFrames, sent : Nat]
    BY DEF ClientPc
  <2> QED BY <1>1, <2>1, <2>2 DEF ClientType
<1>3. DOMAIN proxy' = DOMAIN proxy /\ proxy'.query = {} /\ proxy'.add = {}
  BY <1>1 DEF Shapes
<1>4. Shapes'
  BY <1>1, <1>2, <1>3 DEF Shapes, NoTable
<1>5. Pendings'
  BY <1>1, NoRequest DEF Pendings
<1>6. Workloads' /\ Grants' /\ Tables'
  BY <1>1, <1>3 DEF Workloads, Grants, Tables, Enforced, Listening
<1>7. Starts'
  BY <1>1 DEF Starts, Enforced, Listening
<1>8. Runs'
  BY <1>1 DEF Runs, LaunchWithinGrant, NoRunOverCap
<1> QED BY <1>4, <1>5, <1>6, <1>7, <1>8

\* apply_boot: from here on the table is the plan of the default level, or the
\* level is full.
LEMMA ApplyBootStep ==
  ASSUME ServerInv, ApplyBoot
  PROVE  ServerInv'
<1> USE DEF ServerInv
<1> DEFINE al == policy.network.allowlist
           level == policy.network.default
<1>1. /\ pending = {} /\ running = {} /\ active_network = level /\ level \in NetworkLevel
      /\ pending' = {} /\ active_network' = level
  BY DEF ApplyBoot, Pendings, Runs, Shapes
<1>2. LevelOf(pending', active_network') = level
  BY <1>1, NoRequest
<1>3. Pendings' /\ Workloads' /\ Grants'
  BY <1>1, <1>2 DEF ApplyBoot, Pendings, Workloads, Grants, Listening, history
<1>4. Runs'
  BY <1>1 DEF ApplyBoot, Runs, LaunchWithinGrant, NoRunOverCap
<1>5. Shapes'
  BY <1>1, PlanWithin DEF ApplyBoot, Shapes
<1>6. Tables'
  <2>1. (root /\ policy.network_enabled) => Within(table', level, al)
    <3>1. CASE level = "full"
      BY <3>1 DEF Within
    <3>2. CASE level # "full"
      BY <1>1, <3>2, PlanWithin DEF ApplyBoot, SkipsBootRules
    <3> QED BY <3>1, <3>2
  <2> QED BY <1>2, <2>1 DEF ApplyBoot, Tables
<1>7. Starts'
  <2>1. (root /\ policy.network_enabled /\ starts = 1) =>
          [table' EXCEPT !.resolved = {}] = Plan(level, al)
    <3>1. CASE level = "full"
      <4>1. starts = 1 => table' = NoTable
        BY <3>1 DEF ApplyBoot, SkipsBootRules, Starts
      <4>2. [NoTable EXCEPT !.resolved = {}] = Plan(level, al)
        BY <3>1 DEF Plan, NoTable
      <4> QED BY <4>1, <4>2
    <3>2. CASE level # "full"
      <4>1. root /\ policy.network_enabled => table' = Plan(level, al)
        BY <3>2 DEF ApplyBoot, SkipsBootRules
      <4>2. [Plan(level, al) EXCEPT !.resolved = {}] = Plan(level, al)
        BY <1>1, PlanWithin
      <4> QED BY <4>1, <4>2
    <3> QED BY <3>1, <3>2
  <2> QED BY <1>2, <2>1 DEF ApplyBoot, Starts, history
<1> QED BY <1>3, <1>4, <1>5, <1>6, <1>7

-----------------------------------------------------------------------------
(* The connection loop. *)

\* A step that leaves the table, the proxy and the level in force alone.
LEMMA RulesKept ==
  ASSUME ServerInv, UNCHANGED <<policy, root, table, starts>>,
         proxy' = proxy \/ \E x : proxy' = [proxy EXCEPT !.pc = x],
         LevelOf(pending, active_network)' = LevelOf(pending, active_network),
         Enforced, agent' \notin {"boot", "exited", "off"}
  PROVE  Tables' /\ Starts' /\ DOMAIN proxy' = {"pc", "level", "query", "add"}
<1>1. /\ DOMAIN proxy' = {"pc", "level", "query", "add"}
      /\ proxy'.level = proxy.level /\ proxy'.query = proxy.query /\ proxy'.add = proxy.add
  BY DEF ServerInv, Shapes
<1>2. Tables'
  BY <1>1 DEF ServerInv, Tables
<1>3. Starts'
  BY DEF ServerInv, Starts
<1> QED BY <1>1, <1>2, <1>3

\* Steps outside a request: no frame is in progress before or after them.
LEMMA BetweenRequests ==
  ASSUME ServerInv, StartDnsProxy \/ Accept \/ ReadEof
  PROVE  ServerInv'
<1> USE DEF ServerInv
<1>1. /\ pending = {} /\ running = {} /\ pending' = {} /\ running' = {}
      /\ UNCHANGED <<policy, root, table, starts, active_network, workload, client>>
      /\ proxy' = proxy \/ \E x : proxy' = [proxy EXCEPT !.pc = x]
      /\ Enforced /\ agent' \in {"accept", "read"}
      /\ agent' = "read" => granted' = active_command'
  BY DEF StartDnsProxy, Accept, ReadEof, Pendings, Runs, history, Enforced, Listening
<1>2. Tables' /\ Starts' /\ DOMAIN proxy' = {"pc", "level", "query", "add"}
  BY <1>1, RulesKept
<1>3. Shapes'
  BY <1>1, <1>2 DEF Shapes
<1>4. Pendings' /\ Workloads' /\ Grants'
  BY <1>1, NoRequest DEF Pendings, Workloads, Grants, Listening
<1>5. Runs'
  BY <1>1 DEF Runs, LaunchWithinGrant, NoRunOverCap
<1> QED BY <1>2, <1>3, <1>4, <1>5

\* Taking a frame off its connection.
LEMMA LineTaken ==
  ASSUME ServerInv, NEW c \in Clients, TakeLine(c)
  PROVE  client' \in ClientType /\ client[c].line \subseteq AllFrames
<1>1. client \in ClientType
  BY DEF ServerInv, Shapes
<1>2. client[c].line \subseteq AllFrames
  BY <1>1 DEF ClientType
<1>3. "idle" \in ClientPc
  BY DEF ClientPc
<1> QED BY <1>1, <1>2, <1>3, ClientUpdates DEF TakeLine

\* Requests that change no level: refusals, a set_mode that fails, and the
\* answers of language servers and commands.
LEMMA PlainAnswers ==
  ASSUME ServerInv, ReadRefused \/ ReadSetModeFails \/ ReadLsp \/ CommandReturns
  PROVE  ServerInv'
<1> USE DEF ServerInv
<1>1. /\ pending = {} /\ pending' = {} /\ running' = {}
      /\ UNCHANGED <<policy, root, table, proxy, starts, active_network, active_command, workload,
                     granted>>
      /\ Enforced /\ agent' = "write" /\ granted = active_command
  BY DEF ReadRefused, ReadSetModeFails, ReadLsp, CommandReturns, Pendings, Runs, Grants, history,
         Enforced, Listening, NoFrame
<1>2. client' \in ClientType
  <2>1. CASE CommandReturns
    BY <2>1 DEF CommandReturns, Shapes
  <2>2. CASE ReadRefused \/ ReadSetModeFails \/ ReadLsp
    <3>1. PICK c \in Clients : TakeLine(c)
      BY <2>2 DEF ReadRefused, ReadSetModeFails, ReadLsp
    <3> QED BY <3>1, LineTaken
  <2> QED BY <2>1, <2>2
<1>3. Tables' /\ Starts'
  BY <1>1, RulesKept
<1>4. Shapes'
  BY <1>1, <1>2 DEF Shapes
<1>5. Pendings' /\ Workloads' /\ Grants'
  BY <1>1, NoRequest DEF Pendings, Workloads, Grants, Listening
<1>6. Runs'
  BY <1>1 DEF Runs, LaunchWithinGrant, NoRunOverCap
<1> QED BY <1>3, <1>4, <1>5, <1>6

\* handle_set_mode, up to the new ruleset.
LEMMA SetModeStep ==
  ASSUME ServerInv, ReadSetMode
  PROVE  ServerInv'
<1> USE DEF ServerInv
<1> DEFINE al == policy.network.allowlist
<1>1. /\ pending = {} /\ running = {} /\ granted = active_command /\ Enforced
      /\ agent' = "commit"
      /\ UNCHANGED <<policy, root, proxy, starts, active_network, active_command, workload, granted,
                     running>>
  BY DEF ReadSetMode, Pendings, Runs, Grants, history, Enforced, Listening
<1>2. PICK c \in Clients : \E f \in client[c].line : \E a \in f.args :
       /\ Refusal(f, policy, active_command) = {} /\ Handler(f) = "set_mode"
       /\ a.to_network # {} => root
       /\ table' = IF a.to_network = {} THEN table ELSE Plan(UnwrapOr(a.to_network, "none"), al)
       /\ pending' = {f}
       /\ TakeLine(c)
  BY DEF ReadSetMode
<1>3. PICK f \in client[c].line : \E a \in f.args :
       /\ Refusal(f, policy, active_command) = {} /\ Handler(f) = "set_mode"
       /\ table' = IF a.to_network = {} THEN table ELSE Plan(UnwrapOr(a.to_network, "none"), al)
       /\ pending' = {f}
       /\ TakeLine(c)
  BY <1>2
<1>4. PICK a \in f.args :
       /\ Refusal(f, policy, active_command) = {} /\ Handler(f) = "set_mode"
       /\ table' = IF a.to_network = {} THEN table ELSE Plan(UnwrapOr(a.to_network, "none"), al)
       /\ pending' = {f}
       /\ TakeLine(c)
  BY <1>3
<1>5. client' \in ClientType /\ f \in AllFrames
  BY <1>4, LineTaken
<1>6. /\ a.to_network \subseteq NetworkLevel
      /\ \A l \in a.to_network : NetworkAtMost(l, policy.network.max)
  BY <1>4, SetModeAccepted
<1>7. /\ LevelOf(pending', active_network') = UnwrapOr(a.to_network, active_network)
      /\ \A l, m \in a.to_network : l = m
  BY <1>1, <1>4, <1>5, OneRequest DEF LevelOf
<1>8. CASE a.to_network = {}
  <2>1. LevelOf(pending', active_network') = active_network
    BY <1>7, <1>8 DEF UnwrapOr
  <2>2. LevelOf(pending, active_network) = active_network
    BY <1>1, NoRequest
  <2>3. table' = table
    BY <1>4, <1>8
  <2>4. Tables' /\ Starts'
    BY <1>1, <2>1, <2>2, <2>3, RulesKept
  <2>5. Pendings'
    BY <1>1, <1>4, <1>5, <2>1 DEF Pendings
  <2>6. Shapes'
    BY <1>1, <1>5, <2>3 DEF Shapes
  <2> QED BY <1>1, <2>4, <2>5, <2>6 DEF Workloads, Grants, Runs, LaunchWithinGrant, NoRunOverCap,
             Listening
<1>9. CASE a.to_network # {}
  <2>1. PICK l \in a.to_network : TRUE
    BY <1>9
  <2>2. LevelOf(pending', active_network') = l /\ table' = Plan(l, al)
    BY <1>4, <1>7, <1>9, <2>1, Unwrap
  <2>3. l \in NetworkLevel /\ NetworkAtMost(l, policy.network.max)
    BY <1>6, <2>1
  <2>4. /\ Within(table', l, al)
        /\ DOMAIN table' = {"present", "allow", "domains", "resolved"}
        /\ [table' EXCEPT !.resolved = {}] = Plan(l, al)
    BY <2>2, <2>3, PlanWithin
  <2>5. Tables'
    BY <1>1, <2>2, <2>4 DEF Tables
  <2>6. Starts'
    BY <1>1, <2>2, <2>4 DEF Starts
  <2>7. Pendings'
    BY <1>1, <1>4, <1>5, <2>2, <2>3 DEF Pendings
  <2>8. Shapes'
    BY <1>1, <1>5, <2>4 DEF Shapes
  <2> QED BY <1>1, <2>5, <2>6, <2>7, <2>8 DEF Workloads, Grants, Runs, LaunchWithinGrant,
             NoRunOverCap, Listening
<1> QED BY <1>8, <1>9

\* The levels follow the ruleset: the level in force stays what it was.
LEMMA CommitStep ==
  ASSUME ServerInv, CommitSetMode
  PROVE  ServerInv'
<1> USE DEF ServerInv
<1>1. /\ running = {} /\ granted = active_command /\ Enforced /\ agent' = "write"
      /\ UNCHANGED <<policy, root, table, proxy, starts, workload, granted, running, pending, client>>
  BY DEF CommitSetMode, Runs, Grants, history, Enforced, Listening
<1>2. PICK f \in AllFrames : pending = {f} /\ \E a \in f.args :
        /\ active_command' = UnwrapOr(a.to_command, active_command)
        /\ active_network' = UnwrapOr(a.to_network, active_network)
  BY DEF CommitSetMode, Pendings
<1>3. PICK a \in f.args :
        /\ active_command' = UnwrapOr(a.to_command, active_command)
        /\ active_network' = UnwrapOr(a.to_network, active_network)
  BY <1>2
<1>4. /\ LevelOf(pending, active_network) = active_network'
      /\ LevelOf(pending', active_network') = active_network'
      /\ CommandOf(pending', granted') = active_command'
  BY <1>1, <1>2, <1>3, Committed
<1>5. Tables' /\ Starts'
  BY <1>1, <1>4, RulesKept
<1>6. Pendings' /\ Grants' /\ Shapes' /\ Workloads'
  BY <1>1, <1>4 DEF Pendings, Grants, Shapes, Workloads, Listening
<1>7. Runs'
  BY <1>1 DEF Runs, LaunchWithinGrant, NoRunOverCap
<1> QED BY <1>5, <1>6, <1>7

\* The launch of a command, at the level its connection was told.
LEMMA LaunchStep ==
  ASSUME ServerInv, ReadLaunch
  PROVE  ServerInv'
<1> USE DEF ServerInv
<1>1. /\ pending = {} /\ granted = active_command /\ Enforced /\ agent' = "exec"
      /\ UNCHANGED <<policy, root, table, proxy, starts, granted, pending, active_command,
                     active_network>>
  BY DEF ReadLaunch, Pendings, Grants, Enforced, Listening
<1>2. PICK c \in Clients : \E f \in client[c].line : \E a \in f.args :
       /\ Refusal(f, policy, active_command) = {} /\ Handler(f) = "bash"
       /\ running' = {[frame |-> f, command |-> a.command,
                       timeout |-> EffectiveTimeout(f, policy),
                       cap |-> EffectiveOutputCap(f, policy)]}
       /\ TakeLine(c)
  BY DEF ReadLaunch
<1>3. PICK f \in client[c].line : \E a \in f.args :
       /\ Refusal(f, policy, active_command) = {} /\ Handler(f) = "bash"
       /\ running' = {[frame |-> f, command |-> a.command,
                       timeout |-> EffectiveTimeout(f, policy),
                       cap |-> EffectiveOutputCap(f, policy)]}
       /\ TakeLine(c)
  BY <1>2
<1>4. client' \in ClientType /\ f \in AllFrames
  BY <1>3, LineTaken
<1>5. /\ policy.max_runtime_secs \in Nat /\ policy.max_output_bytes \in Nat
      /\ \A l \in f.limits : l.timeout_ms \subseteq Nat /\ l.max_output_bytes \subseteq Nat
  <2>1. policy.max_runtime_secs \in Nat /\ policy.max_output_bytes \in Nat
    BY DEF Shapes
  <2>2. PICK d \in Clients : f \in FramesOf[d]
    BY <1>4 DEF AllFrames
  <2>3. \A l \in f.limits : l.timeout_ms \subseteq Nat /\ l.max_output_bytes \subseteq Nat
    BY <2>2, FramesAssumption
  <2> QED BY <2>1, <2>3
<1>6. \A r \in running' :
        /\ Allows(policy.command, granted, r.command)
        /\ r.frame = f /\ r.timeout = EffectiveTimeout(f, policy)
        /\ r.cap = EffectiveOutputCap(f, policy)
  <2>1. PICK a \in f.args :
          /\ Refusal(f, policy, active_command) = {} /\ Handler(f) = "bash"
          /\ running' = {[frame |-> f, command |-> a.command,
                          timeout |-> EffectiveTimeout(f, policy),
                          cap |-> EffectiveOutputCap(f, policy)]}
    BY <1>3
  <2>2. Allows(policy.command, granted, a.command)
    BY <1>1, <2>1, BashAccepted
  <2> DEFINE timeout == EffectiveTimeout(f, policy)
             cap == EffectiveOutputCap(f, policy)
             run == [frame |-> f, command |-> a.command, timeout |-> timeout, cap |-> cap]
  <2>3. \A r \in running' : r = run
    BY <2>1
  <2> HIDE DEF timeout, cap
  <2>4. run.frame = f /\ run.command = a.command /\ run.timeout = timeout /\ run.cap = cap
    OBVIOUS
  <2> HIDE DEF run
  <2> QED BY <2>2, <2>3, <2>4 DEF timeout, cap
<1>7. NoRunOverCap'
  BY <1>1, <1>5, <1>6, EffectiveCaps DEF NoRunOverCap
<1>8. Runs'
  BY <1>1, <1>6, <1>7 DEF Runs, LaunchWithinGrant
<1>9. Tables' /\ Starts'
  BY <1>1, RulesKept
<1>10. Pendings' /\ Grants' /\ Shapes' /\ Workloads'
  BY <1>1, <1>4, NoRequest DEF Pendings, Grants, Shapes, Workloads, Listening
<1> QED BY <1>8, <1>9, <1>10

\* serve_lines has written the answer: the connection now knows its level.
LEMMA WriteStep ==
  ASSUME ServerInv, WriteAnswer
  PROVE  ServerInv'
<1> USE DEF ServerInv
<1>1. /\ pending' = {} /\ running = {} /\ Enforced /\ agent' = "read"
      /\ UNCHANGED <<policy, root, table, proxy, starts, active_command, active_network, running,
                     workload>>
      /\ LevelOf(pending, active_network) = active_network
      /\ granted' = active_command
  BY DEF WriteAnswer, Pendings, Grants, Runs, Enforced, Listening, NoFrame, CommandOf, RequestOf,
         Requested
<1>2. client' \in ClientType
  <2>1. client \in ClientType
    BY DEF Shapes
  <2>2. PICK c \in Clients :
          client' = client \/ \E x \in ClientPc : client' = [client EXCEPT ![c].pc = x]
    BY DEF WriteAnswer, ClientPc
  <2>3. CASE client' = client
    BY <2>1, <2>3
  <2>4. CASE \E x \in ClientPc : client' = [client EXCEPT ![c].pc = x]
    <3>1. PICK x \in ClientPc : client' = [client EXCEPT ![c].pc = x]
      BY <2>4
    <3> QED BY <2>1, <3>1, ClientUpdates
  <2> QED BY <2>2, <2>3, <2>4
<1>3. LevelOf(pending', active_network') = active_network
  BY <1>1, NoRequest
<1>4. Tables' /\ Starts'
  BY <1>1, <1>3, RulesKept
<1>5. Pendings' /\ Grants' /\ Shapes' /\ Workloads'
  BY <1>1, <1>2, <1>3 DEF Pendings, Grants, Shapes, Workloads, Listening
<1>6. Runs'
  BY <1>1 DEF Runs, LaunchWithinGrant, NoRunOverCap
<1> QED BY <1>4, <1>5, <1>6

-----------------------------------------------------------------------------
(* Theorems. *)

\* The invariant is inductive: one step per action, grouped as above.
LEMMA ServerNext == ServerInv /\ [Next]_vars => ServerInv'
<1> SUFFICES ASSUME ServerInv, [Next]_vars PROVE ServerInv'
  OBVIOUS
<1>1. CASE Start
  BY <1>1, StartStep
<1>2. CASE ApplyBootFails \/ StartDnsProxyFails \/ ConnectionError \/ VmStops
  BY <1>2, EndSteps DEF ApplyBootFails, StartDnsProxyFails, ConnectionError
<1>3. CASE ApplyBoot
  BY <1>3, ApplyBootStep
<1>4. CASE StartDnsProxy \/ Accept \/ ReadEof
  BY <1>4, BetweenRequests
<1>5. CASE ReadRefused \/ ReadSetModeFails \/ ReadLsp \/ CommandReturns
  BY <1>5, PlainAnswers
<1>6. CASE ReadSetMode
  BY <1>6, SetModeStep
<1>7. CASE CommitSetMode
  BY <1>7, CommitStep
<1>8. CASE ReadLaunch
  BY <1>8, LaunchStep
<1>9. CASE WriteAnswer
  BY <1>9, WriteStep
<1>10. CASE ProxyForward \/ ProxyRespond
  BY <1>10, ProxySteps
<1>11. CASE ProxyAdmit \/ Expire
  BY <1>11, ResolvedSteps
<1>12. CASE \/ PollConnects \/ PollReports \/ HelperStopped
            \/ \E c \in Clients : DispatchThread(c) \/ HangUp(c)
  BY <1>12, HelperSteps
<1>13. CASE UNCHANGED vars
  <2>1. UNCHANGED coreVars /\ UNCHANGED client
    BY <1>13 DEF vars, agentVars, history, coreVars
  <2>2. client' \in ClientType
    BY <2>1 DEF ServerInv, Shapes
  <2> QED BY <2>1, <2>2, Quiet
<1> QED BY <1>1, <1>2, <1>3, <1>4, <1>5, <1>6, <1>7, <1>8, <1>9, <1>10, <1>11, <1>12, <1>13
        DEF Next, AgentStep

\* The invariant holds in every state of the agent.
LEMMA ServerInvariant == Spec => []ServerInv
BY ServerInit, ServerNext, PTL DEF Spec

\* Whenever the agent serves or a workload runs, the kernel's table lets it
\* reach nothing beyond the level in force, and that level is within the
\* policy's ceiling: through set_mode, late DNS answers, crashes and restarts.
THEOREM Egress == Spec => []EgressContained
<1>1. ServerInv => EgressContained
  <2> SUFFICES ASSUME ServerInv, root, policy.network_enabled, Listening \/ workload
               PROVE  /\ NetworkAtMost(LevelInForce, policy.network.max)
                      /\ \A a \in Addresses : Accepts(table, a) => a \in Permitted(LevelInForce)
    BY DEF EgressContained
  <2> DEFINE level == LevelOf(pending, active_network)
  <2>1. LevelInForce = level
    BY DEF LevelInForce, Requested, LevelOf, RequestOf
  <2>2. /\ level \in NetworkLevel /\ NetworkAtMost(level, policy.network.max)
        /\ Within(table, level, policy.network.allowlist)
    BY DEF ServerInv, Pendings, Workloads, Tables, Enforced
  <2> HIDE DEF level
  <2>3. level \in {"none", "allowlist", "full"}
    BY <2>2 DEF NetworkLevel, NetworkRank
  <2>4. Permitted("allowlist")
          = Literals(policy.network.allowlist) \cup Resolvable(policy.network.allowlist)
    BY DEF Permitted, Literals, Resolvable
  <2>5. Permitted("full") = Addresses
    BY DEF Permitted
  <2>6. \A a \in Addresses : Accepts(table, a) => a \in Permitted(level)
    BY <2>2, <2>3, <2>4, <2>5 DEF Within, Accepts
  <2> QED BY <2>1, <2>2, <2>6
<1> QED BY <1>1, ServerInvariant, PTL

\* Until the agent is started again, the table is the plan of the level in
\* force, resolved addresses aside.
THEOREM Ruleset == Spec => []RulesetAgrees
<1>1. ServerInv => RulesetAgrees
  BY DEF ServerInv, Starts, RulesetAgrees, Enforced, LevelInForce, Requested, LevelOf, RequestOf
<1> QED BY <1>1, ServerInvariant, PTL

\* Commands run only at the level their own connection was told.
THEOREM Launches == Spec => []LaunchWithinGrant
<1>1. ServerInv => LaunchWithinGrant
  BY DEF ServerInv, Runs
<1> QED BY <1>1, ServerInvariant, PTL

\* Commands run within the caps of the policy and of their request, also where
\* the checked product of the runtime cap wraps.
THEOREM Caps == Spec => []NoRunOverCap
<1>1. ServerInv => NoRunOverCap
  BY DEF ServerInv, Runs
<1> QED BY <1>1, ServerInvariant, PTL

\* A refusal, including that of a set_mode whose ruleset nft does not take,
\* changes no level, no rule and no command.
THEOREM Refusals == Spec => RefusalChangesNothing
<1> DEFINE Kept == UNCHANGED <<table, active_command, active_network, running>>
           Step == \A r \in answer' \ answer : r.status \in {"rejected", "malformed"} => Kept
<1>1. [Next]_vars => [Step]_vars
  <2> SUFFICES ASSUME Next PROVE Step
    OBVIOUS
  <2>1. CASE ReadRefused \/ ReadSetModeFails \/ ReadLsp
    BY <2>1 DEF ReadRefused, ReadSetModeFails, ReadLsp
  <2>2. CASE CommitSetMode
    <3>1. PICK f : answer' = {Data(f)}
      BY <2>2 DEF CommitSetMode
    <3>2. Data(f).status = "success"
      BY DEF Data, Reply
    <3> QED BY <3>1, <3>2
  <2>3. CASE CommandReturns
    <3>1. PICK r \in running :
            \E reply \in {Reply(r.frame.id, s, "") : s \in {"success", "failure"}}
                 \cup {Reply(r.frame.id, "timeout", "timeout_exceeded"), GuestError(r.frame)} :
              answer' = {reply}
      BY <2>3 DEF CommandReturns
    <3>2. PICK reply : /\ answer' = {reply}
                       /\ \/ \E s \in {"success", "failure"} : reply = Reply(r.frame.id, s, "")
                          \/ reply = Reply(r.frame.id, "timeout", "timeout_exceeded")
                          \/ reply = GuestError(r.frame)
      BY <3>1
    <3>3. reply.status \in {"success", "failure", "timeout"}
      <4>1. \A id, status, code : Reply(id, status, code).status = status
        BY DEF Reply
      <4>2. CASE \E s \in {"success", "failure"} : reply = Reply(r.frame.id, s, "")
        <5>1. PICK s \in {"success", "failure"} : reply = Reply(r.frame.id, s, "")
          BY <4>2
        <5>2. reply.status = s
          BY <4>1, <5>1, Zenon
        <5> QED BY <5>2
      <4>3. CASE reply = Reply(r.frame.id, "timeout", "timeout_exceeded")
        BY <4>1, <4>3
      <4>4. CASE reply = GuestError(r.frame)
        BY <4>1, <4>4 DEF GuestError
      <4> QED BY <3>2, <4>2, <4>3, <4>4
    <3> QED BY <3>2, <3>3
  <2>4. CASE \/ ApplyBootFails \/ StartDnsProxyFails \/ ConnectionError \/ VmStops \/ WriteAnswer
    BY <2>4 DEF ApplyBootFails, StartDnsProxyFails, ConnectionError, VmStops, WriteAnswer, Exit,
                NoFrame
  <2>5. CASE \/ Start \/ ApplyBoot \/ StartDnsProxy \/ Accept \/ ReadSetMode \/ ReadLaunch \/ ReadEof
    BY <2>5 DEF Start, ApplyBoot, StartDnsProxy, Accept, ReadSetMode, ReadLaunch, ReadEof
  <2>6. CASE \/ ProxyForward \/ ProxyRespond \/ ProxyAdmit \/ Expire
             \/ PollConnects \/ PollReports \/ HelperStopped
             \/ \E c \in Clients : DispatchThread(c) \/ HangUp(c)
    <3>1. UNCHANGED answer
      BY <2>6 DEF ProxyForward, ProxyRespond, ProxyAdmit, Expire, PollConnects, PollReports,
                  HelperStopped, DispatchThread, CheckReady, Connect, Send, ConnectionLost, HangUp,
                  agentVars
    <3> QED BY <3>1
  <2> QED BY <2>1, <2>2, <2>3, <2>4, <2>5, <2>6 DEF Next, AgentStep
<1>2. Spec => [][Step]_vars
  BY <1>1, PTL DEF Spec
<1> QED BY <1>2 DEF RefusalChangesNothing
=============================================================================
