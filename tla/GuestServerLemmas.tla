------------------------- MODULE GuestServerLemmas -------------------------
(***************************************************************************)
(* What the proofs about the guest agent rest on: the checks of a frame,   *)
(* the inductive invariant, that it holds initially, and that the steps of *)
(* the DNS proxy, the kernel and the helper preserve it.                   *)
(***************************************************************************)
EXTENDS GuestServer, WellFoundedInduction, TLAPS

-----------------------------------------------------------------------------
(* The checks of a frame. *)

\* A nonempty set of naturals has a least element.
LEMMA LeastNat ==
  ASSUME NEW T \in SUBSET Nat, T # {}
  PROVE  \E x \in T : \A y \in T : x <= y
<1> DEFINE R == OpToRel(<, Nat)
<1>1. \E x \in T : \A y \in T : ~(<<y, x>> \in R)
  BY NatLessThanWellFounded, WFMin
<1>2. \A x, y \in Nat : <<y, x>> \in R <=> y < x
  BY DEF OpToRel
<1> HIDE DEF R
<1>3. PICK x \in T : \A y \in T : ~(<<y, x>> \in R)
  BY <1>1
<1>4. \A y \in T : ~(y < x)
  BY <1>2, <1>3
<1> QED BY <1>4

\* When FirstFailure finds none, no check of the sequence fails.
LEMMA NoFailure ==
  ASSUME NEW checks, Len(checks) \in Nat, FirstFailure(checks) = {}
  PROVE  \A i \in 1..Len(checks) : ~checks[i].fails
<1> SUFFICES ASSUME NEW i \in 1..Len(checks), checks[i].fails PROVE FALSE  OBVIOUS
<1> DEFINE T == {j \in 1..Len(checks) : checks[j].fails}
<1>1. T \in SUBSET Nat /\ T # {}
  OBVIOUS
<1>2. PICK m \in T : \A j \in T : m <= j
  BY <1>1, LeastNat
<1>3. \A j \in 1..(m - 1) : ~checks[j].fails
  BY <1>2
<1>4. checks[m].reply \in FirstFailure(checks)
  BY <1>2, <1>3 DEF FirstFailure
<1> QED BY <1>4

\* handle_set_mode acts only on a network level within the policy's ceiling.
LEMMA SetModeAccepted ==
  ASSUME NEW f, NEW p, NEW level, Refusal(f, p, level) = {}, Handler(f) = "set_mode",
         NEW a \in f.args
  PROVE  /\ a.to_network \subseteq NetworkLevel
         /\ \A l \in a.to_network : NetworkAtMost(l, p.network.max)
<1> DEFINE S == SetModeChecks(f, p)
<1>1. FirstFailure(S) = {}
  BY DEF Refusal, Handler, OrElse
<1>2. Len(S) = 8 /\ Len(S) \in Nat
  BY DEF SetModeChecks
<1>3. S[7].fails <=> \E b \in f.args : ~(b.to_network \subseteq NetworkLevel)
  BY DEF SetModeChecks, Check
<1>4. S[8].fails <=> \E b \in f.args : \E l \in b.to_network \cap NetworkLevel :
             ~NetworkAtMost(l, p.network.max)
  BY DEF SetModeChecks, Check
<1> HIDE DEF S
<1>5. \A i \in 1..Len(S) : ~S[i].fails
  BY <1>1, <1>2, NoFailure
<1>6. ~S[7].fails /\ ~S[8].fails
  BY <1>2, <1>5
<1> QED BY <1>3, <1>4, <1>6

\* handle_bash_command launches only what the policy allows at the level.
LEMMA BashAccepted ==
  ASSUME NEW f, NEW p, NEW level, Refusal(f, p, level) = {}, Handler(f) = "bash",
         NEW a \in f.args
  PROVE  Allows(p.command, level, a.command)
<1> DEFINE S == BashChecks(f, p, level)
<1>1. FirstFailure(S) = {}
  BY DEF Refusal, Handler, OrElse
<1>2. Len(S) = 5 /\ Len(S) \in Nat
  BY DEF BashChecks
<1>3. S[4].fails <=> \E b \in f.args : ~Allows(p.command, level, b.command)
  BY DEF BashChecks, Check
<1> HIDE DEF S
<1>4. \A i \in 1..Len(S) : ~S[i].fails
  BY <1>1, <1>2, NoFailure
<1>5. ~S[4].fails
  BY <1>2, <1>4
<1> QED BY <1>3, <1>5

\* What EffectiveTimeout and EffectiveOutputCap choose.
LEMMA LeastOf ==
  ASSUME NEW S \in SUBSET Nat, NEW cap \in Nat
  PROVE  Least(S \cup {cap}) <= cap /\ \A t \in S : Least(S \cup {cap}) <= t
<1>1. S \cup {cap} \in SUBSET Nat /\ S \cup {cap} # {}
  OBVIOUS
<1>2. \E t \in S \cup {cap} : \A u \in S \cup {cap} : t <= u
  BY <1>1, LeastNat
<1> QED BY <1>2 DEF Least

\* The caps of a run are the least of the policy's and the request's.
LEMMA EffectiveCaps ==
  ASSUME NEW f, NEW p, p.max_runtime_secs \in Nat, p.max_output_bytes \in Nat,
         \A l \in f.limits : l.timeout_ms \subseteq Nat /\ l.max_output_bytes \subseteq Nat
  PROVE  /\ EffectiveTimeout(f, p) <= p.max_runtime_secs * MsPerSec
         /\ EffectiveOutputCap(f, p) <= p.max_output_bytes
         /\ \A l \in f.limits :
              /\ \A t \in l.timeout_ms : EffectiveTimeout(f, p) <= t
              /\ \A b \in l.max_output_bytes : EffectiveOutputCap(f, p) <= b
<1> DEFINE cap == p.max_runtime_secs * MsPerSec
<1>1. cap \in Nat
  BY FrameAssumption
<1>2. PICK T : T = UNION {l.timeout_ms : l \in f.limits}
  OBVIOUS
<1>3. PICK B : B = UNION {l.max_output_bytes : l \in f.limits}
  OBVIOUS
<1>4. T \in SUBSET Nat /\ B \in SUBSET Nat
  BY <1>2, <1>3
<1>5. EffectiveTimeout(f, p) = Least(T \cup {cap})
  BY <1>2 DEF EffectiveTimeout
<1>6. EffectiveOutputCap(f, p) = Least(B \cup {p.max_output_bytes})
  BY <1>3 DEF EffectiveOutputCap
<1>7. \A l \in f.limits : l.timeout_ms \subseteq T /\ l.max_output_bytes \subseteq B
  BY <1>2, <1>3
<1> HIDE DEF cap
<1>8. /\ Least(T \cup {cap}) <= cap
      /\ \A t \in T : Least(T \cup {cap}) <= t
  BY <1>1, <1>4, LeastOf
<1>9. /\ Least(B \cup {p.max_output_bytes}) <= p.max_output_bytes
      /\ \A b \in B : Least(B \cup {p.max_output_bytes}) <= b
  BY <1>4, LeastOf
<1> QED BY <1>5, <1>6, <1>7, <1>8, <1>9 DEF cap

-----------------------------------------------------------------------------
(* The inductive invariant. *)

AllFrames == UNION {FramesOf[c] : c \in Clients}
ClientPc == {"idle", "checked", "open", "waiting", "broken", "hungup", "done", "failed"}
ClientType == [Clients -> [pc : ClientPc, line : SUBSET AllFrames, sent : Nat]]

\* Requested and LevelInForce as functions of the frame in progress.
RequestOf(p, axis) == UNION {a[axis] : a \in UNION {f.args : f \in p}}
LevelOf(p, network) == UnwrapOr(RequestOf(p, "to_network"), network)
CommandOf(p, command) == UnwrapOr(RequestOf(p, "to_command"), command)

Literals(allowlist) ==
  UNION {e.covers : e \in {e \in Elements(allowlist) : IsIpLiteral(e)}}
Resolvable(allowlist) ==
  UNION {DnsOf[Normalize(q.name)] : q \in {q \in Queries : Matches(allowlist, q.name)}}

\* A table that accepts no more than a level permits, and whose set of resolved
\* addresses is only there when the proxy may fill it.
Within(t, level, allowlist) ==
  level # "full" =>
    /\ t.present
    /\ level = "none" => t.allow = {} /\ t.resolved = {} /\ ~t.domains
    /\ level = "allowlist" =>
         t.allow \subseteq Literals(allowlist) /\ t.resolved \subseteq Resolvable(allowlist)

\* The table, the proxy and the connections have the fields the code gives them,
\* and a validated policy starts within its own ceiling.
Shapes ==
  /\ DOMAIN table = {"present", "allow", "domains", "resolved"}
  /\ DOMAIN proxy = {"pc", "level", "query", "add"}
  /\ client \in ClientType
  /\ policy.network.default \in NetworkLevel
  /\ NetworkAtMost(policy.network.default, policy.network.max)
  /\ NetworkAtMost("none", policy.network.max)
  /\ policy.max_runtime_secs \in Nat /\ policy.max_output_bytes \in Nat

\* The frame in progress, and the network level before and after its commit.
Pendings ==
  /\ pending = {} \/ \E f \in AllFrames : pending = {f}
  /\ agent \notin {"commit", "write"} => pending = {}
  /\ agent = "write" => LevelOf(pending, active_network) = active_network
  /\ agent = "boot" => active_network = policy.network.default
  /\ active_network \in NetworkLevel
  /\ NetworkAtMost(active_network, policy.network.max)
  /\ LevelOf(pending, active_network) \in NetworkLevel
  /\ NetworkAtMost(LevelOf(pending, active_network), policy.network.max)

\* A workload runs only under an agent that serves.
Workloads == workload => Listening

Enforced == agent = "dns" \/ Listening

\* From the boot rules on, the table is within the level in force; what the
\* proxy still holds is resolvable from the allowlist.
Tables ==
  /\ (root /\ policy.network_enabled /\ Enforced) =>
       Within(table, LevelOf(pending, active_network), policy.network.allowlist)
  /\ proxy.level = "allowlist" =>
       \A q \in proxy.query : q \in Queries /\ Matches(policy.network.allowlist, q.name)
  /\ proxy.add \subseteq Resolvable(policy.network.allowlist)

\* Until the agent starts again nobody else has touched the table.
Starts ==
  /\ starts \in Nat
  /\ starts = 0 => table = NoTable /\ ~Enforced /\ agent # "boot"
  /\ starts = 1 /\ agent = "boot" => table = NoTable
  /\ (root /\ policy.network_enabled /\ starts = 1 /\ Enforced) =>
       [table EXCEPT !.resolved = {}]
         = Plan(LevelOf(pending, active_network), policy.network.allowlist)

\* What the connection was told is the level its commands are checked at.
Grants ==
  /\ agent \in {"read", "commit", "exec"} => granted = active_command
  /\ agent = "write" => CommandOf(pending, granted) = active_command

Runs ==
  /\ running # {} => agent = "exec"
  /\ LaunchWithinGrant
  /\ NoRunOverCap

ServerInv == Shapes /\ Pendings /\ Workloads /\ Tables /\ Starts /\ Grants /\ Runs

-----------------------------------------------------------------------------
(* Lemmas about the operators of the invariant. *)

\* With no set_mode in progress nothing is requested.
LEMMA NoRequest ==
  ASSUME NEW n
  PROVE  LevelOf({}, n) = n /\ CommandOf({}, n) = n
BY DEF LevelOf, CommandOf, RequestOf, UnwrapOr

\* The options of the one argument record are what is requested.
LEMMA OneRequest ==
  ASSUME NEW f \in AllFrames, NEW a \in f.args
  PROVE  /\ RequestOf({f}, "to_network") = a.to_network
         /\ RequestOf({f}, "to_command") = a.to_command
         /\ \A l, m \in a.to_network : l = m
         /\ \A l, m \in a.to_command : l = m
<1>1. /\ \A b \in f.args : a = b
      /\ \A l, m \in a.to_network : l = m
      /\ \A l, m \in a.to_command : l = m
  BY FramesAssumption DEF AllFrames
<1>2. UNION {g.args : g \in {f}} = {a}
  BY <1>1
<1> QED BY <1>1, <1>2 DEF RequestOf

\* UnwrapOr of an option is its element, or the other value.
LEMMA Unwrap ==
  ASSUME NEW S, NEW n, \A l, m \in S : l = m
  PROVE  /\ S = {} => UnwrapOr(S, n) = n
         /\ \A l \in S : UnwrapOr(S, n) = l
BY DEF UnwrapOr

\* Committing what is requested leaves it requested: the level in force does
\* not change at the commit.
LEMMA Committed ==
  ASSUME NEW f \in AllFrames, NEW a \in f.args, NEW n, NEW m
  PROVE  /\ LevelOf({f}, n) = UnwrapOr(a.to_network, n)
         /\ LevelOf({f}, UnwrapOr(a.to_network, n)) = UnwrapOr(a.to_network, n)
         /\ CommandOf({f}, m) = UnwrapOr(a.to_command, m)
<1>1. /\ LevelOf({f}, n) = UnwrapOr(a.to_network, n)
      /\ CommandOf({f}, m) = UnwrapOr(a.to_command, m)
      /\ LevelOf({f}, UnwrapOr(a.to_network, n))
           = UnwrapOr(a.to_network, UnwrapOr(a.to_network, n))
  BY OneRequest DEF LevelOf, CommandOf
<1>2. UnwrapOr(a.to_network, UnwrapOr(a.to_network, n)) = UnwrapOr(a.to_network, n)
  BY DEF UnwrapOr
<1> QED BY <1>1, <1>2

\* The plan of a level accepts no more than the level permits.
LEMMA PlanWithin ==
  ASSUME NEW level \in NetworkLevel, NEW allowlist
  PROVE  /\ Within(Plan(level, allowlist), level, allowlist)
         /\ DOMAIN Plan(level, allowlist) = {"present", "allow", "domains", "resolved"}
         /\ [Plan(level, allowlist) EXCEPT !.resolved = {}] = Plan(level, allowlist)
<1>0. level \in {"none", "allowlist", "full"}
  BY DEF NetworkLevel, NetworkRank
<1>1. CASE level = "full"
  BY <1>1 DEF Plan, Within, NoTable
<1>2. CASE level = "none"
  BY <1>2 DEF Plan, Within, Table
<1>3. CASE level = "allowlist"
  <2>1. PICK d : Plan(level, allowlist) = Table(Literals(allowlist), d)
    BY <1>3 DEF Plan, Literals
  <2> QED BY <1>3, <2>1 DEF Within, Table
<1> QED BY <1>0, <1>1, <1>2, <1>3

\* A validated policy starts at a level within its ceiling.
LEMMA ValidPolicy ==
  ASSUME NEW raw \in RawPolicies, NEW p \in Validate(raw)
  PROVE  /\ p.network.default \in NetworkLevel
         /\ NetworkAtMost(p.network.default, p.network.max)
         /\ NetworkAtMost("none", p.network.max)
         /\ p.max_runtime_secs \in Nat /\ p.max_output_bytes \in Nat
<1>1. PICK n \in BuildNetworkPolicy(raw.network_enabled, raw.network) :
        /\ p.network = n
        /\ p.max_runtime_secs = raw.max_runtime_secs
        /\ p.max_output_bytes = raw.max_output_bytes
  BY DEF Validate
<1>2. /\ n.default \in NetworkLevel /\ n.max \in NetworkLevel
      /\ NetworkAtMost(n.default, n.max)
  BY DEF BuildNetworkPolicy, DisabledNetwork, NetworkLevel, NetworkRank, NetworkAtMost
<1>3. \A m \in NetworkLevel : NetworkAtMost("none", m)
  BY DEF NetworkLevel, NetworkRank, NetworkAtMost
<1> QED BY <1>1, <1>2, <1>3, PoliciesAssumption

\* The invariant holds when the guest has booted.
LEMMA ServerInit == Init => ServerInv
<1> SUFFICES ASSUME Init PROVE ServerInv
  OBVIOUS
<1>1. Shapes
  <2>1. PICK raw \in RawPolicies : policy \in Validate(raw)
    BY DEF Init
  <2>2. client \in ClientType
    <3>1. {} \in SUBSET AllFrames
      OBVIOUS
    <3>2. Idle \in [pc : ClientPc, line : SUBSET AllFrames, sent : Nat]
      BY <3>1 DEF Idle, NoFrame, ClientPc
    <3> QED BY <3>2 DEF Init, ClientType
  <2> QED BY <2>1, <2>2, ValidPolicy DEF Init, Shapes, NoTable
<1>2. Pendings
  <2>1. "none" \in NetworkLevel
    BY DEF NetworkLevel, NetworkRank
  <2> QED BY <1>1, <2>1, NoRequest DEF Init, Pendings, NoFrame, Shapes
<1>3. Workloads /\ Grants /\ Runs
  BY DEF Init, Workloads, Grants, Runs, LaunchWithinGrant, NoRunOverCap, NoFrame
<1>4. Tables /\ Starts
  BY DEF Init, Tables, Starts, Enforced, Listening, NoFrame
<1> QED BY <1>1, <1>2, <1>3, <1>4 DEF ServerInv

-----------------------------------------------------------------------------
(* Steps that concern neither the levels, the table nor the command. *)

coreVars == <<policy, root, agent, active_command, active_network, pending, running, table,
              proxy, granted, starts, workload>>

\* A step of the clients alone keeps the invariant.
LEMMA Quiet ==
  ASSUME ServerInv, UNCHANGED coreVars, client' \in ClientType
  PROVE  ServerInv'
<1> USE DEF coreVars, ServerInv
<1>1. Shapes'
  BY DEF Shapes, ClientType
<1>2. Pendings' /\ Workloads' /\ Grants'
  BY DEF Pendings, Workloads, Grants, Listening
<1>3. Tables' /\ Starts'
  BY DEF Tables, Starts, Enforced, Listening
<1>4. Runs'
  BY DEF Runs, LaunchWithinGrant, NoRunOverCap
<1> QED BY <1>1, <1>2, <1>3, <1>4

\* Updates of a connection's fields keep its type.
LEMMA RecordUpdates ==
  ASSUME NEW P, NEW L, NEW k \in [Clients -> [pc : P, line : L, sent : Nat]], NEW c \in Clients,
         NEW x \in P, NEW l \in L
  PROVE  /\ [k EXCEPT ![c].pc = x] \in [Clients -> [pc : P, line : L, sent : Nat]]
         /\ [k EXCEPT ![c].line = l] \in [Clients -> [pc : P, line : L, sent : Nat]]
         /\ [k EXCEPT ![c].pc = x, ![c].line = l] \in [Clients -> [pc : P, line : L, sent : Nat]]
         /\ [k EXCEPT ![c].pc = x, ![c].line = l, ![c].sent = @ + 1]
              \in [Clients -> [pc : P, line : L, sent : Nat]]
<1>1. [k EXCEPT ![c].pc = x] \in [Clients -> [pc : P, line : L, sent : Nat]]
  OBVIOUS
<1>2. [k EXCEPT ![c].line = l] \in [Clients -> [pc : P, line : L, sent : Nat]]
  OBVIOUS
<1>3. [k EXCEPT ![c].pc = x, ![c].line = l] \in [Clients -> [pc : P, line : L, sent : Nat]]
  OBVIOUS
<1>4. [k EXCEPT ![c].pc = x, ![c].line = l, ![c].sent = @ + 1]
              \in [Clients -> [pc : P, line : L, sent : Nat]]
  <2>1. PICK j \in [Clients -> [pc : P, line : L, sent : Nat]] :
          j = [k EXCEPT ![c].pc = x, ![c].line = l]
    BY <1>3
  <2>2. k[c].sent + 1 \in Nat
    OBVIOUS
  <2>3. [j EXCEPT ![c].sent = k[c].sent + 1] \in [Clients -> [pc : P, line : L, sent : Nat]]
    BY <2>2
  <2> QED BY <2>1, <2>3
<1> QED BY <1>1, <1>2, <1>3, <1>4

\* What clients and connections write to a client keeps its type.
LEMMA ClientUpdates ==
  ASSUME NEW k \in ClientType, NEW c \in Clients, NEW x \in ClientPc
  PROVE  /\ [k EXCEPT ![c].pc = x] \in ClientType
         /\ [k EXCEPT ![c].line = NoFrame] \in ClientType
         /\ [k EXCEPT ![c].pc = x, ![c].line = NoFrame] \in ClientType
         /\ \A f \in FramesOf[c] :
              [k EXCEPT ![c].pc = x, ![c].line = {f}, ![c].sent = @ + 1] \in ClientType
<1>1. NoFrame \in SUBSET AllFrames
  BY DEF NoFrame
<1>2. \A f \in FramesOf[c] : {f} \in SUBSET AllFrames
  BY DEF AllFrames
<1> QED BY <1>1, <1>2, RecordUpdates, Zenon DEF ClientType

\* The helper's poll, and the dispatch threads up to the agent's answer.
LEMMA HelperSteps ==
  ASSUME ServerInv,
         \/ PollConnects \/ PollReports \/ HelperStopped
         \/ \E c \in Clients : DispatchThread(c) \/ HangUp(c)
  PROVE  ServerInv'
<1>1. UNCHANGED coreVars
  BY DEF PollConnects, PollReports, HelperStopped, DispatchThread, CheckReady, Connect, Send,
         ConnectionLost, HangUp, coreVars, agentVars, history
<1>2. client' \in ClientType
  <2>0. client \in ClientType
    BY DEF ServerInv, Shapes, ClientType
  <2>1. CASE PollConnects \/ PollReports \/ HelperStopped
    BY <2>0, <2>1 DEF PollConnects, PollReports, HelperStopped
  <2>2. CASE \E c \in Clients : CheckReady(c) \/ Connect(c) \/ HangUp(c)
    <3>1. PICK c \in Clients : CheckReady(c) \/ Connect(c) \/ HangUp(c)
      BY <2>2
    <3>2. PICK x \in ClientPc : client' = [client EXCEPT ![c].pc = x]
      BY <3>1 DEF CheckReady, Connect, HangUp, ClientPc
    <3> QED BY <2>0, <3>2, ClientUpdates
  <2>3. CASE \E c \in Clients : Send(c)
    <3>0. PICK c \in Clients : Send(c)
      BY <2>3
    <3>1. PICK f \in FramesOf[c] :
            client' = [client EXCEPT ![c].pc = "waiting", ![c].line = {f}, ![c].sent = @ + 1]
      BY <3>0 DEF Send
    <3>2. "waiting" \in ClientPc
      BY DEF ClientPc
    <3> QED BY <2>0, <3>1, <3>2, ClientUpdates
  <2>4. CASE \E c \in Clients : ConnectionLost(c)
    <3>1. PICK c \in Clients :
            client' = [client EXCEPT ![c].pc = "failed", ![c].line = NoFrame]
      BY <2>4 DEF ConnectionLost
    <3>2. "failed" \in ClientPc
      BY DEF ClientPc
    <3> QED BY <2>0, <3>1, <3>2, ClientUpdates
  <2> QED BY <2>1, <2>2, <2>3, <2>4 DEF DispatchThread
<1> QED BY <1>1, <1>2, Quiet

-----------------------------------------------------------------------------
(* The DNS proxy and the kernel's timeouts. *)

\* What depends neither on the table nor on the proxy.
LEMMA LevelsKept ==
  ASSUME ServerInv,
         UNCHANGED <<policy, agent, active_command, active_network, pending, running, granted,
                     workload>>
  PROVE  Pendings' /\ Workloads' /\ Grants' /\ Runs'
BY DEF ServerInv, Pendings, Workloads, Grants, Runs, Listening, LaunchWithinGrant, NoRunOverCap

\* A table with some resolved addresses more or less: still within a level that
\* lets the proxy fill the set, and of the same plan.
LEMMA ResolvedWithin ==
  ASSUME NEW t, NEW level \in NetworkLevel, NEW allowlist, NEW new,
         DOMAIN t = {"present", "allow", "domains", "resolved"},
         Within(t, level, allowlist),
         \/ new \subseteq t.resolved
         \/ t.domains /\ new \subseteq t.resolved \cup Resolvable(allowlist)
  PROVE  /\ Within([t EXCEPT !.resolved = new], level, allowlist)
         /\ DOMAIN [t EXCEPT !.resolved = new] = DOMAIN t
         /\ [[t EXCEPT !.resolved = new] EXCEPT !.resolved = {}] = [t EXCEPT !.resolved = {}]
<1>0. level \in {"none", "allowlist", "full"}
  BY DEF NetworkLevel, NetworkRank
<1> DEFINE u == [t EXCEPT !.resolved = new]
<1>1. /\ DOMAIN u = DOMAIN t /\ u.resolved = new /\ u.present = t.present
      /\ u.allow = t.allow /\ u.domains = t.domains
  OBVIOUS
<1>2. [u EXCEPT !.resolved = {}] = [t EXCEPT !.resolved = {}]
  OBVIOUS
<1> HIDE DEF u
<1>3. Within(u, level, allowlist)
  BY <1>0, <1>1 DEF Within
<1> QED BY <1>1, <1>2, <1>3 DEF u

\* Neither an answer admitted by the DNS proxy nor the expiry of an address takes
\* the table beyond the level in force.
LEMMA ResolvedSteps ==
  ASSUME ServerInv, ProxyAdmit \/ Expire
  PROVE  ServerInv'
<1> DEFINE al == policy.network.allowlist
           level == LevelOf(pending, active_network)
<1>1. PICK new :
        /\ table' = table \/ table' = [table EXCEPT !.resolved = new]
        /\ \/ new \subseteq table.resolved
           \/ table.domains /\ new \subseteq table.resolved \cup Resolvable(al)
  <2>1. CASE ProxyAdmit
    BY <2>1 DEF ProxyAdmit, AddResolved, ServerInv, Tables
  <2>2. CASE Expire
    BY <2>2 DEF Expire
  <2> QED BY <2>1, <2>2
<1>2. /\ UNCHANGED <<policy, root, agent, active_command, active_network, pending, running,
                      granted, starts, workload, client>>
      /\ proxy' = proxy \/ proxy' = [proxy EXCEPT !.pc = "idle", !.add = {}]
  BY DEF ProxyAdmit, Expire, agentVars, history
<1>3. Pendings' /\ Workloads' /\ Grants' /\ Runs'
  BY <1>2, LevelsKept
<1>4. level \in NetworkLevel /\ level' = level
  BY <1>2 DEF ServerInv, Pendings
<1>5. DOMAIN proxy' = DOMAIN proxy /\ proxy'.level = proxy.level /\ proxy'.query = proxy.query
      /\ proxy'.add \subseteq proxy.add
  BY <1>2 DEF ServerInv, Shapes
<1>6. /\ DOMAIN table' = DOMAIN table
      /\ [table' EXCEPT !.resolved = {}] = [table EXCEPT !.resolved = {}]
  BY <1>1 DEF ServerInv, Shapes
<1>7. Shapes'
  BY <1>2, <1>5, <1>6 DEF ServerInv, Shapes
<1> HIDE DEF level
<1>8. Within(table, level, al) => Within(table', level, al)
  <2>1. CASE table' = table
    BY <2>1
  <2>2. CASE table' = [table EXCEPT !.resolved = new]
    <3>1. DOMAIN table = {"present", "allow", "domains", "resolved"}
      BY DEF ServerInv, Shapes
    <3> HIDE DEF al
    <3> QED BY <1>1, <1>4, <2>2, <3>1, ResolvedWithin
  <2> QED BY <1>1, <2>1, <2>2
<1>9. Tables'
  BY <1>2, <1>4, <1>5, <1>8 DEF ServerInv, Tables, Enforced, Listening, level
<1>10. Starts'
  <2>1. table' # table => starts # 0 /\ ~(starts = 1 /\ agent = "boot")
    BY <1>1, <1>2 DEF ServerInv, Starts, NoTable
  <2> QED BY <1>2, <1>4, <1>6, <2>1 DEF ServerInv, Starts, Enforced, Listening, level
<1> QED BY <1>3, <1>7, <1>9, <1>10 DEF ServerInv

\* The proxy asks only for names the allowlist matches, and admits only what
\* such a query resolved to.
LEMMA ProxySteps ==
  ASSUME ServerInv, ProxyForward \/ ProxyRespond
  PROVE  ServerInv'
<1>1. /\ UNCHANGED <<policy, root, agent, active_command, active_network, pending, running,
                      granted, starts, workload, client, table>>
  BY DEF ProxyForward, ProxyRespond, agentVars, history
<1>2. Pendings' /\ Workloads' /\ Grants' /\ Runs'
  BY <1>1, LevelsKept
<1>3. DOMAIN proxy' = {"pc", "level", "query", "add"}
  BY DEF ProxyForward, ProxyRespond, ServerInv, Shapes
<1>4. Shapes' /\ Starts'
  BY <1>1, <1>3 DEF ServerInv, Shapes, Starts, Enforced, Listening
<1>5. /\ proxy'.level = "allowlist" =>
            \A q \in proxy'.query : q \in Queries /\ Matches(policy.network.allowlist, q.name)
      /\ proxy'.add \subseteq Resolvable(policy.network.allowlist)
  <2>1. CASE ProxyForward
    BY <2>1 DEF ProxyForward, Forwards
  <2>2. CASE ProxyRespond
    <3>1. PICK q \in proxy.query : \E answered \in BOOLEAN :
            LET add == IF answered THEN Admits(proxy.level, DnsOf[Normalize(q.name)]) ELSE {}
            IN  proxy' = [proxy EXCEPT !.pc = IF add = {} THEN "idle" ELSE "admit",
                                       !.query = NoFrame, !.add = add]
      BY <2>2 DEF ProxyRespond
    <3>2. /\ proxy'.query = {}
          /\ proxy'.add = {} \/ proxy'.add = Admits(proxy.level, DnsOf[Normalize(q.name)])
      BY <3>1 DEF ServerInv, Shapes, NoFrame
    <3>3. Admits(proxy.level, DnsOf[Normalize(q.name)]) \subseteq Resolvable(policy.network.allowlist)
      BY DEF ServerInv, Tables, Admits, Resolvable
    <3> QED BY <3>2, <3>3
  <2> QED BY <2>1, <2>2
<1>6. Tables'
  BY <1>1, <1>5 DEF ServerInv, Tables, Enforced, Listening
<1> QED BY <1>2, <1>4, <1>6 DEF ServerInv
=============================================================================
