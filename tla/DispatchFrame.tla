--------------------------- MODULE DispatchFrame ---------------------------
(***************************************************************************)
(* One request frame of the dispatch protocol and the checks the guest     *)
(* makes of it before anything runs, in the order of the code.             *)
(*                                                                         *)
(* A frame is a record of what the checks look at.  line says how the text *)
(* parses ("object" is a JSON object); shaped, that it deserialises into a *)
(* DispatchRequest; id is "" or a request id.  control, tool, args and     *)
(* limits are options (sets of at most one element), as are the fields of  *)
(* args and limits.  An argument record serves all requests: ok says that  *)
(* it deserialises into the arguments its request needs.                   *)
(***************************************************************************)
EXTENDS NetFilter

CONSTANTS
  ProtocolVersion,
  LspTools,         \* the names is_lsp_tool accepts
  MsPerSec,         \* 1000 in the code
  U64               \* the width at which max_runtime_secs * 1000 wraps

ASSUME FrameAssumption == MsPerSec \in Nat \ {0} /\ U64 \in Nat \ {0}

\* ResultFrame, without the payload: which request it answers, and how.
Reply(id, status, code) == [id |-> id, status |-> status, code |-> code]
Rejected(f, code) == Reply(f.id, "rejected", code)
Malformed == Reply("", "malformed", "malformed_frame")
Data(f) == Reply(f.id, "success", "")
GuestError(f) == Reply(f.id, "failure", "guest_error")

\* The first check of a sequence that fails decides the reply.
FirstFailure(checks) ==
  {checks[i].reply : i \in {i \in 1..Len(checks) :
     checks[i].fails /\ \A j \in 1..(i - 1) : ~checks[j].fails}}

\* A failure, or else that of the checks that follow.
OrElse(failure, other) == IF failure # {} THEN failure ELSE other

Check(fails, reply) == [fails |-> fails, reply |-> reply]

\* The frame is an object that names its request in the right version.
EnvelopeChecks(f) ==
  << Check(f.line # "object", Malformed),
     Check(~f.shaped, Rejected(f, "invalid_request")),
     Check(f.id = "", Reply("", "rejected", "invalid_request")),
     Check(f.version # ProtocolVersion, Rejected(f, "unsupported_protocol_version")) >>

\* The caps a request may ask for.  The product wraps in the release build.
LimitChecks(f, policy) ==
  << Check(f.target, Rejected(f, "invalid_request")),
     Check(\E l \in f.limits : 0 \in l.timeout_ms \/ 0 \in l.max_output_bytes,
           Rejected(f, "invalid_request")),
     Check(\E l \in f.limits : \E t \in l.timeout_ms :
             t > (policy.max_runtime_secs * MsPerSec) % U64,
           Rejected(f, "policy_denied")),
     Check(\E l \in f.limits : \E b \in l.max_output_bytes : b > policy.max_output_bytes,
           Rejected(f, "policy_denied")) >>

\* canonical_workspace_cwd.
CwdAllowed(args) == args.cwd = "inside"

\* handle_bash_command up to the launch, at the connection's command level.
BashChecks(f, policy, level) ==
  << Check(f.args = {}, Rejected(f, "invalid_request")),
     Check(\E a \in f.args : ~a.ok, Rejected(f, "invalid_request")),
     Check(\E a \in f.args : ~IsExecutableName(a.command), Rejected(f, "invalid_request")),
     Check(\E a \in f.args : ~Allows(policy.command, level, a.command),
           Rejected(f, "policy_denied")),
     Check(\E a \in f.args : ~CwdAllowed(a), Rejected(f, "policy_denied")) >>

\* handle_set_mode up to the first change: both axes are checked first.
SetModeChecks(f, policy) ==
  << Check(f.target \/ f.tool # {}, Rejected(f, "invalid_request")),
     Check(f.args = {}, Rejected(f, "invalid_request")),
     Check(\E a \in f.args : ~a.ok, Rejected(f, "invalid_request")),
     Check(\E a \in f.args : a.to_command = {} /\ a.to_network = {},
           Rejected(f, "invalid_request")),
     Check(\E a \in f.args : ~(a.to_command \subseteq CommandLevel),
           Rejected(f, "invalid_request")),
     Check(\E a \in f.args : \E l \in a.to_command \cap CommandLevel :
             ~CommandAtMost(l, policy.command.max), Rejected(f, "policy_denied")),
     Check(\E a \in f.args : ~(a.to_network \subseteq NetworkLevel),
           Rejected(f, "invalid_request")),
     Check(\E a \in f.args : \E l \in a.to_network \cap NetworkLevel :
             ~NetworkAtMost(l, policy.network.max), Rejected(f, "policy_denied")) >>

\* handle_frame: which handler a frame reaches.
Handler(f) ==
  IF FirstFailure(EnvelopeChecks(f)) # {} THEN "none"
  ELSE IF f.control # {} THEN (IF "set_mode" \in f.control THEN "set_mode" ELSE "none")
  ELSE IF "bash_command" \in f.tool THEN "bash"
  ELSE IF f.tool \cap LspTools # {} THEN "lsp"
  ELSE "none"

\* handle_frame: the refusal of a frame, none when its handler goes on to act.
Refusal(f, policy, level) ==
  OrElse(FirstFailure(EnvelopeChecks(f)),
    IF f.control # {}
    THEN IF "set_mode" \in f.control THEN FirstFailure(SetModeChecks(f, policy))
         ELSE {Rejected(f, "invalid_request")}
    ELSE OrElse(FirstFailure(LimitChecks(f, policy)),
           IF "bash_command" \in f.tool THEN FirstFailure(BashChecks(f, policy, level))
           ELSE IF f.tool \cap LspTools # {} THEN {}
           ELSE {Rejected(f, IF f.tool = {} THEN "invalid_request" ELSE "unknown_tool")}))

\* Mutant: the larger of the two.
EffectiveTimeoutMax(f, policy) ==
  LET cap == policy.max_runtime_secs * MsPerSec
      asked == UNION {l.timeout_ms : l \in f.limits}
  IN  CHOOSE t \in asked \cup {cap} : \A u \in asked \cup {cap} : t >= u

\* Option::unwrap_or and min.
Least(S) == CHOOSE t \in S : \A u \in S : t <= u

EffectiveTimeout(f, policy) ==
  Least((UNION {l.timeout_ms : l \in f.limits}) \cup {policy.max_runtime_secs * MsPerSec})

EffectiveOutputCap(f, policy) ==
  Least((UNION {l.max_output_bytes : l \in f.limits}) \cup {policy.max_output_bytes})
=============================================================================
