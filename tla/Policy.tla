------------------------------ MODULE Policy ------------------------------
(***************************************************************************)
(* The policy document of petri-protocol: its two capability axes, their   *)
(* ordered levels, and the validation that turns a parsed document into a  *)
(* policy.  An Option of the code is a set with at most one element, and   *)
(* so is a Result: the empty set is None, or an error.                     *)
(*                                                                         *)
(* Names are abstracted to what validation tells apart.  A command is a    *)
(* string; NotExecutable are the ones that are empty or hold a blank or a  *)
(* separator.  An allowlist entry is a record whose kind says how its      *)
(* address part parses; the labels of a domain name are kept, because the  *)
(* DNS proxy matches suffixes of them.                                     *)
(***************************************************************************)
EXTENDS Integers, Sequences

CONSTANT NotExecutable

\* The derived order of the two enums is their order of declaration.
CommandRank == [none |-> 0, read_only |-> 1, edit |-> 2, yolo |-> 3]
CommandLevel == DOMAIN CommandRank
NetworkRank == [none |-> 0, allowlist |-> 1, full |-> 2]
NetworkLevel == DOMAIN NetworkRank

CommandAtMost(l, m) == CommandRank[l] <= CommandRank[m]
NetworkAtMost(l, m) == NetworkRank[l] <= NetworkRank[m]

\* Option::unwrap_or.
UnwrapOr(option, other) == IF option = {} THEN other ELSE CHOOSE x \in option : TRUE

Elements(seq) == {seq[i] : i \in 1..Len(seq)}
NoDuplicates(seq) == \A i, j \in 1..Len(seq) : seq[i] = seq[j] => i = j

\* CommandPolicy::allows: levels are cumulative.
Allows(command, level, name) ==
  \/ level = "yolo"
  \/ level \in {"read_only", "edit"} /\ name \in command.read_only
  \/ level = "edit" /\ name \in command.edit

IsExecutableName(name) == name \notin NotExecutable

ValidCommandSet(names) ==
  /\ \A n \in Elements(names) : IsExecutableName(n)
  /\ NoDuplicates(names)

\* The two shapes exclude each other and one of them is required.  The legacy
\* list is a fixed edit level; a table must name known levels in order.
BuildCommandPolicy(legacy, modern) ==
  { [default |-> "edit", max |-> "edit", read_only |-> {}, edit |-> Elements(names)] :
      names \in {n \in legacy : modern = {} /\ ValidCommandSet(n)} }
  \cup
  { [default |-> raw.default, max |-> raw.max,
     read_only |-> Elements(raw.read_only), edit |-> Elements(raw.edit)] :
      raw \in {r \in modern : /\ legacy = {}
                              /\ {r.default, r.max} \subseteq CommandLevel
                              /\ CommandAtMost(r.default, r.max)
                              /\ ValidCommandSet(r.read_only)
                              /\ ValidCommandSet(r.edit)} }

DisabledNetwork == [default |-> "none", max |-> "none", allowlist |-> <<>>]

ValidAllowlist(entries) ==
  /\ \A e \in Elements(entries) : e.kind \notin {"empty", "blank"}
  /\ NoDuplicates(entries)

\* Without a table the boot gate alone decides; a table requires the gate.
BuildNetworkPolicy(enabled, modern) ==
  (IF modern # {} THEN {}
   ELSE IF enabled THEN {[default |-> "full", max |-> "full", allowlist |-> <<>>]}
   ELSE {DisabledNetwork})
  \cup
  { [default |-> raw.default, max |-> raw.max, allowlist |-> raw.allowlist] :
      raw \in {r \in modern : /\ enabled
                              /\ {r.default, r.max} \subseteq NetworkLevel
                              /\ NetworkAtMost(r.default, r.max)
                              /\ ValidAllowlist(r.allowlist)} }

\* Policy::validate.
Validate(raw) ==
  { [network_enabled |-> raw.network_enabled, network |-> n, command |-> c,
     max_runtime_secs |-> raw.max_runtime_secs,
     max_output_bytes |-> raw.max_output_bytes] :
      c \in BuildCommandPolicy(raw.allowed_commands, raw.command),
      n \in {n \in BuildNetworkPolicy(raw.network_enabled, raw.network) :
               /\ raw.max_runtime_secs > 0
               /\ raw.max_output_bytes > 0
               /\ raw.workspace_absolute} }
=============================================================================
