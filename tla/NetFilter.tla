----------------------------- MODULE NetFilter -----------------------------
(***************************************************************************)
(* The pure parts of the guest's egress enforcement: the nftables plan of  *)
(* a network level, what the resulting table lets a workload reach, and    *)
(* the decisions of the DNS proxy about one query.                         *)
(*                                                                         *)
(* A destination is an address.  An allowlist entry of kind "v4" or "v6"   *)
(* carries the addresses it covers, one of kind "name" or "wild" the       *)
(* labels of its domain.  A queried name is a record of its labels and its *)
(* spelling, which normalisation drops.                                    *)
(***************************************************************************)
EXTENDS Policy

\* classify: anything that does not parse as an address is a domain.
Classify(entry) ==
  IF entry.kind = "v4" THEN "V4" ELSE IF entry.kind = "v6" THEN "V6" ELSE "Domain"

IsIpLiteral(entry) == Classify(entry) # "Domain"

NoTable == [present |-> FALSE, allow |-> {}, domains |-> FALSE, resolved |-> {}]

\* render_ruleset: a fresh table with a default-drop chain.  It replaces the
\* old one wholesale, the addresses resolved so far included.
Table(addresses, has_domains) ==
  [present |-> TRUE, allow |-> addresses, domains |-> has_domains, resolved |-> {}]

\* plan: full removes the table.
Plan(level, allowlist) ==
  CASE level = "full" -> NoTable
    [] level = "none" -> Table({}, FALSE)
    [] level = "allowlist" ->
         Table(UNION {e.covers : e \in {e \in Elements(allowlist) : IsIpLiteral(e)}},
               \E e \in Elements(allowlist) : ~IsIpLiteral(e))

\* What the output chain accepts of a new connection of a workload.
Accepts(table, address) ==
  ~table.present \/ address \in table.allow \/ address \in table.resolved

\* add_resolved: nft refuses the element when the set is not there.
AddResolved(table, addresses) ==
  IF table.domains THEN [table EXCEPT !.resolved = @ \cup addresses] ELSE table

\* normalize: case and trailing dots do not count.
Normalize(name) == name.labels

\* DomainMatcher::from_allowlist and matches.  A wildcard matches strict
\* subdomains only.
Matches(allowlist, name) ==
  \E e \in {e \in Elements(allowlist) : ~IsIpLiteral(e)} :
    LET have == Normalize(name)
        want == e.labels
    IN  \/ e.kind = "name" /\ have = want
        \/ /\ e.kind = "wild"
           /\ Len(have) > Len(want)
           /\ SubSeq(have, Len(have) - Len(want) + 1, Len(have)) = want

HasDomains(allowlist) == \E e \in Elements(allowlist) : ~IsIpLiteral(e)

\* Mutant: the allowlist level forwards every name.
ForwardsAnyName(level, allowlist, query) == query.parses /\ level # "none"

\* handle_query up to the upstream query: is the query forwarded?  A query of
\* the model asks one question; of several, the code matches only the first.
Forwards(level, allowlist, query) ==
  /\ query.parses
  /\ \/ level = "full"
     \/ level = "allowlist" /\ Matches(allowlist, query.name)

\* handle_query after it: the addresses to admit, given the upstream's answer.
Admits(level, answer) == IF level = "allowlist" THEN answer ELSE {}
=============================================================================
