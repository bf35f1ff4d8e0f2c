----------------------------- MODULE MCHostCreate -----------------------------
(***************************************************************************)
(* Small instances of HostCreate for TLC.                                  *)
(***************************************************************************)
EXTENDS HostCreate, TLC

Symmetry == Permutations(Driver \ Creator)

\* loopback_fallback_enabled reads a setting of the host: the creates of one
\* behaviour all make real VMs, or all run the guest directly.
OneTransport ==
  \E kind \in {VzPid, LoopbackPid} : \A p \in kind : helper[p] = "unused"

\* The second real VM is started while nobody else calls.
SecondAlone ==
  (\A p \in VzPid : helper[p] # "unused") => \A d \in Driver \ Creator : pc[d] = "idle"

=============================================================================
