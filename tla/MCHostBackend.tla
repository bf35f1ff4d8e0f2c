---------------------------- MODULE MCHostBackend ----------------------------
(***************************************************************************)
(* HostBackend by itself on small sets of drivers, which are               *)
(* interchangeable.                                                        *)
(***************************************************************************)
EXTENDS HostBackend, TLC

Symmetry == Permutations(Driver)

=============================================================================
