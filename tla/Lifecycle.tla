------------------------------ MODULE Lifecycle ------------------------------
(***************************************************************************)
(* The lifecycle states of a sandbox instance and the transition table of  *)
(* LifecycleState (crates/petri/src/instance.rs).                          *)
(***************************************************************************)

\* enum LifecycleState.
LifecycleState == {"Provisioning", "Booting", "Ready", "RunningDispatch",
                   "Stopping", "Failed", "TornDown"}

\* LifecycleState::can_transition_to.
CanTransition(from, to) ==
  \/ from = "Provisioning" /\ to \in {"Booting", "Failed", "TornDown"}
  \/ from \in {"Booting", "RunningDispatch"} /\ to = "Ready"
  \/ from \in {"Booting", "Ready"} /\ to = "Stopping"
  \/ from \in {"Booting", "Ready", "RunningDispatch", "Stopping"} /\ to = "Failed"
  \/ from \in {"Booting", "Ready", "Stopping", "Failed"} /\ to = "TornDown"
  \/ from = "Ready" /\ to = "RunningDispatch"

=============================================================================
