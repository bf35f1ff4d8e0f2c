----------------------------- MODULE StateRecord -----------------------------
(***************************************************************************)
(* What the callers of one instance may rely on, whoever drives it and     *)
(* however many drive it at once: the recorded lifecycle moves only along  *)
(* the table of Lifecycle, TornDown is final, a record is removed only     *)
(* once it says TornDown or can no longer be parsed, and a removed record  *)
(* does not come back.  HostBackend implements this specification.         *)
(***************************************************************************)
EXTENDS Lifecycle

VARIABLES life,      \* the lifecycle the record last held completely
          readable,  \* the record parses
          present    \* the record exists

recordVars == <<life, readable, present>>

Init ==
  /\ life = "Ready"
  /\ readable = TRUE
  /\ present = TRUE

\* A rewrite of the record begins: its old content is gone.
Truncate ==
  /\ present
  /\ \E to \in LifecycleState : CanTransition(life, to)
  /\ readable' = FALSE
  /\ UNCHANGED <<life, present>>

\* A rewrite completes.
MoveTo(to) ==
  /\ present /\ ~readable
  /\ CanTransition(life, to)
  /\ life' = to
  /\ readable' = TRUE
  /\ UNCHANGED present

Remove ==
  /\ present
  /\ readable => life = "TornDown"
  /\ present' = FALSE
  /\ UNCHANGED <<life, readable>>

Next ==
  \/ Truncate
  \/ \E to \in LifecycleState : MoveTo(to)
  \/ Remove

Spec == Init /\ [][Next]_recordVars

=============================================================================
