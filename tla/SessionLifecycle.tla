-------------------------- MODULE SessionLifecycle --------------------------
(***************************************************************************)
(* What the audio-video controller promises its application: a session is   *)
(* down, up or closing; it is closed before it is opened again; a start is  *)
(* reported while it is up and a stop when its teardown is over.            *)
(***************************************************************************)
VARIABLES phase, told

vars == <<phase, told>>

Init == phase = "down" /\ told = "nothing"

\* A connection attempt begins: from the application, or a retry (which does
\* not always announce itself).
Open ==
  /\ phase = "down" /\ phase' = "up"
  /\ told' \in {told, "connecting"}

\* Connecting, reconnecting and renegotiating.
Work ==
  /\ phase = "up" /\ UNCHANGED phase
  /\ told' \in {"connecting", "started"}

\* The teardown begins, possibly in the turn that completed the connection.
Close ==
  /\ phase = "up" /\ phase' = "closing"
  /\ told' \in {told, "started"}

\* The teardown ends; a failed session that will be retried is not reported.
Closed ==
  /\ phase = "closing" /\ phase' = "down"
  /\ told' \in {told, "stopped"}

Next == Open \/ Work \/ Close \/ Closed

Spec == Init /\ [][Next]_vars

\* A teardown ends.
FairSpec == Spec /\ WF_vars(Closed)
=============================================================================
