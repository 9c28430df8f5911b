------------------------ MODULE MCRealtimeController ------------------------
(***************************************************************************)
(* RealtimeController for TLC.  The streams of a microphone are only        *)
(* compared, so they are interchangeable in the invariants of the run.      *)
(***************************************************************************)
EXTENDS RealtimeController, TLC

Symmetry == Permutations(Inputs)
=============================================================================
