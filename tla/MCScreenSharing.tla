-------------------------- MODULE MCScreenSharing ---------------------------
(* ScreenSharing for TLC: captures are only compared, so they are symmetric.  *)
EXTENDS ScreenSharing, TLC

Symmetry == Permutations(Streams)
=============================================================================
