------------------------ MODULE MCDeviceController ------------------------
(***************************************************************************)
(* DeviceController for TLC.  Streams and calls are only compared and chosen *)
(* by CHOOSE where any of them would do, so both are interchangeable in the *)
(* invariants that the run checks.                                          *)
(***************************************************************************)
EXTENDS DeviceController, TLC

Symmetry == Permutations(Streams) \cup Permutations(Calls)
=============================================================================
