---------------------------- MODULE TelemetryMC ----------------------------
(***************************************************************************)
(* Calls of which any may be a stream are told apart by nothing else.      *)
(***************************************************************************)
EXTENDS Telemetry, TLC

Symmetry == Permutations(Streams) \cup Permutations(Tasks \ Traced)
=============================================================================
