-------------------------- MODULE MCServiceRuntime --------------------------
(***************************************************************************)
(* Small instances of ServiceRuntime for TLC.                              *)
(***************************************************************************)
EXTENDS ServiceRuntime, TLC

CONSTANTS q1, q2, q3, SIGTERM, SIGINT, uncaughtException

Symmetry == Permutations(Requests)
=============================================================================
