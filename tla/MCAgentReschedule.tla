------------------------- MODULE MCAgentReschedule -------------------------
(***************************************************************************)
(* Two overlapping passes about one topic, for TLC.                        *)
(***************************************************************************)
EXTENDS AgentReschedule, TLC

CONSTANTS p1, p2

Symmetry == Permutations(Executions)
=============================================================================
