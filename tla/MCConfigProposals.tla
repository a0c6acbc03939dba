------------------------- MODULE MCConfigProposals -------------------------
(***************************************************************************)
(* Small instances of ConfigProposals for TLC.                             *)
(***************************************************************************)
EXTENDS ConfigProposals, TLC

CONSTANTS p1, p2, r1, r2, r3

Symmetry == Permutations(Proposals) \cup Permutations(Rulings)
=============================================================================
