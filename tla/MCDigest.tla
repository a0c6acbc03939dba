------------------------------ MODULE MCDigest ------------------------------
(***************************************************************************)
(* Small instances of Digest for TLC.                                      *)
(***************************************************************************)
EXTENDS Digest, TLC

CONSTANTS p1, p2, p3, f1, f2, f3

Symmetry == Permutations(Passes) \cup Permutations(Findings)
=============================================================================
