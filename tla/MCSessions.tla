----------------------------- MODULE MCSessions -----------------------------
(***************************************************************************)
(* Small instances of Sessions for TLC.                                    *)
(***************************************************************************)
EXTENDS Sessions, TLC

CONSTANTS u1, w1, w2, l1, l2, q1, o1, o2

Symmetry ==
    Permutations(Passwords) \cup Permutations(Logouts)
=============================================================================
