----------------------------- MODULE MCScoring ------------------------------
(***************************************************************************)
(* A small instance of Scoring for TLC: two findings of two documents and  *)
(* one of another domain, and two lists of terms one of which files        *)
(* nothing under the second category.                                      *)
(***************************************************************************)
EXTENDS Scoring, TLC

CONSTANTS p1, p2, f1, f2, x, d1, d2, t1, t2, c1, c2

MCDocumentOf == [f \in Findings |-> IF f = f1 THEN d1 ELSE d2]

MCHandovers == {<<f1, f2>>, <<f2, f2, x>>}

MCDigest == [t \in TermLists |-> IF t = t2 THEN 1 ELSE 0]

MCMeasured == [t \in TermLists |-> IF t = t2 THEN {c1} ELSE {c1, c2}]

MCStatements == {{c1, c2}, {c2}}

\* One weighs nothing, and one has a negative weight.
MCWeightings == {[c \in Categories |-> IF c = c1 THEN 2 ELSE -1],
                 [c \in Categories |-> IF c = c1 THEN 0 ELSE 1]}

Symmetry == Permutations(Passes)
=============================================================================
