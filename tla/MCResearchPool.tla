--------------------------- MODULE MCResearchPool ---------------------------
(***************************************************************************)
(* Small instances of ResearchPool for TLC: one or two findings about one  *)
(* subject and its alias, two raises and two passes in flight.             *)
(***************************************************************************)
EXTENDS ResearchPool, TLC

CONSTANTS f1, f2, f3, root, alias, x1, x2, p1, p2

\* One finding is filed under the subject and the other under its alias.
MCEntityOf == [f \in Findings |-> IF f = f1 THEN root ELSE alias]
MCAliasOf == [e \in Entities |-> root]

\* One finding nobody has attributed.
OneUnattributed == [f \in Findings |-> IF f = f1 THEN Null ELSE root]

Symmetry == Permutations(Raisers) \cup Permutations(Passes)
=============================================================================
