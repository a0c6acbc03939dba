----------------------------- MODULE MCCapture -----------------------------
(***************************************************************************)
(* Small instances of Capture for TLC.  "before" is history: <<q, r>>      *)
(* where request q had ended when request r began.                         *)
(***************************************************************************)
EXTENDS Capture, TLC

CONSTANTS r1, r2, r3, b1, b2, b3, b4, e1, e2, c1, c2, g1, g2

VARIABLE before

MCvars == <<vars, before>>

\* Two wrappers of one page, which one config reads alike and the other does not;
\* a page that only the second config can read; and the first wrapper again, with
\* a member beside it that the contract does not name.
MCReading ==
    (g1 :> [b \in Bodies |-> IF b = b3 THEN Unreadable ELSE c1]) @@
    (g2 :> [b \in Bodies |-> IF b \in {b1, b4} THEN c2 ELSE c1])

MCEnvelope == [b \in Accepted |-> IF b = b2 THEN e2 ELSE e1]

MCInit == Init /\ before = {}

MCNext ==
    /\ Next
    /\ before' = before \cup
            {qr \in Requests \X Requests :
                /\ request[qr[1]].at \in Ended
                /\ request[qr[2]].at = "Load Domain Context"
                /\ request'[qr[2]].at = "Store Raw Capture"}

MCSpec == MCInit /\ [][MCNext]_MCvars

\* An item captured by requests that follow one another is filed once, whatever
\* else ran beside them; a second finding of it is the mark of an overlap, or of
\* a row that was read again as something else, whatever it was read as since.
FollowingCapturesFileOnce ==
    \A f, g \in findings :
        /\ <<f[1], g[1]>> \in before
        /\ Read(f[1]) = Read(g[1])
        => ReadAgain(f[1])

Symmetry == Permutations(Requests)
=============================================================================
