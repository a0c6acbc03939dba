------------------------------ MODULE DueWork ------------------------------
(***************************************************************************)
(* What a schedule promises, whatever claims from it: a row is taken only  *)
(* while it is due, taking it is what stops it being due, and each taking  *)
(* is worked on at most once, by the pass that took it.  Work may be lost, *)
(* and is never invented or done again.                                    *)
(***************************************************************************)
CONSTANTS Rows, Passes

VARIABLES
    due,        \* the rows that are enabled and due
    owed,       \* the passes that have taken a row and not begun on it
    working     \* the passes that are working on it

vars == <<due, owed, working>>

Nobody == [r \in Rows |-> {}]

Init == due \subseteq Rows /\ owed = Nobody /\ working = Nobody

\* Time passes, or somebody edits the rows: any of them may become or cease due.
Reconsider ==
    /\ due' \in SUBSET Rows
    /\ UNCHANGED <<owed, working>>

Take(p, s) ==
    /\ due' = due \ s
    /\ owed' = [r \in Rows |-> IF r \in s THEN owed[r] \cup {p} ELSE owed[r]]
    /\ UNCHANGED working

Begin(p, r) ==
    /\ p \in owed[r]
    /\ \A q \in Rows : p \notin working[q]
    /\ owed' = [owed EXCEPT ![r] = @ \ {p}]
    /\ working' = [working EXCEPT ![r] = @ \cup {p}]
    /\ UNCHANGED due

Finish(p, r) ==
    /\ p \in working[r]
    /\ working' = [working EXCEPT ![r] = @ \ {p}]
    /\ UNCHANGED <<due, owed>>

\* A cap, a crash or a refused statement: the pass lets go of what it took.
LetGo(p, s) ==
    /\ owed' = [r \in Rows |-> IF r \in s THEN owed[r] \ {p} ELSE owed[r]]
    /\ working' = [r \in Rows |-> IF r \in s THEN working[r] \ {p} ELSE working[r]]
    /\ UNCHANGED due

Next ==
    \/ Reconsider
    \/ \E p \in Passes :
        \/ \E s \in SUBSET due : Take(p, s)
        \/ \E s \in SUBSET Rows : LetGo(p, s)
        \/ \E r \in Rows : Begin(p, r) \/ Finish(p, r)

Spec == Init /\ [][Next]_vars
=============================================================================
