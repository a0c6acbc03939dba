----------------------------- MODULE MCDispatch -----------------------------
(***************************************************************************)
(* Small instances of Dispatch for TLC: up to two topics and one export,   *)
(* and two executions of the dispatcher.                                   *)
(***************************************************************************)
EXTENDS Dispatch, TLC

CONSTANTS t1, t2, e1, d1, d2, d3, k1, k2, o1, o2

\* One topic in a domain of its own.
MCDomainOf == [r \in Topics \cup Exports |-> IF r = t2 THEN d2 ELSE d1]

\* Each of them in a domain of its own.
AllApart == [r \in Topics \cup Exports |->
                IF r = t1 THEN d1 ELSE IF r = t2 THEN d2 ELSE d3]

\* A floor above the interval, and bounds that cross: periods of 2 and of 1.
Floored2 == [interval |-> 1, min |-> 2, max |-> Null]
Crossed == [interval |-> 3, min |-> 2, max |-> 1]
OneCadence == {Floored2}
TwoCadences == {Floored2, Crossed}

Scheduled(c, due) == [life |-> "live", enabled |-> TRUE, cadence |-> c, due |-> due]

\* An installation that has been down: everything it schedules is overdue.
Backlog == { Scheduled(Floored2, 0) }

\* One whose rows may also be not created yet, or created and not scheduled.
AnyStart == { Scheduled(Floored2, 0), Scheduled(Crossed, Null),
              [Scheduled(Floored2, Null) EXCEPT !.life = "unborn"] }

\* One mishap between any two nodes: an execution dies, or a topic's domain is
\* deleted.
OneMishap == /\ crashes' + edits' <= 1
             /\ edits' # edits => gone' \in {{d1}, {d2}}

MishapSpec == Init /\ [][Next /\ OneMishap]_vars

\* Topics are alike, each taken with its domain.
Exchange == (t1 :> t2) @@ (t2 :> t1) @@ (d1 :> d2) @@ (d2 :> d1)
Symmetry == Permutations(Ticks) \cup {Exchange}
=============================================================================
