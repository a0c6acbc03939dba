------------------------------ MODULE MCIngest ------------------------------
(***************************************************************************)
(* Small instances of Ingest for TLC: passes over the sources of one       *)
(* domain, and items of which two are near duplicates.  "streak" and       *)
(* "overlapped" are history: the failures each source has had in a row,    *)
(* and whether two passes were ever at work on the sources together.       *)
(***************************************************************************)
EXTENDS Ingest, TLC

CONSTANTS p1, p2, p3, s1, s2, i1, i2, i3

VARIABLES streak, overlapped

MCvars == <<vars, streak, overlapped>>

\* i1 and i2 say nearly the same.
MCNear == {pair \in Items \X Items : pair[1] = pair[2] \/ pair \in {i1, i2} \X {i1, i2}}

\* Nothing, one record, or three of which the contract refuses one.
MCPayloads == {{}, {i1}, {i1, i2, i3}}

OneOrNothing == {{}, {i1}}

\* i3, which has no chunk worth a call, ranks first.
MCRelevance == [i \in Items |-> IF i = i1 THEN 1 ELSE IF i = i2 THEN 2 ELSE 3]

AtWork(p) ==
    pass[p].at \in {"Fetch Source Payload", "Write Documents", "Apply Source Health"}

MCInit == Init /\ streak = [s \in Sources |-> 0] /\ overlapped = FALSE

Applied(p) == (pass[p].judged)' \ pass[p].judged

MCNext ==
    /\ Next
    /\ streak' = [s \in Sources |->
            IF \E p \in Passes : s \in Applied(p)
            THEN IF \E p \in Passes : s \in Applied(p) /\ Succeeded(p, s)
                 THEN 0 ELSE streak[s] + 1
            ELSE streak[s]]
    /\ overlapped' = (overlapped \/ \E p, q \in Passes : p # q /\ AtWork(p)' /\ AtWork(q)')

MCSpec == MCInit /\ [][MCNext]_MCvars

\* One pass at most dies; another that is not heard of again is as good as dead.
OneDeath == Cardinality({p \in Passes : (pass[p].at)' = "stopped"}) <= 1

OneDeathSpec == MCInit /\ [][MCNext /\ OneDeath]_MCvars

\* Where passes over the sources follow one another, the counter is the number
\* of failures in a row and nothing ever lowers a flag; passes that stopped
\* before they judged a source have said nothing about it.
SequentialPassesCountEveryFailure ==
    ~ overlapped => \A s \in Sources :
        /\ sources[s].failures = streak[s]
        /\ streak[s] >= Threshold => sources[s].flagged

\* The flag is set by the pipeline and never cleared by it, as
\* src/lib/source-health.ts says of its own arithmetic.
FlagIsNeverCleared ==
    [][\A s \in Sources : sources[s].flagged => (sources[s].flagged)']_MCvars

Symmetry == Permutations(Passes) \cup Permutations(Sources)
=============================================================================
