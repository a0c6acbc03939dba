---------------------------- MODULE SourceHealth ----------------------------
(***************************************************************************)
(* What one ending of a fetch makes of the health columns of a sources     *)
(* row: the arithmetic ar-ingest and ar-capture splice into their Judge    *)
(* nodes.  The two stamps move with the counter and are left out.          *)
(***************************************************************************)
EXTENDS Integers

CONSTANT Threshold      \* CONSECUTIVE_FAILURE_THRESHOLD

ASSUME ThresholdAssumption == Threshold \in Nat \ {0}

Health == [failures : Nat, flagged : BOOLEAN]

NeverFetched == [failures |-> 0, flagged |-> FALSE]

\* Mutant: a success leaves the count standing.
JudgedWithoutReset(prior, succeeded) ==
    LET failures == IF succeeded THEN prior.failures ELSE prior.failures + 1
    IN  [failures |-> failures,
         flagged  |-> prior.flagged \/ failures >= Threshold]

\* Mutant: the failure that comes next is counted already.
JudgedOneEarly(prior, succeeded) ==
    LET failures == IF succeeded THEN 0 ELSE prior.failures + 1
    IN  [failures |-> failures,
         flagged  |-> prior.flagged \/ failures + 1 >= Threshold]

\* A success starts the count again and leaves a flag standing; a failure adds
\* one, and raises the flag where the count has reached the threshold.
Judged(prior, succeeded) ==
    LET failures == IF succeeded THEN 0 ELSE prior.failures + 1
    IN  [failures |-> failures,
         flagged  |-> prior.flagged \/ failures >= Threshold]
=============================================================================
