--------------------------- MODULE CircuitBreaker ---------------------------
(***************************************************************************)
(* The circuit breaker of service-core as a value and the four things its  *)
(* methods do to it.  The instant it opened is kept as whether the timeout *)
(* has elapsed since.                                                      *)
(***************************************************************************)
EXTENDS Integers

CONSTANT BreakerThreshold   \* consecutive failures before the circuit opens

ASSUME BreakerThresholdAssumption == BreakerThreshold \in Nat \ {0}

Breaker == [state    : {"closed", "open", "half-open"},
            failures : 0 .. BreakerThreshold - 1,
            elapsed  : BOOLEAN]

NewBreaker == [state |-> "closed", failures |-> 0, elapsed |-> FALSE]

TimeoutElapsed(b) == [b EXCEPT !.elapsed = TRUE]

\* What every reading of the state does first.
CheckTimeout(b) ==
    IF b.state = "open" /\ b.elapsed
    THEN [b EXCEPT !.state = "half-open", !.elapsed = FALSE] ELSE b

\* An open circuit refuses; a half-open one lets through whatever comes.
LetsThrough(b) == CheckTimeout(b).state # "open"

\* Mutant: closes the circuit and keeps the failures counted before.
OnSuccessKeepingFailures(b) == [b EXCEPT !.state = "closed", !.elapsed = FALSE]

\* A success closes the circuit from any state.
OnSuccess(b) == NewBreaker

\* A failure opens it when half-open or at the threshold, and again when open.
OnFailure(b) ==
    IF b.state = "half-open" \/ b.failures + 1 >= BreakerThreshold
    THEN [state |-> "open", failures |-> 0, elapsed |-> FALSE]
    ELSE [b EXCEPT !.failures = @ + 1]
=============================================================================
