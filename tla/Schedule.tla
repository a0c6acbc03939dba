------------------------------ MODULE Schedule ------------------------------
(***************************************************************************)
(* The scheduling arithmetic of src/packages/service/src/lib/schedule.ts:  *)
(* the clamp both `ar-dispatch` claims write as SQL and the API calls as   *)
(* TypeScript, the batch cap, and the pause.                               *)
(*                                                                         *)
(* A cadence is the part of a schedulable row that says how often it runs: *)
(* interval_seconds, min_interval_seconds and max_interval_seconds.  A     *)
(* NULL bound, and a NULL next_run_at, are the constant Null.              *)
(***************************************************************************)
EXTENDS Integers, FiniteSets

CONSTANT Null   \* SQL NULL: an absent bound, or a row that is not scheduled

ASSUME NullAssumption == Null \notin Int

Cadence == [interval : Nat \ {0}, min : (Nat \ {0}) \cup {Null},
            max : (Nat \ {0}) \cup {Null}]

Floored(interval, min) == IF min = Null \/ interval >= min THEN interval ELSE min

\* Floor first, ceiling second: bounds that cross resolve to the ceiling.
ClampInterval(interval, c) ==
    LET floored == Floored(interval, c.min)
    IN  IF c.max = Null \/ floored <= c.max THEN floored ELSE c.max

\* One row's own proposal, brought inside its own bounds.
Period(c) == ClampInterval(c.interval, c)

\* A due time is held relative to the clock, so "now" is 0.  The base is the
\* later of the clock and the stored due time; the clamp applies to one cycle.
PauseFrom(due, cycles, c) == (IF due > 0 THEN due ELSE 0) + cycles * Period(c)

\* capBatch over the merged stream: topics ahead of exports, each in no order.
CapBatch(topics, exports, cap) ==
    { kept \in SUBSET (topics \cup exports) :
        /\ Cardinality(kept) <= cap
        /\ kept # topics \cup exports => Cardinality(kept) = cap
        /\ kept \cap exports # {} => topics \subseteq kept }
=============================================================================
