--------------------------- MODULE DispatchProofs ---------------------------
(***************************************************************************)
(* Proofs about Dispatch, for every set of rows, ticks and operators, and  *)
(* every cap, cadence and bound; before them, what the arithmetic of       *)
(* Schedule guarantees, which the proofs about claims use.                 *)
(***************************************************************************)
EXTENDS Dispatch, FiniteSetTheorems, TLAPS

USE NullAssumption, RowsAssumption, CadenceAssumption, InitialRowsAssumption,
    CyclesAssumption, BatchCapAssumption, BoundsAssumption

-----------------------------------------------------------------------------
(* What the scheduling arithmetic guarantees, for every cadence and every  *)
(* due time.                                                               *)

\* A period is a positive number of seconds, so a claim always moves a row into
\* the future.  (clampIntervalSeconds over three positive columns.)
LEMMA PeriodIsPositive ==
    ASSUME NEW c \in Cadence
    PROVE  Period(c) \in Nat \ {0}
  BY NullAssumption DEF Cadence, Period, ClampInterval, Floored

\* A clamped interval is within its bounds where the bounds agree, and is the
\* ceiling where they cross: the ceiling is never exceeded, and only a ceiling
\* below it defeats the floor.  (clampIntervalSeconds: floor first, ceiling
\* second.)
THEOREM ClampWithinBounds ==
    ASSUME NEW c \in Cadence, NEW interval \in Nat \ {0}
    PROVE  /\ c.max # Null => ClampInterval(interval, c) <= c.max
           /\ c.min # Null /\ (c.max = Null \/ c.min <= c.max)
                => ClampInterval(interval, c) >= c.min
           /\ c.min # Null /\ c.max # Null /\ c.max < c.min
                => ClampInterval(interval, c) = c.max
           /\ ClampInterval(interval, c) \in {interval, c.min, c.max}
  BY NullAssumption DEF Cadence, ClampInterval, Floored

\* Clamping is settled in one pass: a clamped interval, clamped again by the
\* same bounds, is itself.  The agent's clamp before the write and the
\* dispatcher's at the next claim therefore agree.
THEOREM ClampIsIdempotent ==
    ASSUME NEW c \in Cadence, NEW interval \in Nat \ {0}
    PROVE  ClampInterval(ClampInterval(interval, c), c) = ClampInterval(interval, c)
  BY NullAssumption DEF Cadence, ClampInterval, Floored

\* A pause ends after the clock and after the time the row was due, by whole
\* periods: worked out from what is stored, it never pulls a row forward and
\* never leaves it overdue.  (pauseFrom's base, `now > nextRunAt`.)
THEOREM PauseEndsLater ==
    ASSUME NEW c \in Cadence, NEW due \in Int, NEW cycles \in Nat \ {0}
    PROVE  /\ PauseFrom(due, cycles, c) \in Int
           /\ PauseFrom(due, cycles, c) > 0
           /\ PauseFrom(due, cycles, c) > due
  <1> DEFINE p == Period(c)
  <1>1. p \in Nat \ {0}
    BY PeriodIsPositive
  <1>2. cycles * p \in Int /\ cycles * p > 0
    BY <1>1
  <1> HIDE DEF p
  <1>3. PauseFrom(due, cycles, c) = (IF due > 0 THEN due ELSE 0) + cycles * p
    BY DEF PauseFrom, p
  <1> QED
    BY <1>2, <1>3

-----------------------------------------------------------------------------
(* Lemmas about the helpers.                                               *)

LEMMA PeriodOfStored ==
    ASSUME NEW c \in Cadences
    PROVE  Period(c) \in Nat \ {0}
  BY PeriodIsPositive

LEMMA AgeType ==
    ASSUME NEW d \in DueTime
    PROVE  Age(d) \in DueTime
  BY DEF DueTime, Age

\* What a claim takes is enabled and due, and no more than the cap.
LEMMA ClaimableIsDue ==
    ASSUME NEW table \in SUBSET Rows, NEW s \in Claimable(table)
    PROVE  /\ s \subseteq table
           /\ Cardinality(s) <= BatchCap
           /\ \A r \in s : Eligible(r)
  BY DEF Claimable

LEMMA RowFields ==
    ASSUME TypeOK, NEW r \in Rows
    PROVE  /\ row[r] \in RowRecord
           /\ row[r].life \in Lives
           /\ row[r].enabled \in BOOLEAN
           /\ row[r].cadence \in Cadences
           /\ row[r].due \in DueTime
  BY DEF TypeOK, RowRecord

\* Every statement that writes a row writes one or two of its columns.
LEMMA RowWrites ==
    ASSUME NEW x \in RowRecord
    PROVE  /\ \A d \in DueTime : [x EXCEPT !.due = d] \in RowRecord
           /\ \A l \in Lives : [x EXCEPT !.life = l] \in RowRecord
           /\ \A c \in Cadences, on \in BOOLEAN :
                [x EXCEPT !.cadence = c, !.enabled = on] \in RowRecord
  BY DEF RowRecord

-----------------------------------------------------------------------------
(* The types.                                                              *)

LEMMA InitType == Init => TypeOK
  <1> SUFFICES ASSUME Init PROVE TypeOK
    OBVIOUS
  <1>1. row \in [Rows -> RowRecord]
    BY DEF Init, RowRecord, Lives
  <1>2. NoRun \in RunRow
    BY DEF NoRun, RunRow
  <1>3. NoRequest \in Request
    BY DEF NoRequest, Request, DueTime
  <1>4. /\ gone \subseteq Domains
        /\ pc \in [Ticks -> Nodes]
        /\ unit \in [Ticks -> [Rows -> UnitStates]]
    BY DEF Init, Nodes, UnitStates
  <1>5. /\ run \in [Ticks -> [Rows -> RunRow]]
        /\ req \in [Operators -> Request]
    BY <1>2, <1>3 DEF Init
  <1> QED
    BY <1>1, <1>4, <1>5 DEF Init, TypeOK

LEMMA ClaimType ==
    ASSUME TypeOK, NEW t \in Ticks, NEW s \in SUBSET Rows, Claim(t, s)
    PROVE  /\ row' \in [Rows -> RowRecord]
           /\ hold' \in [Rows -> Nat]
  <1>1. ASSUME NEW r \in Rows
        PROVE  [row[r] EXCEPT !.due = Period(row[r].cadence)] \in RowRecord
    <2>1. Period(row[r].cadence) \in DueTime
      BY RowFields, PeriodOfStored DEF DueTime
    <2> QED
      BY <2>1, RowFields DEF RowRecord
  <1>2. \A r \in Rows : Period(row[r].cadence) \in Nat
    BY RowFields, PeriodOfStored
  <1> QED
    BY <1>1, <1>2 DEF Claim, TypeOK

LEMMA CloseRunsType ==
    ASSUME TypeOK, NEW t \in Ticks, NEW units, NEW status, NEW entries,
           CloseRuns(t, units, status, entries),
           status \in {"ok", "partial", "failed"},
           entries \subseteq {"target", "dispatcher"}
    PROVE  run' \in [Ticks -> [Rows -> RunRow]]
  <1>1. ASSUME NEW r \in Rows
        PROVE  [status |-> status, finished |-> TRUE,
                errors |-> run[t][r].errors \cup entries] \in RunRow
    <2>1. run[t][r].errors \subseteq {"target", "dispatcher"}
      BY DEF TypeOK, RunRow
    <2>2. run[t][r].errors \cup entries \subseteq {"target", "dispatcher"}
      BY <2>1
    <2> QED
      BY <2>2 DEF RunRow
  <1> QED
    BY <1>1 DEF CloseRuns, TypeOK

LEMMA NextType == TypeOK /\ [Next]_vars => TypeOK'
  <1> SUFFICES ASSUME TypeOK, [Next]_vars PROVE TypeOK'
    OBVIOUS
  <1> USE DEF tickVars, counters
  <1>0. CASE UNCHANGED vars
    BY <1>0 DEF vars, TypeOK
  <1>1. CASE Advance
    <2>1. \A r \in Rows : [row[r] EXCEPT !.due = Age(@)] \in RowRecord
      BY RowFields, AgeType, RowWrites
    <2>2. ASSUME NEW o \in Operators
          PROVE  [req[o] EXCEPT !.target = Age(@)] \in Request
      <3>1. CASE req[o] = NoRequest
        BY <3>1 DEF NoRequest, Age, Request
      <3>2. CASE req[o] \in [verb : {"runNow", "pause"}, row : Rows, target : DueTime]
        BY <3>2, AgeType DEF Request
      <3> QED
        BY <3>1, <3>2 DEF TypeOK, Request
    <2>3. \A r \in Rows : (IF hold[r] > 0 THEN hold[r] - 1 ELSE 0) \in Nat
      BY DEF TypeOK
    <2> QED
      BY <1>1, <2>1, <2>2, <2>3 DEF Advance, TypeOK
  <1>2. ASSUME NEW t \in Ticks, TickStep(t)
        PROVE  TypeOK'
    <2>1. CASE ClaimDueTopics(t)
      <3>1. PICK s \in Claimable(Topics) :
                /\ Claim(t, s)
                /\ unit' = [unit EXCEPT ![t] =
                              [r \in Rows |-> IF r \in s THEN "claimed" ELSE "none"]]
        BY <2>1 DEF ClaimDueTopics
      <3>2. s \subseteq Rows
        BY ClaimableIsDue DEF Rows
      <3>3. unit' \in [Ticks -> [Rows -> UnitStates]]
        BY <3>1 DEF TypeOK, UnitStates
      <3>4. run' \in [Ticks -> [Rows -> RunRow]]
        BY <2>1 DEF ClaimDueTopics, TypeOK, NoRun, RunRow
      <3> QED
        BY <2>1, <3>1, <3>2, <3>3, <3>4, ClaimType DEF ClaimDueTopics, TypeOK, Nodes
    <2>2. CASE ClaimDueExportSubscriptions(t)
      <3>1. PICK s \in Claimable(Exports) :
                /\ Claim(t, s)
                /\ unit' = [unit EXCEPT ![t] =
                              [r \in Rows |-> IF r \in s THEN "claimed" ELSE @[r]]]
        BY <2>2 DEF ClaimDueExportSubscriptions
      <3>2. s \subseteq Rows
        BY ClaimableIsDue DEF Rows
      <3>3. unit' \in [Ticks -> [Rows -> UnitStates]]
        BY <3>1 DEF TypeOK, UnitStates
      <3> QED
        BY <2>2, <3>1, <3>2, <3>3, ClaimType
           DEF ClaimDueExportSubscriptions, TypeOK, Nodes
    <2>3. CASE PlanDispatch(t)
      <3>1. unit' \in [Ticks -> [Rows -> UnitStates]]
        BY <2>3 DEF PlanDispatch, TypeOK, UnitStates
      <3> QED
        BY <2>3, <3>1 DEF PlanDispatch, TypeOK, Nodes
    <2>4. CASE OpenRun(t)
      <3>1. NoRun \in RunRow /\ OpenedRun \in RunRow
        BY DEF NoRun, OpenedRun, RunRow
      <3> QED
        BY <2>4, <3>1 DEF OpenRun, TypeOK, Nodes
    <2>5. CASE OpenRunRefused(t)
      BY <2>5 DEF OpenRunRefused, TypeOK, Nodes
    <2>6. ASSUME NEW r \in Rows, InvokeTargetWorkflow(t, r)
          PROVE  TypeOK'
      BY <2>6 DEF InvokeTargetWorkflow, TypeOK, UnitStates
    <2>7. ASSUME NEW r \in Rows, NEW said \in Answered, TargetAnswers(t, r, said)
          PROVE  TypeOK'
      <3>1. StatusSaid[said] \in {"ok", "partial", "failed"}
        BY DEF StatusSaid, Answered
      <3>2. run' \in [Ticks -> [Rows -> RunRow]]
        <4> DEFINE units == {r}
                   status == StatusSaid[said]
                   entries == IF said \in Failures THEN {"target"} ELSE {}
        <4>1. CloseRuns(t, units, status, entries)
          BY <2>7 DEF TargetAnswers
        <4>2. /\ units \in SUBSET Rows
              /\ status \in {"ok", "partial", "failed"}
              /\ entries \in SUBSET {"target", "dispatcher"}
          BY <3>1
        <4> HIDE DEF units, status, entries
        <4> QED
          BY <4>1, <4>2, CloseRunsType
      <3>3. unit' \in [Ticks -> [Rows -> UnitStates]]
        BY <2>7 DEF TargetAnswers, TypeOK, UnitStates, Settled
      <3> QED
        BY <2>7, <3>2, <3>3 DEF TargetAnswers, TypeOK
    <2>8. ASSUME NEW r \in Rows, NEW how \in {"noItems", "raised"}, TargetEnds(t, r, how)
          PROVE  TypeOK'
      BY <2>8 DEF TargetEnds, TypeOK, UnitStates, Settled
    <2>9. CASE CloseRunSucceeded(t)
      <3>1. run' \in [Ticks -> [Rows -> RunRow]]
        BY <2>9, CloseRunsType DEF CloseRunSucceeded, UnitsIn
      <3> QED
        BY <2>9, <3>1 DEF CloseRunSucceeded, TypeOK, Nodes
    <2>10. CASE CloseRunFailed(t)
      <3>1. run' \in [Ticks -> [Rows -> RunRow]]
        BY <2>10, CloseRunsType DEF CloseRunFailed, UnitsIn
      <3> QED
        BY <2>10, <3>1 DEF CloseRunFailed, TypeOK, Nodes
    <2> QED
      BY <1>2, <2>1, <2>2, <2>3, <2>4, <2>5, <2>6, <2>7, <2>8, <2>9, <2>10 DEF TickStep
  <1>3. ASSUME NEW t \in Ticks, Crash(t)
        PROVE  TypeOK'
    BY <1>3 DEF Crash, TypeOK, Nodes
  <1>4. CASE ApiStep
    <2>1. ASSUME NEW r \in Rows, NEW c \in Cadences, NEW on \in BOOLEAN, CreateRow(r, c, on)
          PROVE  TypeOK'
      <3>1. [life |-> "live", enabled |-> on, cadence |-> c, due |-> Null] \in RowRecord
        BY DEF RowRecord, Lives, DueTime
      <3> QED
        BY <2>1, <3>1 DEF CreateRow, Edit, TypeOK
    <2>2. ASSUME NEW r \in Rows, NEW c \in Cadences, NEW on \in BOOLEAN, PatchRow(r, c, on)
          PROVE  TypeOK'
      <3>1. [row[r] EXCEPT !.cadence = c, !.enabled = on] \in RowRecord
        BY RowFields, RowWrites
      <3>2. row' = [row EXCEPT ![r] = [row[r] EXCEPT !.cadence = c, !.enabled = on]]
        BY <2>2 DEF PatchRow, TypeOK, RowRecord
      <3> QED
        BY <2>2, <3>1, <3>2 DEF PatchRow, Edit, TypeOK
    <2>3. ASSUME NEW r \in Rows, DeleteRow(r)
          PROVE  TypeOK'
      <3>1. [row[r] EXCEPT !.life = "deleted"] \in RowRecord
        BY RowFields, RowWrites DEF Lives
      <3> QED
        BY <2>3, <3>1 DEF DeleteRow, Edit, TypeOK
    <2>4. ASSUME NEW d \in Domains, DeleteDomain(d)
          PROVE  TypeOK'
      <3>1. row' \in [Rows -> RowRecord]
        BY <2>4, RowFields, RowWrites DEF DeleteDomain, TypeOK, Lives
      <3>2. run' \in [Ticks -> [Rows -> RunRow]]
        BY <2>4 DEF DeleteDomain, TypeOK, NoRun, RunRow
      <3> QED
        BY <2>4, <3>1, <3>2 DEF DeleteDomain, Edit, TypeOK
    <2>5. ASSUME NEW o \in Operators, NEW r \in Rows, BeginRunNow(o, r)
          PROVE  TypeOK'
      <3>1. [verb |-> "runNow", row |-> r, target |-> Null] \in Request
        BY DEF Request, DueTime
      <3> QED
        BY <2>5, <3>1 DEF BeginRunNow, Edit, TypeOK
    <2>6. ASSUME NEW o \in Operators, NEW r \in Topics, NEW n \in PauseCycles,
                 BeginPause(o, r, n)
          PROVE  TypeOK'
      <3> r \in Rows
        BY DEF Rows
      <3>1. row[r].due \in Int /\ row[r].cadence \in Cadence
        BY <2>6, RowFields DEF BeginPause, DueTime
      <3>2. PauseFrom(row[r].due, n, row[r].cadence) \in DueTime
        <4>1. n \in Nat \ {0}
          OBVIOUS
        <4>2. /\ PauseFrom(row[r].due, n, row[r].cadence) \in Int
              /\ PauseFrom(row[r].due, n, row[r].cadence) > 0
          BY <3>1, <4>1, PauseEndsLater
        <4> QED
          BY <4>2 DEF DueTime
      <3>3. [verb |-> "pause", row |-> r,
             target |-> PauseFrom(row[r].due, n, row[r].cadence)] \in Request
        BY <3>2 DEF Request
      <3> QED
        BY <2>6, <3>3 DEF BeginPause, Edit, TypeOK
    <2>7. ASSUME NEW o \in Operators, WriteSchedule(o)
          PROVE  TypeOK'
      <3> DEFINE due == IF req[o].verb = "runNow" THEN 0 ELSE req[o].target
      <3>1. req[o] \in [verb : {"runNow", "pause"}, row : Rows, target : DueTime]
        BY <2>7 DEF WriteSchedule, TypeOK, Request
      <3>2. due \in DueTime
        BY <3>1 DEF DueTime
      <3>3. req' \in [Operators -> Request]
        BY <2>7 DEF WriteSchedule, TypeOK, Request
      <3>4. CASE row[req[o].row].life = "live"
        <4>1. [row EXCEPT ![req[o].row].due = due] \in [Rows -> RowRecord]
          BY <3>1, <3>2, RowFields, RowWrites DEF TypeOK
        <4>2. hold' \in [Rows -> Nat]
          BY <2>7, <3>4 DEF WriteSchedule, TypeOK
        <4> QED
          BY <2>7, <3>3, <3>4, <4>1, <4>2 DEF WriteSchedule, TypeOK
      <3>5. CASE row[req[o].row].life # "live"
        BY <2>7, <3>3, <3>5 DEF WriteSchedule, TypeOK
      <3> QED
        BY <3>4, <3>5
    <2> QED
      BY <1>4, <2>1, <2>2, <2>3, <2>4, <2>5, <2>6, <2>7 DEF ApiStep
  <1> QED
    BY <1>0, <1>1, <1>2, <1>3, <1>4 DEF Next

\* Every variable keeps its type: each due time that is written, by a claim, by
\* a run-now or by a pause, is one the schedule can hold.
THEOREM TypeCorrect == Spec => []TypeOK
  BY InitType, NextType, PTL DEF Spec

-----------------------------------------------------------------------------
(* Claims keep their distance.  What a claim granted is remembered in hold *)
(* and stored in due, and only an operator's write parts the two.          *)

HoldIsDue ==
    \A r \in Rows :
        /\ hold[r] = 0 \/ row[r].due = hold[r]
        /\ row[r].life = "unborn" => hold[r] = 0

LEMMA InitHold == Init => HoldIsDue
  BY DEF Init, HoldIsDue

LEMMA ClaimHold ==
    ASSUME TypeOK, HoldIsDue, NEW t \in Ticks, NEW s \in SUBSET Rows,
           \A r \in s : Eligible(r), Claim(t, s)
    PROVE  HoldIsDue'
  <1> SUFFICES ASSUME NEW r \in Rows
               PROVE  /\ hold'[r] = 0 \/ row'[r].due = hold'[r]
                      /\ row'[r].life = "unborn" => hold'[r] = 0
    BY DEF HoldIsDue
  <1>1. CASE r \in s
    BY <1>1, RowFields DEF Claim, Eligible, RowRecord
  <1>2. CASE r \notin s
    BY <1>2 DEF Claim, HoldIsDue
  <1> QED
    BY <1>1, <1>2

LEMMA NextHold == TypeOK /\ HoldIsDue /\ [Next]_vars => HoldIsDue'
  <1> SUFFICES ASSUME TypeOK, HoldIsDue, [Next]_vars PROVE HoldIsDue'
    OBVIOUS
  <1> USE DEF tickVars, counters
  <1>0. ASSUME UNCHANGED <<row, hold>>
        PROVE  HoldIsDue'
    BY <1>0 DEF HoldIsDue
  <1>1. CASE Advance
    <2> SUFFICES ASSUME NEW r \in Rows
                 PROVE  /\ hold'[r] = 0 \/ row'[r].due = hold'[r]
                        /\ row'[r].life = "unborn" => hold'[r] = 0
      BY DEF HoldIsDue
    <2>1. /\ row'[r].due = Age(row[r].due)
          /\ row'[r].life = row[r].life
          /\ hold'[r] = IF hold[r] > 0 THEN hold[r] - 1 ELSE 0
      BY <1>1, RowFields DEF Advance, RowRecord
    <2>2. hold[r] \in Nat
      BY DEF TypeOK
    <2> QED
      BY <2>1, <2>2 DEF HoldIsDue, Age
  <1>2. ASSUME NEW t \in Ticks, TickStep(t)
        PROVE  HoldIsDue'
    <2>1. CASE ClaimDueTopics(t)
      <3>1. PICK s \in Claimable(Topics) : Claim(t, s)
        BY <2>1 DEF ClaimDueTopics
      <3> QED
        BY <3>1, ClaimableIsDue, ClaimHold DEF Rows
    <2>2. CASE ClaimDueExportSubscriptions(t)
      <3>1. PICK s \in Claimable(Exports) : Claim(t, s)
        BY <2>2 DEF ClaimDueExportSubscriptions
      <3> QED
        BY <3>1, ClaimableIsDue, ClaimHold DEF Rows
    <2>3. CASE ~ClaimDueTopics(t) /\ ~ClaimDueExportSubscriptions(t)
      BY <1>0, <1>2, <2>3
         DEF TickStep, PlanDispatch, OpenRun, OpenRunRefused, InvokeTargetWorkflow,
             TargetAnswers, TargetEnds, CloseRunSucceeded, CloseRunFailed
    <2> QED
      BY <2>1, <2>2, <2>3
  <1>3. ASSUME NEW t \in Ticks, Crash(t)
        PROVE  HoldIsDue'
    BY <1>0, <1>3 DEF Crash
  <1>4. CASE ApiStep
    <2>1. ASSUME NEW r \in Rows, NEW c \in Cadences, NEW on \in BOOLEAN,
                 CreateRow(r, c, on)
          PROVE  HoldIsDue'
      BY <2>1 DEF CreateRow, HoldIsDue, TypeOK
    <2>2. ASSUME NEW r \in Rows, NEW c \in Cadences, NEW on \in BOOLEAN,
                 PatchRow(r, c, on)
          PROVE  HoldIsDue'
      <3>1. \A q \in Rows : row'[q].due = row[q].due /\ row'[q].life = row[q].life
        BY <2>2, RowFields DEF PatchRow, TypeOK, RowRecord
      <3> QED
        BY <2>2, <3>1 DEF PatchRow, HoldIsDue
    <2>3. ASSUME NEW r \in Rows, DeleteRow(r)
          PROVE  HoldIsDue'
      <3>1. \A q \in Rows : /\ row'[q].due = row[q].due
                            /\ row'[q].life \in {row[q].life, "deleted"}
        BY <2>3, RowFields DEF DeleteRow, TypeOK, RowRecord
      <3> QED
        BY <2>3, <3>1 DEF DeleteRow, HoldIsDue
    <2>4. ASSUME NEW d \in Domains, DeleteDomain(d)
          PROVE  HoldIsDue'
      <3>1. \A q \in Rows : /\ row'[q].due = row[q].due
                            /\ row'[q].life \in {row[q].life, "deleted"}
        BY <2>4, RowFields DEF DeleteDomain, RowRecord
      <3> QED
        BY <2>4, <3>1 DEF DeleteDomain, HoldIsDue
    <2>5. ASSUME NEW o \in Operators, WriteSchedule(o)
          PROVE  HoldIsDue'
      <3>1. CASE row[req[o].row].life = "live"
        BY <2>5, <3>1, RowFields DEF WriteSchedule, HoldIsDue, TypeOK, RowRecord
      <3>2. CASE row[req[o].row].life # "live"
        BY <1>0, <2>5, <3>2 DEF WriteSchedule
      <3> QED
        BY <3>1, <3>2
    <2>6. ASSUME NEW o \in Operators,
                 \/ \E r \in Rows : BeginRunNow(o, r)
                 \/ \E r \in Topics, n \in PauseCycles : BeginPause(o, r, n)
          PROVE  HoldIsDue'
      BY <1>0, <2>6 DEF BeginRunNow, BeginPause
    <2> QED
      BY <1>4, <2>1, <2>2, <2>3, <2>4, <2>5, <2>6 DEF ApiStep
  <1> QED
    BY <1>0, <1>1, <1>2, <1>3, <1>4 DEF Next, vars

\* A row that becomes a tick's own was eligible in the state before.
LEMMA TakenWasEligible ==
    ASSUME TypeOK, [Next]_vars, NEW t \in Ticks, NEW r \in Rows, Takes(t, r)
    PROVE  Eligible(r)
  <1> USE DEF tickVars, Takes
  <1>1. unit' # unit
    OBVIOUS
  <1>2. ~Advance /\ ~ApiStep /\ unit' # unit
    BY <1>1 DEF Advance, ApiStep, CreateRow, PatchRow, DeleteRow, DeleteDomain,
                BeginRunNow, BeginPause, WriteSchedule
  <1>3. PICK k \in Ticks : TickStep(k)
    BY <1>2 DEF Next, vars, Crash
  <1>4. CASE ClaimDueTopics(k)
    BY <1>4, ClaimableIsDue DEF ClaimDueTopics, Rows, TypeOK
  <1>5. CASE ClaimDueExportSubscriptions(k)
    BY <1>5, ClaimableIsDue DEF ClaimDueExportSubscriptions, Rows, TypeOK
  <1>6. CASE PlanDispatch(k)
    BY <1>6 DEF PlanDispatch, TypeOK
  <1>7. ASSUME NEW q \in Rows,
               \/ InvokeTargetWorkflow(k, q)
               \/ \E said \in Answered : TargetAnswers(k, q, said)
               \/ \E how \in {"noItems", "raised"} : TargetEnds(k, q, how)
        PROVE  FALSE
    <2>1. PICK v \in {"running", "noItems", "raised"} \cup Answered :
              unit' = [unit EXCEPT ![k][q] = v]
      BY <1>7 DEF InvokeTargetWorkflow, TargetAnswers, TargetEnds
    <2>2. v # "claimed"
      BY DEF Answered
    <2>3. unit'[t][r] \in {unit[t][r], v}
      BY <2>1 DEF TypeOK
    <2> QED
      BY <2>2, <2>3
  <1> QED
    BY <1>1, <1>3, <1>4, <1>5, <1>6, <1>7
       DEF TickStep, OpenRun, OpenRunRefused, CloseRunSucceeded, CloseRunFailed

\* For any number of overlapping ticks, crashes and operators, a row is never
\* claimed again inside the clamped interval its last claim granted.
THEOREM ClaimsAreApart == Spec => ClaimsKeepTheirDistance
  <1>1. TypeOK /\ HoldIsDue /\ [Next]_vars
          => [\A t \in Ticks, r \in Rows : Takes(t, r) => hold[r] = 0]_vars
    <2> SUFFICES ASSUME TypeOK, HoldIsDue, [Next]_vars,
                        NEW t \in Ticks, NEW r \in Rows, Takes(t, r)
                 PROVE  hold[r] = 0
      OBVIOUS
    <2>1. Eligible(r)
      BY TakenWasEligible
    <2>2. row[r].due \in Int /\ row[r].due <= 0 /\ hold[r] \in Nat
      BY <2>1, RowFields DEF Eligible, DueTime, TypeOK
    <2> QED
      BY <2>2 DEF HoldIsDue
  <1> QED
    BY <1>1, InitType, NextType, InitHold, NextHold, PTL DEF Spec, ClaimsKeepTheirDistance

-----------------------------------------------------------------------------
(* The account of runs.  What a tick's units may be at each node, and what *)
(* the run of each of them says meanwhile.                                 *)

UnitFits(t, r) ==
    /\ pc[t] \in {"claimExports", "plan"} => unit[t][r] \in {"none", "claimed"}
    /\ pc[t] = "open" => unit[t][r] \in {"none", "dropped", "kept"}
    /\ pc[t] = "invoke" => unit[t][r] # "claimed"
    /\ pc[t] \in {"closeFailed", "ended"} =>
          unit[t][r] \in {"none", "dropped"} \cup Settled

RunFits(t, r) ==
    LET u == unit[t][r]
        x == run[t][r]
    IN  /\ pc[t] \in {"claimExports", "plan", "open"} => x = NoRun
        /\ pc[t] \in {"invoke", "closeFailed", "ended"} =>
              /\ u \in {"none", "dropped"} => x = NoRun
              /\ u \in {"kept", "running", "noItems"} => x = OpenedRun
              /\ u \in Answered => /\ x.status = IF pc[t] = "invoke" THEN StatusSaid[u] ELSE "ok"
                                   /\ x.errors = IF u \in Failures THEN {"target"} ELSE {}
              /\ u = "raised" => IF pc[t] = "ended" THEN x.status = "failed" /\ x.errors = {"dispatcher"}
                                 ELSE x = OpenedRun
        /\ pc[t] = "crashed" /\ u \in {"running"} \cup Settled => x.status # "absent"

Account(t, r) == UnitFits(t, r) /\ (DomainOf[r] \notin gone => RunFits(t, r))

RunAccount == \A t \in Ticks, r \in Rows : Account(t, r)

LEMMA InitAccount == Init => RunAccount
  BY DEF Init, RunAccount, Account, UnitFits, RunFits, NoRun, OpenedRun, Answered, Settled

\* A step of one tick leaves the units and the runs of every other alone.
LEMMA TicksAreApart ==
    ASSUME TypeOK, NEW t \in Ticks, TickStep(t) \/ Crash(t)
    PROVE  /\ gone' = gone
           /\ \A k \in Ticks \ {t} : /\ pc'[k] = pc[k]
                                     /\ unit'[k] = unit[k]
                                     /\ run'[k] = run[k]
  <1> USE DEF tickVars, counters, TypeOK
  <1>1. CASE ClaimDueTopics(t) \/ ClaimDueExportSubscriptions(t)
    BY <1>1 DEF ClaimDueTopics, ClaimDueExportSubscriptions
  <1>2. CASE PlanDispatch(t) \/ OpenRun(t) \/ OpenRunRefused(t) \/ Crash(t)
    BY <1>2 DEF PlanDispatch, OpenRun, OpenRunRefused, Crash
  <1>3. ASSUME NEW q \in Rows,
               \/ InvokeTargetWorkflow(t, q)
               \/ \E said \in Answered : TargetAnswers(t, q, said)
               \/ \E how \in {"noItems", "raised"} : TargetEnds(t, q, how)
        PROVE  /\ gone' = gone
               /\ \A k \in Ticks \ {t} : /\ pc'[k] = pc[k]
                                         /\ unit'[k] = unit[k]
                                         /\ run'[k] = run[k]
    BY <1>3 DEF InvokeTargetWorkflow, TargetAnswers, TargetEnds, CloseRuns
  <1>4. CASE CloseRunSucceeded(t) \/ CloseRunFailed(t)
    BY <1>4 DEF CloseRunSucceeded, CloseRunFailed, CloseRuns
  <1> QED
    BY <1>1, <1>2, <1>3, <1>4 DEF TickStep

\* What CloseRuns writes into one run.
LEMMA ClosedRun ==
    ASSUME TypeOK, NEW t \in Ticks, NEW units, NEW status, NEW entries,
           CloseRuns(t, units, status, entries), NEW r \in Rows
    PROVE  /\ r \in units /\ run[t][r].status # "absent"
                => /\ run'[t][r].status = status
                   /\ run'[t][r].errors = run[t][r].errors \cup entries
           /\ r \notin units \/ run[t][r].status = "absent" => run'[t][r] = run[t][r]
  <1>1. run'[t] = [q \in Rows |-> IF q \in units /\ run[t][q].status # "absent"
                                 THEN [status |-> status, finished |-> TRUE,
                                       errors |-> run[t][q].errors \cup entries]
                                 ELSE run[t][q]]
    BY DEF CloseRuns, TypeOK
  <1> QED
    BY <1>1

\* At every node, a unit that has been invoked has its run.
LEMMA InvokedAccount ==
    ASSUME NEW t \in Ticks, NEW r \in Rows, pc[t] \in Nodes, Account(t, r),
           DomainOf[r] \notin gone, unit[t][r] \in {"running"} \cup Settled
    PROVE  run[t][r].status # "absent"
  <1> USE DEF Account, UnitFits, RunFits
  <1>1. CASE pc[t] \in {"claimExports", "plan", "open"}
    BY <1>1 DEF Settled, Answered
  <1>2. CASE pc[t] \in {"invoke", "closeFailed", "ended"}
    <2>1. CASE unit[t][r] \in {"running", "noItems", "raised"}
      BY <1>2, <2>1 DEF OpenedRun, Settled, Answered
    <2>2. CASE unit[t][r] \in Answered
      <3>1. StatusSaid[unit[t][r]] # "absent"
        BY <2>2 DEF StatusSaid
      <3> QED
        BY <1>2, <2>2, <3>1
    <2> QED
      BY <2>1, <2>2 DEF Settled
  <1>3. CASE pc[t] = "crashed"
    BY <1>3
  <1> QED
    BY <1>1, <1>2, <1>3 DEF Nodes

LEMMA TickAccount ==
    ASSUME TypeOK, RunAccount, NEW t \in Ticks, TickStep(t) \/ Crash(t), NEW r \in Rows
    PROVE  Account(t, r)'
  <1> USE DEF tickVars, counters
  <1>1. /\ pc[t] \in Nodes /\ unit[t][r] \in UnitStates /\ run[t][r] \in RunRow
        /\ Account(t, r) /\ gone' = gone
    BY TicksAreApart DEF TypeOK, RunAccount
  <1>2. CASE ClaimDueTopics(t)
    <2>1. /\ pc'[t] = "claimExports"
          /\ unit'[t][r] \in {"none", "claimed"}
          /\ run'[t][r] = NoRun
      BY <1>2 DEF ClaimDueTopics, TypeOK
    <2> QED
      BY <2>1 DEF Account, UnitFits, RunFits
  <1>3. CASE ClaimDueExportSubscriptions(t)
    <2>1. /\ pc[t] = "claimExports" /\ pc'[t] = "plan"
          /\ unit'[t][r] \in {unit[t][r], "claimed"}
          /\ run'[t][r] = run[t][r]
      BY <1>3 DEF ClaimDueExportSubscriptions, TypeOK
    <2> QED
      BY <1>1, <2>1 DEF Account, UnitFits, RunFits
  <1>4. CASE PlanDispatch(t)
    <2>1. PICK kept \in SUBSET Rows :
              /\ unit'[t] = [q \in Rows |-> IF q \in kept THEN "kept"
                                ELSE IF q \in UnitsIn(t, {"claimed"}) THEN "dropped"
                                ELSE unit[t][q]]
              /\ pc'[t] = IF kept = {} THEN "ended" ELSE "open"
      BY <1>4 DEF PlanDispatch, CapBatch, UnitsIn, TypeOK
    <2>2. pc[t] = "plan" /\ run'[t][r] = run[t][r]
      BY <1>4 DEF PlanDispatch
    <2>3. unit'[t][r] \in {"none", "dropped"} \cup (IF kept = {} THEN {} ELSE {"kept"})
      BY <1>1, <2>1, <2>2 DEF UnitsIn, Account, UnitFits
    <2> QED
      BY <1>1, <2>1, <2>2, <2>3 DEF Account, UnitFits, RunFits, Settled, Answered
  <1>5. CASE OpenRun(t)
    <2>1. /\ pc[t] = "open" /\ pc'[t] = "invoke"
          /\ unit'[t][r] = unit[t][r]
          /\ run'[t][r] = IF unit[t][r] = "kept" THEN OpenedRun ELSE NoRun
      BY <1>5 DEF OpenRun, TypeOK
    <2> QED
      BY <1>1, <2>1 DEF Account, UnitFits, RunFits, Settled, Answered
  <1>6. CASE OpenRunRefused(t) \/ Crash(t)
    <2>1. /\ pc'[t] = "crashed"
          /\ unit'[t][r] = unit[t][r] /\ run'[t][r] = run[t][r]
      BY <1>6 DEF OpenRunRefused, Crash, TypeOK
    <2>2. DomainOf[r] \notin gone /\ unit[t][r] \in {"running"} \cup Settled
            => run[t][r].status # "absent"
      BY <1>1, InvokedAccount
    <2> QED
      BY <1>1, <2>1, <2>2 DEF Account, UnitFits, RunFits
  <1>7. ASSUME NEW q \in Rows, InvokeTargetWorkflow(t, q)
        PROVE  Account(t, r)'
    <2>1. /\ pc[t] = "invoke" /\ pc'[t] = "invoke"
          /\ unit[t][q] = "kept"
          /\ unit'[t][r] = IF r = q THEN "running" ELSE unit[t][r]
          /\ run'[t][r] = run[t][r]
      BY <1>7 DEF InvokeTargetWorkflow, TypeOK
    <2> QED
      BY <1>1, <2>1 DEF Account, UnitFits, RunFits, Answered
  <1>8. ASSUME NEW q \in Rows, NEW said \in Answered, TargetAnswers(t, q, said)
        PROVE  Account(t, r)'
    <2> DEFINE units == {q}
               status == StatusSaid[said]
               entries == IF said \in Failures THEN {"target"} ELSE {}
    <2>1. /\ pc[t] = "invoke" /\ pc'[t] = "invoke"
          /\ unit[t][q] = "running"
          /\ unit'[t][r] = IF r = q THEN said ELSE unit[t][r]
      BY <1>8 DEF TargetAnswers, TypeOK
    <2>2. CloseRuns(t, units, status, entries)
      BY <1>8 DEF TargetAnswers
    <2>3. /\ units \in SUBSET Rows
          /\ status \in {"ok", "partial", "failed"}
          /\ entries \in SUBSET {"target", "dispatcher"}
      BY DEF StatusSaid
    <2>4. r \in units <=> r = q
      OBVIOUS
    <2>5. status = StatusSaid[said] /\ entries = IF said \in Failures THEN {"target"} ELSE {}
      OBVIOUS
    <2> HIDE DEF units, status, entries
    <2>6. /\ r \in units /\ run[t][r].status # "absent"
               => /\ run'[t][r].status = status
                  /\ run'[t][r].errors = run[t][r].errors \cup entries
          /\ r \notin units => run'[t][r] = run[t][r]
      BY <2>2, <2>3, ClosedRun
    <2>7. CASE r = q
      <3>1. DomainOf[r] \notin gone => run[t][r] = OpenedRun
        BY <1>1, <2>1, <2>7 DEF Account, RunFits
      <3>2. DomainOf[r] \notin gone => /\ run'[t][r].status = StatusSaid[said]
                                     /\ run'[t][r].errors = IF said \in Failures THEN {"target"} ELSE {}
        <4> SUFFICES ASSUME DomainOf[r] \notin gone
                     PROVE  /\ run'[t][r].status = status
                            /\ run'[t][r].errors = entries
          BY <2>5
        <4>1. run[t][r].status # "absent" /\ run[t][r].errors = {}
          BY <3>1 DEF OpenedRun
        <4>2. {} \cup entries = entries
          OBVIOUS
        <4> QED
          BY <2>4, <2>6, <2>7, <4>1, <4>2
      <3> QED
        BY <1>1, <2>1, <2>7, <3>2 DEF Account, UnitFits, RunFits, Answered
    <2>8. CASE r # q
      BY <1>1, <2>1, <2>4, <2>6, <2>8 DEF Account, UnitFits, RunFits
    <2> QED
      BY <2>7, <2>8
  <1>9. ASSUME NEW q \in Rows, NEW how \in {"noItems", "raised"}, TargetEnds(t, q, how)
        PROVE  Account(t, r)'
    <2>1. /\ pc[t] = "invoke" /\ pc'[t] = "invoke"
          /\ unit[t][q] = "running"
          /\ unit'[t][r] = IF r = q THEN how ELSE unit[t][r]
          /\ run'[t][r] = run[t][r]
      BY <1>9 DEF TargetEnds, TypeOK
    <2> QED
      BY <1>1, <2>1 DEF Account, UnitFits, RunFits, Answered
  <1>10. CASE CloseRunSucceeded(t)
    <2>1. /\ pc[t] = "invoke" /\ pc'[t] = "closeFailed"
          /\ unit'[t][r] = unit[t][r]
          /\ unit[t][r] \notin {"kept", "running"}
      BY <1>10 DEF CloseRunSucceeded, TypeOK, UnitsIn
    <2>2. CloseRuns(t, UnitsIn(t, Answered), "ok", {})
      BY <1>10 DEF CloseRunSucceeded
    <2>3. /\ UnitsIn(t, Answered) \in SUBSET Rows
          /\ r \in UnitsIn(t, Answered) <=> unit[t][r] \in Answered
      BY DEF UnitsIn
    <2>4. /\ unit[t][r] \in Answered /\ run[t][r].status # "absent"
               => /\ run'[t][r].status = "ok"
                  /\ run'[t][r].errors = run[t][r].errors
          /\ unit[t][r] \notin Answered => run'[t][r] = run[t][r]
      <3> DEFINE units == UnitsIn(t, Answered)
                 entries == {}
      <3>1. CloseRuns(t, units, "ok", entries)
        BY <2>2
      <3>2. run[t][r].errors \cup entries = run[t][r].errors
        OBVIOUS
      <3>3. r \in units <=> unit[t][r] \in Answered
        BY <2>3
      <3> HIDE DEF units, entries
      <3>4. /\ r \in units /\ run[t][r].status # "absent"
                 => /\ run'[t][r].status = "ok"
                    /\ run'[t][r].errors = run[t][r].errors \cup entries
            /\ r \notin units => run'[t][r] = run[t][r]
        BY <3>1, ClosedRun
      <3> QED
        BY <3>2, <3>3, <3>4
    <2>5. unit[t][r] \in Answered => StatusSaid[unit[t][r]] # "absent"
      BY DEF StatusSaid
    <2> QED
      BY <1>1, <2>1, <2>4, <2>5
         DEF Account, UnitFits, RunFits, Answered, Settled, UnitStates
  <1>11. CASE CloseRunFailed(t)
    <2>1. /\ pc[t] = "closeFailed" /\ pc'[t] = "ended"
          /\ unit'[t][r] = unit[t][r]
      BY <1>11 DEF CloseRunFailed, TypeOK
    <2>2. CloseRuns(t, UnitsIn(t, {"raised"}), "failed", {"dispatcher"})
      BY <1>11 DEF CloseRunFailed
    <2>3. /\ UnitsIn(t, {"raised"}) \in SUBSET Rows
          /\ r \in UnitsIn(t, {"raised"}) <=> unit[t][r] = "raised"
      BY DEF UnitsIn
    <2>4. /\ unit[t][r] = "raised" /\ run[t][r].status # "absent"
               => /\ run'[t][r].status = "failed"
                  /\ run'[t][r].errors = run[t][r].errors \cup {"dispatcher"}
          /\ unit[t][r] # "raised" => run'[t][r] = run[t][r]
      BY <2>2, <2>3, ClosedRun
    <2> QED
      BY <1>1, <2>1, <2>4
         DEF Account, UnitFits, RunFits, Answered, Settled, OpenedRun
  <1> QED
    BY <1>2, <1>3, <1>4, <1>5, <1>6, <1>7, <1>8, <1>9, <1>10, <1>11 DEF TickStep

LEMMA NextAccount == TypeOK /\ RunAccount /\ [Next]_vars => RunAccount'
  <1> SUFFICES ASSUME TypeOK, RunAccount, [Next]_vars,
                      NEW k \in Ticks, NEW r \in Rows
               PROVE  Account(k, r)'
    BY DEF RunAccount
  <1>1. Account(k, r)
    BY DEF RunAccount
  <1>2. ASSUME UNCHANGED <<gone, pc, unit, run>>
        PROVE  Account(k, r)'
    BY <1>1, <1>2 DEF Account, UnitFits, RunFits
  <1>3. ASSUME NEW t \in Ticks, TickStep(t) \/ Crash(t)
        PROVE  Account(k, r)'
    <2>1. CASE k = t
      BY <1>3, <2>1, TickAccount
    <2>2. CASE k # t
      BY <1>1, <1>3, <2>2, TicksAreApart DEF Account, UnitFits, RunFits
    <2> QED
      BY <2>1, <2>2
  <1>4. ASSUME NEW d \in Domains, DeleteDomain(d)
        PROVE  Account(k, r)'
    <2>1. /\ gone \subseteq gone' /\ pc' = pc /\ unit' = unit
          /\ DomainOf[r] \notin gone' => run'[k][r] = run[k][r]
      BY <1>4 DEF DeleteDomain, TypeOK
    <2> QED
      BY <1>1, <2>1 DEF Account, UnitFits, RunFits
  <1>5. CASE Advance \/ (ApiStep /\ \A d \in Domains : ~DeleteDomain(d))
    BY <1>2, <1>5 DEF Advance, ApiStep, CreateRow, PatchRow, DeleteRow, BeginRunNow,
                      BeginPause, WriteSchedule, tickVars
  <1> QED
    BY <1>2, <1>3, <1>4, <1>5 DEF Next, vars

\* Whatever ends, crashes or is deleted, a target works only under a run.
THEOREM InvokedHasRun == Spec => []InvokedUnitHasItsRun
  <1>1. TypeOK /\ RunAccount => InvokedUnitHasItsRun
    BY InvokedAccount DEF TypeOK, RunAccount, InvokedUnitHasItsRun
  <1> QED
    BY <1>1, InitType, NextType, InitAccount, NextAccount, PTL DEF Spec

\* The run of an invocation that is over says how it went.
THEOREM StatusIsTold == Spec => []StatusTellsOutcome
  <1>1. RunAccount => StatusTellsOutcome
    BY DEF RunAccount, Account, UnitFits, RunFits, StatusTellsOutcome, Settled, Answered,
           NoRun, OpenedRun
  <1> QED
    BY <1>1, InitType, NextType, InitAccount, NextAccount, PTL DEF Spec

\* A target that reports a failure, or raises, leaves an entry in errors.
THEOREM FailuresAreEntered == Spec => []FailuresLeaveAnEntry
  <1>1. RunAccount => FailuresLeaveAnEntry
    <2> SUFFICES ASSUME RunAccount, NEW t \in Ticks, NEW r \in Rows,
                        pc[t] = "ended", DomainOf[r] \notin gone
                 PROVE  run[t][r].errors = CASE unit[t][r] \in Failures -> {"target"}
                                              [] unit[t][r] = "raised" -> {"dispatcher"}
                                              [] OTHER -> {}
      BY DEF FailuresLeaveAnEntry
    <2>1. Account(t, r)
      BY DEF RunAccount
    <2>2. CASE unit[t][r] \in {"none", "dropped", "noItems"}
      BY <2>1, <2>2 DEF Account, RunFits, NoRun, OpenedRun, Failures
    <2>3. CASE unit[t][r] \in Answered
      BY <2>1, <2>3 DEF Account, RunFits, Answered, Failures
    <2>4. CASE unit[t][r] = "raised"
      BY <2>1, <2>4 DEF Account, RunFits, Failures
    <2> QED
      BY <2>1, <2>2, <2>3, <2>4 DEF Account, UnitFits, Settled
  <1> QED
    BY <1>1, InitType, NextType, InitAccount, NextAccount, PTL DEF Spec

-----------------------------------------------------------------------------
(* The cap.  What a tick spends on is fixed when its batch is planned.     *)

LEMMA InitCap == Init => CapBoundsInvocations
  <1> SUFFICES ASSUME Init, NEW t \in Ticks
               PROVE  Cardinality(UnitsIn(t, Spending)) <= BatchCap
    BY DEF CapBoundsInvocations
  <1>1. UnitsIn(t, Spending) = {}
    BY DEF Init, UnitsIn, Spending, Settled, Answered
  <1> QED
    BY <1>1, FS_EmptySet

LEMMA NextCap ==
    TypeOK /\ RunAccount /\ CapBoundsInvocations /\ [Next]_vars => CapBoundsInvocations'
  <1> SUFFICES ASSUME TypeOK, RunAccount, CapBoundsInvocations, [Next]_vars,
                      NEW k \in Ticks
               PROVE  Cardinality(UnitsIn(k, Spending)') <= BatchCap
    BY DEF CapBoundsInvocations
  <1>1. ASSUME UnitsIn(k, Spending)' = UnitsIn(k, Spending)
        PROVE  Cardinality(UnitsIn(k, Spending)') <= BatchCap
    BY <1>1 DEF CapBoundsInvocations
  <1>2. ASSUME unit'[k] = unit[k]
        PROVE  UnitsIn(k, Spending)' = UnitsIn(k, Spending)
    BY <1>2 DEF UnitsIn
  <1>3. ASSUME UnitsIn(k, Spending)' = {}
        PROVE  Cardinality(UnitsIn(k, Spending)') <= BatchCap
    BY <1>3, FS_EmptySet
  <1>4. \A r \in Rows : UnitFits(k, r)
    BY DEF RunAccount, Account
  <1>5. CASE ClaimDueTopics(k)
    <2>1. \A r \in Rows : unit'[k][r] \in {"none", "claimed"}
      BY <1>5 DEF ClaimDueTopics, TypeOK
    <2> QED
      BY <1>3, <2>1 DEF UnitsIn, Spending, Settled, Answered
  <1>6. CASE ClaimDueExportSubscriptions(k)
    <2>1. \A r \in Rows : unit'[k][r] \in {unit[k][r], "claimed"}
      BY <1>6 DEF ClaimDueExportSubscriptions, TypeOK
    <2>2. \A r \in Rows : unit[k][r] \in {"none", "claimed"}
      BY <1>4, <1>6 DEF ClaimDueExportSubscriptions, UnitFits
    <2> QED
      BY <1>3, <2>1, <2>2 DEF UnitsIn, Spending, Settled, Answered
  <1>7. CASE PlanDispatch(k)
    <2>1. PICK kept \in CapBatch(UnitsIn(k, {"claimed"}) \cap Topics,
                                 UnitsIn(k, {"claimed"}) \cap Exports, BatchCap) :
              unit'[k] = [r \in Rows |-> IF r \in kept THEN "kept"
                               ELSE IF r \in UnitsIn(k, {"claimed"}) THEN "dropped"
                               ELSE unit[k][r]]
      BY <1>7 DEF PlanDispatch, TypeOK
    <2>2. kept \subseteq Rows /\ Cardinality(kept) <= BatchCap
      BY <2>1 DEF CapBatch, UnitsIn
    <2>3. \A r \in Rows : unit[k][r] \in {"none", "claimed"}
      BY <1>4, <1>7 DEF PlanDispatch, UnitFits
    <2>4. UnitsIn(k, Spending)' = kept
      BY <2>1, <2>2, <2>3 DEF UnitsIn, Spending, Settled, Answered
    <2> QED
      BY <2>2, <2>4
  <1>8. ASSUME NEW q \in Rows,
               \/ InvokeTargetWorkflow(k, q)
               \/ \E said \in Answered : TargetAnswers(k, q, said)
               \/ \E how \in {"noItems", "raised"} : TargetEnds(k, q, how)
        PROVE  Cardinality(UnitsIn(k, Spending)') <= BatchCap
    <2>1. PICK v \in {"running"} \cup Settled : unit' = [unit EXCEPT ![k][q] = v]
      BY <1>8 DEF InvokeTargetWorkflow, TargetAnswers, TargetEnds, Settled
    <2>2. unit[k][q] \in {"kept", "running"}
      BY <1>8 DEF InvokeTargetWorkflow, TargetAnswers, TargetEnds
    <2>3. \A r \in Rows : unit'[k][r] = IF r = q THEN v ELSE unit[k][r]
      BY <2>1 DEF TypeOK
    <2>4. UnitsIn(k, Spending)' = UnitsIn(k, Spending)
      BY <2>2, <2>3 DEF UnitsIn, Spending
    <2> QED
      BY <1>1, <2>4
  <1>9. CASE \/ OpenRun(k) \/ OpenRunRefused(k) \/ CloseRunSucceeded(k)
             \/ CloseRunFailed(k) \/ Crash(k)
    BY <1>1, <1>2, <1>9
       DEF OpenRun, OpenRunRefused, CloseRunSucceeded, CloseRunFailed, Crash
  <1>10. ASSUME NEW t \in Ticks \ {k}, TickStep(t) \/ Crash(t)
         PROVE  Cardinality(UnitsIn(k, Spending)') <= BatchCap
    BY <1>1, <1>2, <1>10, TicksAreApart
  <1>11. CASE Advance \/ ApiStep \/ UNCHANGED vars
    <2>1. unit' = unit
      BY <1>11 DEF Advance, ApiStep, CreateRow, PatchRow, DeleteRow, DeleteDomain,
                   BeginRunNow, BeginPause, WriteSchedule, tickVars, vars
    <2> QED
      BY <1>1, <1>2, <2>1
  <1> QED
    BY <1>5, <1>6, <1>7, <1>8, <1>9, <1>10, <1>11 DEF Next, TickStep

\* However large the backlog in both tables, a tick spends at most the cap.
THEOREM CapHolds == Spec => []CapBoundsInvocations
  BY InitType, NextType, InitAccount, NextAccount, InitCap, NextCap, PTL DEF Spec

-----------------------------------------------------------------------------
(* Dispatch implements DueWork.                                            *)

LEMMA InitWork == Init => Work!Init
  <1> SUFFICES ASSUME Init PROVE Work!Init
    OBVIOUS
  <1>1. DueRows \subseteq Rows
    BY DEF DueRows
  <1>2. \A r \in Rows : AliveOn(r, {"claimed", "kept"}) = {} /\ AliveOn(r, {"running"}) = {}
    BY DEF Init, AliveOn
  <1> QED
    BY <1>1, <1>2 DEF Work!Init, Work!Nobody, Owed, Working

\* A claim takes rows out of what is due and gives them to the tick.
LEMMA ClaimIsTake ==
    ASSUME TypeOK, RunAccount, NEW t \in Ticks, NEW s \in SUBSET Rows,
           \A r \in s : Eligible(r), Claim(t, s),
           pc'[t] \in Nodes \ {"crashed"},
           \A k \in Ticks \ {t} : pc'[k] = pc[k] /\ unit'[k] = unit[k],
           \A r \in s : unit'[t][r] = "claimed",
           \/ /\ pc[t] \in {"ended", "crashed"}
              /\ \A r \in Rows \ s : unit'[t][r] = "none"
           \/ /\ pc[t] = "claimExports"
              /\ \A r \in Rows \ s : unit'[t][r] = unit[t][r]
    PROVE  Work!Take(t, s) /\ s \subseteq DueRows
  <1>1. s \subseteq DueRows
    BY DEF DueRows
  <1>2. DueRows' = DueRows \ s
    <2>1. ASSUME NEW r \in s
          PROVE  ~(Eligible(r)')
      <3>1. row'[r].due = Period(row[r].cadence)
        BY RowFields DEF Claim, RowRecord
      <3> QED
        BY <3>1, RowFields, PeriodOfStored DEF Eligible
    <2>2. ASSUME NEW r \in Rows \ s
          PROVE  Eligible(r)' <=> Eligible(r)
      BY DEF Claim, Eligible
    <2> QED
      BY <2>1, <2>2 DEF DueRows
  <1>3. \A r \in Rows : UnitFits(t, r)
    BY DEF RunAccount, Account
  <1>4. ASSUME NEW r \in Rows
        PROVE  /\ AliveOn(r, {"claimed", "kept"})' =
                     IF r \in s THEN AliveOn(r, {"claimed", "kept"}) \cup {t}
                     ELSE AliveOn(r, {"claimed", "kept"})
               /\ AliveOn(r, {"running"})' = AliveOn(r, {"running"})
    <2>1. pc[t] = "crashed" \/ unit[t][r] # "running"
      BY <1>3 DEF UnitFits, Settled, Answered
    <2>2. pc[t] = "ended" => unit[t][r] \notin {"claimed", "kept"}
      BY <1>3 DEF UnitFits, Settled, Answered
    <2>3. unit'[t][r] # "running"
      BY <2>1
    <2>4. r \notin s => ((unit'[t][r] \in {"claimed", "kept"})
                         <=> (pc[t] # "crashed" /\ unit[t][r] \in {"claimed", "kept"}))
      BY <2>2
    <2> QED
      BY <2>1, <2>2, <2>3, <2>4 DEF AliveOn
  <1> QED
    BY <1>1, <1>2, <1>4 DEF Work!Take, Owed, Working

\* A tick that crashes lets go of everything it holds.
LEMMA CrashIsLetGo ==
    ASSUME TypeOK, NEW t \in Ticks, OpenRunRefused(t) \/ Crash(t)
    PROVE  Work!LetGo(t, Rows)
  <1>1. /\ row' = row /\ unit' = unit
        /\ pc' = [pc EXCEPT ![t] = "crashed"]
    BY DEF OpenRunRefused, Crash
  <1>2. DueRows' = DueRows
    BY <1>1 DEF DueRows, Eligible
  <1>3. ASSUME NEW r \in Rows, NEW states
        PROVE  AliveOn(r, states)' = AliveOn(r, states) \ {t}
    BY <1>1 DEF AliveOn, TypeOK
  <1> QED
    BY <1>2, <1>3 DEF Work!LetGo, Owed, Working

\* Steps that neither move a unit nor end or revive a tick keep what is held.
LEMMA HeldIsKept ==
    ASSUME unit' = unit, \A t \in Ticks : pc'[t] = "crashed" <=> pc[t] = "crashed"
    PROVE  UNCHANGED <<Owed, Working>>
  BY DEF Owed, Working, AliveOn

LEMMA TickWork ==
    ASSUME TypeOK, RunAccount, NEW t \in Ticks, TickStep(t)
    PROVE  [Work!Next]_(Work!vars)
  <1> USE DEF tickVars, counters
  <1>0. \A k \in Ticks \ {t} : pc'[k] = pc[k] /\ unit'[k] = unit[k]
    BY TicksAreApart
  <1>1. ASSUME row' = row
        PROVE  DueRows' = DueRows
    BY <1>1 DEF DueRows, Eligible
  <1>2. CASE ClaimDueTopics(t)
    <2>1. PICK s \in Claimable(Topics) :
              /\ Claim(t, s)
              /\ unit' = [unit EXCEPT ![t] =
                            [r \in Rows |-> IF r \in s THEN "claimed" ELSE "none"]]
      BY <1>2 DEF ClaimDueTopics
    <2>2. s \subseteq Rows /\ \A r \in s : Eligible(r)
      BY ClaimableIsDue DEF Rows
    <2>3. /\ pc[t] \in {"ended", "crashed"} /\ pc'[t] = "claimExports"
          /\ \A r \in Rows : unit'[t][r] = IF r \in s THEN "claimed" ELSE "none"
      BY <1>2, <2>1 DEF ClaimDueTopics, TypeOK
    <2>4. Work!Take(t, s) /\ s \subseteq DueRows
      BY <1>0, <2>1, <2>2, <2>3, ClaimIsTake DEF Nodes
    <2> QED
      BY <2>4 DEF Work!Next
  <1>3. CASE ClaimDueExportSubscriptions(t)
    <2>1. PICK s \in Claimable(Exports) :
              /\ Claim(t, s)
              /\ unit' = [unit EXCEPT ![t] =
                            [r \in Rows |-> IF r \in s THEN "claimed" ELSE @[r]]]
      BY <1>3 DEF ClaimDueExportSubscriptions
    <2>2. s \subseteq Rows /\ \A r \in s : Eligible(r)
      BY ClaimableIsDue DEF Rows
    <2>3. /\ pc[t] = "claimExports" /\ pc'[t] = "plan"
          /\ \A r \in Rows : unit'[t][r] = IF r \in s THEN "claimed" ELSE unit[t][r]
      BY <1>3, <2>1 DEF ClaimDueExportSubscriptions, TypeOK
    <2>4. Work!Take(t, s) /\ s \subseteq DueRows
      BY <1>0, <2>1, <2>2, <2>3, ClaimIsTake DEF Nodes
    <2> QED
      BY <2>4 DEF Work!Next
  <1>4. CASE PlanDispatch(t)
    <2>1. PICK kept \in SUBSET UnitsIn(t, {"claimed"}) :
              /\ unit'[t] = [r \in Rows |-> IF r \in kept THEN "kept"
                                ELSE IF r \in UnitsIn(t, {"claimed"}) THEN "dropped"
                                ELSE unit[t][r]]
              /\ pc'[t] \in {"ended", "open"}
      <3>1. UnitsIn(t, {"claimed"}) \subseteq Topics \cup Exports
        BY DEF UnitsIn, Rows
      <3> QED
        BY <1>4, <3>1 DEF PlanDispatch, CapBatch, TypeOK
    <2> DEFINE dropped == UnitsIn(t, {"claimed"}) \ kept
    <2>2. pc[t] = "plan" /\ row' = row
      BY <1>4 DEF PlanDispatch
    <2>3. \A r \in Rows : unit[t][r] \in {"none", "claimed"}
      BY <2>2 DEF RunAccount, Account, UnitFits
    <2>4. \A r \in Rows :
              unit'[t][r] = IF r \in kept THEN "kept"
                            ELSE IF r \in dropped THEN "dropped" ELSE "none"
      BY <2>1, <2>3 DEF UnitsIn
    <2>5. dropped \in SUBSET Rows
      BY DEF UnitsIn
    <2>6. \A r \in Rows : unit[t][r] = "claimed" <=> r \in kept \cup dropped
      BY <2>1 DEF UnitsIn
    <2>7. kept \cap dropped = {}
      OBVIOUS
    <2> HIDE DEF dropped
    <2>8. ASSUME NEW r \in Rows
          PROVE  /\ AliveOn(r, {"claimed", "kept"})' =
                       IF r \in dropped THEN AliveOn(r, {"claimed", "kept"}) \ {t}
                       ELSE AliveOn(r, {"claimed", "kept"})
                 /\ AliveOn(r, {"running"})' = AliveOn(r, {"running"})
                 /\ AliveOn(r, {"running"}) = AliveOn(r, {"running"}) \ {t}
      BY <1>0, <2>1, <2>2, <2>3, <2>4, <2>6, <2>7 DEF AliveOn
    <2>9. Work!LetGo(t, dropped)
      BY <1>1, <2>2, <2>8 DEF Work!LetGo, Owed, Working
    <2> QED
      BY <2>5, <2>9 DEF Work!Next
  <1>5. CASE OpenRunRefused(t)
    BY <1>5, CrashIsLetGo DEF Work!Next
  <1>6. CASE OpenRun(t) \/ CloseRunSucceeded(t) \/ CloseRunFailed(t)
    <2>1. /\ row' = row /\ unit' = unit
          /\ pc[t] # "crashed" /\ pc'[t] # "crashed"
      BY <1>6 DEF OpenRun, CloseRunSucceeded, CloseRunFailed, TypeOK
    <2>2. \A k \in Ticks : pc'[k] = "crashed" <=> pc[k] = "crashed"
      BY <1>0, <2>1
    <2> QED
      BY <1>1, <2>1, <2>2, HeldIsKept DEF Work!vars
  <1>7. ASSUME NEW q \in Rows, InvokeTargetWorkflow(t, q)
        PROVE  [Work!Next]_(Work!vars)
    <2>1. /\ row' = row /\ pc' = pc /\ pc[t] = "invoke"
          /\ unit[t][q] = "kept"
          /\ \A r \in Rows : unit[t][r] # "running"
          /\ \A r \in Rows : unit'[t][r] = IF r = q THEN "running" ELSE unit[t][r]
      BY <1>7 DEF InvokeTargetWorkflow, UnitsIn, TypeOK
    <2>2. \A r \in Rows : t \notin AliveOn(r, {"running"})
      BY <2>1 DEF AliveOn
    <2>3. t \in AliveOn(q, {"claimed", "kept"})
      BY <2>1 DEF AliveOn
    <2>4. ASSUME NEW r \in Rows
          PROVE  /\ AliveOn(r, {"claimed", "kept"})' =
                       IF r = q THEN AliveOn(r, {"claimed", "kept"}) \ {t}
                       ELSE AliveOn(r, {"claimed", "kept"})
                 /\ AliveOn(r, {"running"})' =
                       IF r = q THEN AliveOn(r, {"running"}) \cup {t}
                       ELSE AliveOn(r, {"running"})
      BY <1>0, <2>1 DEF AliveOn
    <2>5. Work!Begin(t, q)
      BY <1>1, <2>1, <2>2, <2>3, <2>4 DEF Work!Begin, Owed, Working
    <2> QED
      BY <2>5 DEF Work!Next
  <1>8. ASSUME NEW q \in Rows,
               \/ \E said \in Answered : TargetAnswers(t, q, said)
               \/ \E how \in {"noItems", "raised"} : TargetEnds(t, q, how)
        PROVE  [Work!Next]_(Work!vars)
    <2>1. PICK v \in Settled : unit' = [unit EXCEPT ![t][q] = v]
      BY <1>8 DEF TargetAnswers, TargetEnds, Settled
    <2>2. /\ row' = row /\ pc' = pc /\ pc[t] = "invoke"
          /\ unit[t][q] = "running"
          /\ \A r \in Rows : unit'[t][r] = IF r = q THEN v ELSE unit[t][r]
      BY <1>8, <2>1 DEF TargetAnswers, TargetEnds, TypeOK
    <2>3. v \notin {"claimed", "kept", "running"}
      BY DEF Settled, Answered
    <2>4. t \in AliveOn(q, {"running"})
      BY <2>2 DEF AliveOn
    <2>5. ASSUME NEW r \in Rows
          PROVE  /\ AliveOn(r, {"claimed", "kept"})' = AliveOn(r, {"claimed", "kept"})
                 /\ AliveOn(r, {"running"})' =
                       IF r = q THEN AliveOn(r, {"running"}) \ {t}
                       ELSE AliveOn(r, {"running"})
      BY <1>0, <2>2, <2>3 DEF AliveOn
    <2>6. Work!Finish(t, q)
      BY <1>1, <2>2, <2>4, <2>5 DEF Work!Finish, Owed, Working
    <2> QED
      BY <2>6 DEF Work!Next
  <1> QED
    BY <1>2, <1>3, <1>4, <1>5, <1>6, <1>7, <1>8 DEF TickStep

LEMMA NextWork == TypeOK /\ RunAccount /\ [Next]_vars => [Work!Next]_(Work!vars)
  <1> SUFFICES ASSUME TypeOK, RunAccount, [Next]_vars
               PROVE  [Work!Next]_(Work!vars)
    OBVIOUS
  <1>1. CASE Advance \/ ApiStep
    <2>1. unit' = unit /\ pc' = pc
      BY <1>1 DEF Advance, ApiStep, CreateRow, PatchRow, DeleteRow, DeleteDomain,
                  BeginRunNow, BeginPause, WriteSchedule, tickVars
    <2>2. DueRows' \in SUBSET Rows
      BY DEF DueRows
    <2> QED
      BY <2>1, <2>2, HeldIsKept DEF Work!Next, Work!Reconsider
  <1>2. ASSUME NEW t \in Ticks, TickStep(t)
        PROVE  [Work!Next]_(Work!vars)
    BY <1>2, TickWork
  <1>3. ASSUME NEW t \in Ticks, Crash(t)
        PROVE  [Work!Next]_(Work!vars)
    BY <1>3, CrashIsLetGo DEF Work!Next
  <1>4. CASE UNCHANGED vars
    <2>1. unit' = unit /\ pc' = pc /\ row' = row
      BY <1>4 DEF vars
    <2>2. DueRows' = DueRows
      BY <2>1 DEF DueRows, Eligible
    <2> QED
      BY <2>1, <2>2, HeldIsKept DEF Work!vars
  <1> QED
    BY <1>1, <1>2, <1>3, <1>4 DEF Next

\* The dispatcher implements DueWork: for any number of ticks, whatever crashes
\* or is edited, a row is taken only while due, and worked on at most once per
\* taking and only by the tick that took it.
THEOREM Implements == Spec => WorkSpec
  BY InitType, NextType, InitAccount, NextAccount, InitWork, NextWork, PTL
     DEF Spec, WorkSpec, Work!Spec
=============================================================================
