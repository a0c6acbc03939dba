------------------------------ MODULE Dispatch ------------------------------
(***************************************************************************)
(* `ar-dispatch`, the workflow that holds the pipeline's only clock, with  *)
(* the two schedulable tables it claims from, the `runs` rows it opens,    *)
(* and the operators who move the same rows over HTTP while it works.      *)
(*                                                                         *)
(* Time enters only through differences: due[r] is next_run_at - now(), so *)
(* `next_run_at <= now()` is due[r] <= 0 and Advance ages every difference *)
(* by one unit, down to -Horizon.                                          *)
(*                                                                         *)
(* A tick is one execution of the workflow.  Each of its nodes is one      *)
(* action: a Postgres node sends its whole batch as one statement, so a    *)
(* node is atomic and everything else may happen between two of them.      *)
(***************************************************************************)
EXTENDS Schedule

CONSTANTS
    Topics,         \* ids of `topics` rows
    Exports,        \* ids of `export_subscriptions` rows
    DomainOf,       \* the domain each row belongs to
    Ticks,          \* executions of ar-dispatch that may overlap
    Operators,      \* concurrent run-now and pause requests
    Cadences,       \* the cadences an operator may store
    InitialRows,    \* the rows an installation may hold when the model starts
    PauseCycles,    \* the counts a pause may ask for
    BatchCap,       \* AR_DISPATCH_BATCH_CAP
    Horizon,        \* bound: a row's lateness is counted down to -Horizon
    IdleLimit,      \* bound: clock units that pass between two completed claims
    CrashLimit,     \* bound: executions that die or have a statement refused
    EditLimit       \* bound: operator requests and edits

Rows == Topics \cup Exports
Domains == { DomainOf[r] : r \in Rows }

\* next_run_at - now(), or NULL.
DueTime == { d \in Int : d >= -Horizon } \cup {Null}

ASSUME RowsAssumption ==
    /\ Topics \cap Exports = {}
    /\ Null \notin Rows
    /\ IsFiniteSet(Rows)
    /\ DomainOf \in [Rows -> Domains]
ASSUME CadenceAssumption == Cadences \subseteq Cadence /\ Cadences # {}
ASSUME InitialRowsAssumption ==
    InitialRows \subseteq { x \in [life : {"unborn", "live"}, enabled : BOOLEAN,
                                 cadence : Cadences, due : DueTime] :
                           x.life = "unborn" => x.due = Null }
ASSUME CyclesAssumption == PauseCycles \subseteq Nat \ {0}
ASSUME BatchCapAssumption == BatchCap \in Nat \ {0}
ASSUME BoundsAssumption ==
    /\ Horizon \in Nat \ {0}
    /\ {IdleLimit, CrashLimit, EditLimit} \subseteq Nat

VARIABLES
    row,        \* the schedulable rows: [life, enabled, cadence, due]
    gone,       \* the domains that have been deleted
    pc,         \* the node each tick runs next
    unit,       \* what has become of each row in each tick
    run,        \* the `runs` row each tick opened for each unit
    req,        \* each operator request between its read and its write
    hold,       \* history: time left of the period the last claim granted
    idle, crashes, edits    \* the counters the bounds are on

tickVars == <<pc, unit, run>>
counters == <<idle, crashes, edits>>
vars == <<row, gone, pc, unit, run, req, hold, idle, crashes, edits>>

Lives == {"unborn", "live", "deleted"}
Nodes == {"ended", "claimExports", "plan", "open", "invoke", "closeFailed", "crashed"}

\* A unit a tick claimed is kept or dropped by the cap; a kept one is invoked
\* and its target answers an item having closed the run its own way, answers
\* no item, or raises.
Answered == {"saidOk", "saidPartial", "saidFailed"}
Failures == {"saidPartial", "saidFailed"}
StatusSaid == [s \in Answered |-> IF s = "saidOk" THEN "ok"
                                 ELSE IF s = "saidPartial" THEN "partial" ELSE "failed"]
Settled == Answered \cup {"noItems", "raised"}
UnitStates == {"none", "claimed", "dropped", "kept", "running"} \cup Settled

RunRow == [status : {"absent", "running", "ok", "partial", "failed"},
           finished : BOOLEAN, errors : SUBSET {"target", "dispatcher"}]
NoRun == [status |-> "absent", finished |-> FALSE, errors |-> {}]
OpenedRun == [status |-> "running", finished |-> FALSE, errors |-> {}]

NoRequest == [verb |-> "none", row |-> Null, target |-> Null]

\* How one more unit of time changes a difference from now().
Age(d) == IF d = Null THEN Null ELSE IF d > -Horizon THEN d - 1 ELSE -Horizon

UnitsIn(t, states) == { r \in Rows : unit[t][r] \in states }

-----------------------------------------------------------------------------
Init ==
    /\ row \in [Rows -> InitialRows]
    /\ gone = {}
    /\ pc = [t \in Ticks |-> "ended"]
    /\ unit = [t \in Ticks |-> [r \in Rows |-> "none"]]
    /\ run = [t \in Ticks |-> [r \in Rows |-> NoRun]]
    /\ req = [o \in Operators |-> NoRequest]
    /\ hold = [r \in Rows |-> 0]
    /\ idle = 0 /\ crashes = 0 /\ edits = 0

-----------------------------------------------------------------------------
(* The claim: one statement locks what is enabled and due and reschedules  *)
(* it.  A row a write in flight has locked may be stepped over.            *)

Eligible(r) ==
    /\ row[r].life = "live" /\ row[r].enabled
    /\ row[r].due # Null /\ row[r].due <= 0

LockedByWrites == { r \in Rows : \E o \in Operators : req[o].row = r }

\* Mutant: LIMIT without ORDER BY next_run_at.
ClaimableUnordered(table) ==
    { s \in SUBSET { r \in table : Eligible(r) } :
        /\ Cardinality(s) <= BatchCap
        /\ s # { r \in table : Eligible(r) } => Cardinality(s) = BatchCap }

\* ORDER BY next_run_at LIMIT cap FOR UPDATE SKIP LOCKED, over one table.
Claimable(table) ==
    LET due(locked) == { r \in table : Eligible(r) } \ locked
        Taken(locked) ==
            { s \in SUBSET due(locked) :
                /\ Cardinality(s) <= BatchCap
                /\ s # due(locked) => Cardinality(s) = BatchCap
                /\ \A r \in s, q \in due(locked) \ s : row[r].due <= row[q].due }
    IN  UNION { Taken(locked) : locked \in SUBSET LockedByWrites }

\* Mutant: the claim locks the rows and leaves their due time to a later node.
ClaimWithoutReschedule(t, s) ==
    /\ row' = row
    /\ hold' = [r \in Rows |-> IF r \in s THEN Period(row[r].cadence) ELSE hold[r]]

\* Mutant: the interval is added as it is stored, outside its bounds.
ClaimUnclamped(t, s) ==
    /\ row' = [r \in Rows |->
                  IF r \in s THEN [row[r] EXCEPT !.due = row[r].cadence.interval]
                  ELSE row[r]]
    /\ hold' = [r \in Rows |-> IF r \in s THEN Period(row[r].cadence) ELSE hold[r]]

Claim(t, s) ==
    /\ row' = [r \in Rows |->
                  IF r \in s THEN [row[r] EXCEPT !.due = Period(row[r].cadence)]
                  ELSE row[r]]
    /\ hold' = [r \in Rows |-> IF r \in s THEN Period(row[r].cadence) ELSE hold[r]]

\* The cron fires a new execution and its first node claims topics.
ClaimDueTopics(t) ==
    /\ pc[t] \in {"ended", "crashed"}
    /\ \E s \in Claimable(Topics) :
        /\ Claim(t, s)
        /\ unit' = [unit EXCEPT ![t] = [r \in Rows |-> IF r \in s THEN "claimed" ELSE "none"]]
    /\ run' = [run EXCEPT ![t] = [r \in Rows |-> NoRun]]
    /\ pc' = [pc EXCEPT ![t] = "claimExports"]
    /\ UNCHANGED <<gone, req, counters>>

ClaimDueExportSubscriptions(t) ==
    /\ pc[t] = "claimExports"
    /\ \E s \in Claimable(Exports) :
        /\ Claim(t, s)
        /\ unit' = [unit EXCEPT ![t] = [r \in Rows |-> IF r \in s THEN "claimed" ELSE @[r]]]
    /\ pc' = [pc EXCEPT ![t] = "plan"]
    /\ idle' = 0
    /\ UNCHANGED <<gone, run, req, crashes, edits>>

-----------------------------------------------------------------------------
(* What a tick does with what it claimed.                                  *)

\* Mutant: the LIMIT of each claim is taken for the bound on a tick.
PlanWithoutCap(t) ==
    /\ pc[t] = "plan"
    /\ LET kept == UnitsIn(t, {"claimed"})
       IN  /\ unit' = [unit EXCEPT ![t] = [r \in Rows |-> IF r \in kept THEN "kept" ELSE @[r]]]
           /\ pc' = [pc EXCEPT ![t] = IF kept = {} THEN "ended" ELSE "open"]
    /\ UNCHANGED <<row, gone, run, req, hold, counters>>

\* Merge Claims puts topics ahead of exports; what the cap cuts off has been
\* rescheduled already and is not looked at again.  A batch with nothing left
\* in it ends the execution.
PlanDispatch(t) ==
    /\ pc[t] = "plan"
    /\ LET claimed == UnitsIn(t, {"claimed"})
       IN  \E kept \in CapBatch(claimed \cap Topics, claimed \cap Exports, BatchCap) :
            /\ unit' = [unit EXCEPT ![t] =
                  [r \in Rows |-> IF r \in kept THEN "kept"
                                  ELSE IF r \in claimed THEN "dropped" ELSE @[r]]]
            /\ pc' = [pc EXCEPT ![t] = IF kept = {} THEN "ended" ELSE "open"]
    /\ UNCHANGED <<row, gone, run, req, hold, counters>>

\* Mutant: executeOnce on Open Run, so the batch opens one row.
OpenFirstRun(t) ==
    /\ pc[t] = "open"
    /\ \A r \in UnitsIn(t, {"kept"}) : DomainOf[r] \notin gone
    /\ \E first \in UnitsIn(t, {"kept"}) :
        run' = [run EXCEPT ![t] = [r \in Rows |-> IF r = first THEN OpenedRun ELSE NoRun]]
    /\ pc' = [pc EXCEPT ![t] = "invoke"]
    /\ UNCHANGED <<row, gone, unit, req, hold, counters>>

\* One runs row per unit, in one statement.
OpenRun(t) ==
    /\ pc[t] = "open"
    /\ \A r \in UnitsIn(t, {"kept"}) : DomainOf[r] \notin gone
    /\ run' = [run EXCEPT ![t] =
                  [r \in Rows |-> IF unit[t][r] = "kept" THEN OpenedRun ELSE NoRun]]
    /\ pc' = [pc EXCEPT ![t] = "invoke"]
    /\ UNCHANGED <<row, gone, unit, req, hold, counters>>

\* Mutant: the executor goes on past the refused statement.
OpenRunRefusedAndOn(t) ==
    /\ pc[t] = "open"
    /\ \E r \in UnitsIn(t, {"kept"}) : DomainOf[r] \in gone
    /\ pc' = [pc EXCEPT ![t] = "invoke"]
    /\ UNCHANGED <<row, gone, unit, run, req, hold, counters>>

\* runs.domain_id references domains: one unit whose domain has gone since the
\* claim refuses the statement, and with it the rows of every other unit.
OpenRunRefused(t) ==
    /\ pc[t] = "open"
    /\ \E r \in UnitsIn(t, {"kept"}) : DomainOf[r] \in gone
    /\ pc' = [pc EXCEPT ![t] = "crashed"]
    /\ UNCHANGED <<row, gone, unit, run, req, hold, counters>>

\* Mode each, waiting: one unit at a time, in the order of the stream.
InvokeTargetWorkflow(t, r) ==
    /\ pc[t] = "invoke"
    /\ unit[t][r] = "kept"
    /\ UnitsIn(t, {"running"}) = {}
    /\ r \in Exports => UnitsIn(t, {"kept"}) \cap Topics = {}
    /\ unit' = [unit EXCEPT ![t][r] = "running"]
    /\ UNCHANGED <<row, gone, pc, run, req, hold, counters>>

\* Mutant: errors is assigned, so a later close erases what the target wrote.
CloseRunsReplacingErrors(t, units, status, entries) ==
    run' = [run EXCEPT ![t] =
               [r \in Rows |-> IF r \in units /\ @[r].status # "absent"
                               THEN [status |-> status, finished |-> TRUE, errors |-> entries]
                               ELSE @[r]]]

\* Closes the runs of some units.  An UPDATE ... WHERE id that finds no row
\* changes nothing and reports nothing; errors are appended, never replaced.
CloseRuns(t, units, status, entries) ==
    run' = [run EXCEPT ![t] =
               [r \in Rows |-> IF r \in units /\ @[r].status # "absent"
                               THEN [status |-> status, finished |-> TRUE,
                                     errors |-> @[r].errors \cup entries]
                               ELSE @[r]]]

\* ar-ingest and ar-digest close the run themselves before they answer an item,
\* appending to errors when they report anything but ok.
TargetAnswers(t, r, said) ==
    /\ pc[t] = "invoke"
    /\ unit[t][r] = "running"
    /\ unit' = [unit EXCEPT ![t][r] = said]
    /\ CloseRuns(t, {r}, StatusSaid[said], IF said \in Failures THEN {"target"} ELSE {})
    /\ UNCHANGED <<row, gone, pc, req, hold, counters>>

\* A target whose chain ends early answers nothing and writes nothing; one that
\* is missing, or raises, takes the error output.
TargetEnds(t, r, how) ==
    /\ pc[t] = "invoke"
    /\ unit[t][r] = "running"
    /\ unit' = [unit EXCEPT ![t][r] = how]
    /\ UNCHANGED <<row, gone, pc, run, req, hold, counters>>

\* Mutant: waitForSubWorkflow false, so the chain does not wait for its targets.
CloseRunSucceededAtOnce(t) ==
    /\ pc[t] = "invoke"
    /\ CloseRuns(t, UnitsIn(t, Answered), "ok", {})
    /\ pc' = [pc EXCEPT ![t] = "closeFailed"]
    /\ UNCHANGED <<row, gone, unit, req, hold, counters>>

\* The two closing nodes run when every invocation is over, this one first.
CloseRunSucceeded(t) ==
    /\ pc[t] = "invoke"
    /\ UnitsIn(t, {"kept", "running"}) = {}
    /\ CloseRuns(t, UnitsIn(t, Answered), "ok", {})
    /\ pc' = [pc EXCEPT ![t] = "closeFailed"]
    /\ UNCHANGED <<row, gone, unit, req, hold, counters>>

\* Mutant: both closing nodes write the status of the first.
CloseRunFailedAsOk(t) ==
    /\ pc[t] = "closeFailed"
    /\ CloseRuns(t, UnitsIn(t, {"raised"}), "ok", {"dispatcher"})
    /\ pc' = [pc EXCEPT ![t] = "ended"]
    /\ UNCHANGED <<row, gone, unit, req, hold, counters>>

CloseRunFailed(t) ==
    /\ pc[t] = "closeFailed"
    /\ CloseRuns(t, UnitsIn(t, {"raised"}), "failed", {"dispatcher"})
    /\ pc' = [pc EXCEPT ![t] = "ended"]
    /\ UNCHANGED <<row, gone, unit, req, hold, counters>>

\* The executor dies, or a statement is refused.  Nothing is resumed.
Crash(t) ==
    /\ pc[t] \notin {"ended", "crashed"}
    /\ crashes < CrashLimit
    /\ pc' = [pc EXCEPT ![t] = "crashed"]
    /\ crashes' = crashes + 1
    /\ UNCHANGED <<row, gone, unit, run, req, hold, idle, edits>>

-----------------------------------------------------------------------------
(* The API: a verb reads the row, decides, and writes later.               *)

Edit == edits < EditLimit /\ edits' = edits + 1

\* POST /topics, POST /exports: a row is created unscheduled.
CreateRow(r, c, on) ==
    /\ Edit
    /\ row[r].life = "unborn" /\ DomainOf[r] \notin gone
    /\ row' = [row EXCEPT ![r] = [life |-> "live", enabled |-> on,
                                  cadence |-> c, due |-> Null]]
    /\ UNCHANGED <<gone, tickVars, req, hold, idle, crashes>>

\* PATCH: enabled and cadence, in force from the next claim; never due.
PatchRow(r, c, on) ==
    /\ Edit
    /\ row[r].life = "live"
    /\ <<c, on>> # <<row[r].cadence, row[r].enabled>>
    /\ row' = [row EXCEPT ![r].cadence = c, ![r].enabled = on]
    /\ UNCHANGED <<gone, tickVars, req, hold, idle, crashes>>

DeleteRow(r) ==
    /\ Edit
    /\ row[r].life = "live"
    /\ row' = [row EXCEPT ![r].life = "deleted"]
    /\ UNCHANGED <<gone, tickVars, req, hold, idle, crashes>>

\* Deleting a domain cascades to its topics, its subscriptions and its runs.
DeleteDomain(d) ==
    /\ Edit
    /\ d \notin gone
    /\ gone' = gone \cup {d}
    /\ row' = [r \in Rows |-> IF DomainOf[r] = d THEN [row[r] EXCEPT !.life = "deleted"]
                              ELSE row[r]]
    /\ run' = [t \in Ticks |-> [r \in Rows |-> IF DomainOf[r] = d THEN NoRun ELSE run[t][r]]]
    /\ UNCHANGED <<pc, unit, req, hold, idle, crashes>>

\* run-now reads the row and refuses a disabled one ...
BeginRunNow(o, r) ==
    /\ Edit
    /\ req[o] = NoRequest
    /\ row[r].life = "live" /\ row[r].enabled
    /\ req' = [req EXCEPT ![o] = [verb |-> "runNow", row |-> r, target |-> Null]]
    /\ UNCHANGED <<row, gone, tickVars, hold, idle, crashes>>

\* ... and a pause reads a topic, refuses an unscheduled one, and works the
\* instant out before it writes.
BeginPause(o, r, cycles) ==
    /\ Edit
    /\ req[o] = NoRequest
    /\ row[r].life = "live" /\ row[r].due # Null
    /\ req' = [req EXCEPT ![o] =
                 [verb |-> "pause", row |-> r,
                  target |-> PauseFrom(row[r].due, cycles, row[r].cadence)]]
    /\ UNCHANGED <<row, gone, tickVars, hold, idle, crashes>>

\* The write names the row by id and looks at nothing else.  A run-now takes
\* its instant now; a row that has gone is a 404 that changes nothing.
WriteSchedule(o) ==
    LET r == req[o].row
        due == IF req[o].verb = "runNow" THEN 0 ELSE req[o].target
    IN  /\ req[o] # NoRequest
        /\ req' = [req EXCEPT ![o] = NoRequest]
        /\ IF row[r].life = "live"
           THEN /\ row' = [row EXCEPT ![r].due = due]
                /\ hold' = [hold EXCEPT ![r] = 0]
           ELSE UNCHANGED <<row, hold>>
        /\ UNCHANGED <<gone, tickVars, counters>>

-----------------------------------------------------------------------------
Advance ==
    /\ idle < IdleLimit
    /\ idle' = idle + 1
    /\ row' = [r \in Rows |-> [row[r] EXCEPT !.due = Age(@)]]
    /\ hold' = [r \in Rows |-> IF hold[r] > 0 THEN hold[r] - 1 ELSE 0]
    /\ req' = [o \in Operators |-> [req[o] EXCEPT !.target = Age(@)]]
    /\ UNCHANGED <<gone, tickVars, crashes, edits>>

TickStep(t) ==
    \/ ClaimDueTopics(t)
    \/ ClaimDueExportSubscriptions(t)
    \/ PlanDispatch(t)
    \/ OpenRun(t)
    \/ OpenRunRefused(t)
    \/ \E r \in Rows :
        \/ InvokeTargetWorkflow(t, r)
        \/ \E said \in Answered : TargetAnswers(t, r, said)
        \/ \E how \in {"noItems", "raised"} : TargetEnds(t, r, how)
    \/ CloseRunSucceeded(t)
    \/ CloseRunFailed(t)

ApiStep ==
    \/ \E r \in Rows, c \in Cadences, on \in BOOLEAN : CreateRow(r, c, on) \/ PatchRow(r, c, on)
    \/ \E r \in Rows : DeleteRow(r)
    \/ \E d \in Domains : DeleteDomain(d)
    \/ \E o \in Operators :
        \/ \E r \in Rows : BeginRunNow(o, r)
        \/ \E r \in Topics, n \in PauseCycles : BeginPause(o, r, n)
        \/ WriteSchedule(o)

Next ==
    \/ Advance
    \/ \E t \in Ticks : TickStep(t) \/ Crash(t)
    \/ ApiStep

Spec == Init /\ [][Next]_vars

\* The cron keeps firing, the executor keeps an execution moving, a target
\* workflow returns, and a request that has read its row goes on to its write.
\* Nothing is assumed of what operators ask for, or of crashes.
FairSpec ==
    /\ Spec
    /\ WF_vars(Advance)
    /\ \A t \in Ticks : WF_vars(TickStep(t))
    /\ \A o \in Operators : WF_vars(WriteSchedule(o))

-----------------------------------------------------------------------------
(* What the dispatcher promises.                                           *)

RowRecord == [life : Lives, enabled : BOOLEAN, cadence : Cadences, due : DueTime]
Request == {NoRequest} \cup [verb : {"runNow", "pause"}, row : Rows, target : DueTime]

\* The type of every variable.
TypeOK ==
    /\ row \in [Rows -> RowRecord]
    /\ gone \subseteq Domains
    /\ pc \in [Ticks -> Nodes]
    /\ unit \in [Ticks -> [Rows -> UnitStates]]
    /\ run \in [Ticks -> [Rows -> RunRow]]
    /\ req \in [Operators -> Request]
    /\ hold \in [Rows -> Nat]
    /\ idle \in Nat /\ crashes \in Nat /\ edits \in Nat

Takes(t, r) == unit[t][r] # "claimed" /\ unit'[t][r] = "claimed"

\* Overlapping ticks, crashes and retries never dispatch a row again inside the
\* clamped interval its last claim granted: only an operator's verb shortens it.
\* (The claim and the reschedule are one statement: Claim Due Topics.)
ClaimsKeepTheirDistance ==
    [][\A t \in Ticks, r \in Rows : Takes(t, r) => hold[r] = 0]_vars

Spending == {"kept", "running"} \cup Settled

\* However large the backlog in both tables, one tick spends at most the cap.
\* (capBatch behind Merge Claims.)
CapBoundsInvocations ==
    \A t \in Ticks : Cardinality(UnitsIn(t, Spending)) <= BatchCap

\* A target never works without the runs row its pass is charged to.
\* (Open Run ahead of Invoke Target Workflow, one row per unit.)
InvokedUnitHasItsRun ==
    \A t \in Ticks, r \in Rows :
        /\ unit[t][r] \in {"running"} \cup Settled
        /\ DomainOf[r] \notin gone
        => run[t][r].status # "absent"

\* When a tick is over, the status of a run says how its invocation went: ok for
\* one that answered an item, failed for one that raised, and running for one
\* that answered nothing.  (Close Run Succeeded and Close Run Failed.)
StatusTellsOutcome ==
    \A t \in Ticks, r \in Rows :
        pc[t] = "ended" /\ DomainOf[r] \notin gone =>
            /\ run[t][r].status = "ok" <=> unit[t][r] \in Answered
            /\ run[t][r].status = "failed" <=> unit[t][r] = "raised"
            /\ run[t][r].status = "running" <=> unit[t][r] = "noItems"

\* A failure leaves its entry in runs.errors for the next digest to show, also
\* when the dispatcher's ok has replaced the status the target reported.
\* (Close Run Succeeded leaves errors alone, Close Run Failed appends.)
FailuresLeaveAnEntry ==
    \A t \in Ticks, r \in Rows :
        pc[t] = "ended" /\ DomainOf[r] \notin gone =>
            run[t][r].errors = CASE unit[t][r] \in Failures -> {"target"}
                                 [] unit[t][r] = "raised" -> {"dispatcher"}
                                 [] OTHER -> {}

\* No backlog, and no cap, makes the claim pass a due row by for ever: the
\* longest overdue go first.  (ORDER BY next_run_at inside the claim.)
DueRowIsClaimed == \A r \in Rows : Eligible(r) ~> ~Eligible(r)

\* A claimed unit is invoked and its invocation ends: only the cap, or the death
\* of its execution, can cost it the period it was claimed for.
ClaimedUnitSettles ==
    \A t \in Ticks, r \in Rows :
        unit[t][r] = "claimed" ~> unit[t][r] \in Settled \cup {"dropped"} \/ pc[t] = "crashed"

DueRows == { r \in Rows : Eligible(r) }
AliveOn(r, states) == { t \in Ticks : unit[t][r] \in states /\ pc[t] # "crashed" }
Owed == [r \in Rows |-> AliveOn(r, {"claimed", "kept"})]
Working == [r \in Rows |-> AliveOn(r, {"running"})]

Work == INSTANCE DueWork WITH Passes <- Ticks, due <- DueRows, owed <- Owed,
                              working <- Working

\* What a row's due time is worth: a row is taken when due, at most once per
\* taking, and a pass works only on what it took.  (DueWork.)
WorkSpec == Work!Spec

-----------------------------------------------------------------------------
(* What the repository says of the dispatcher and the code does not do.    *)

\* "a pause of a row due next week does not pull it forward": schedule.ts.
PauseNeverPullsForward ==
    [][\A o \in Operators, r \in Rows :
          /\ req[o].verb = "pause" /\ req[o].row = r
          /\ req'[o] = NoRequest /\ row'[r] # row[r]
          => row'[r].due >= row[r].due]_vars

\* "the longest overdue first, so a backlog drains in the order it accumulated":
\* 06-scheduling.md.
BacklogDrains ==
    \A r \in Rows : Eligible(r) ~> ~Eligible(r) /\ \E t \in Ticks : unit[t][r] \in Settled
=============================================================================
