# Verification of the research pipeline

This directory is the formal model of the agentic research template: TLA+
modules translated from the workflows under `packages/service/workflows/src`
and from the service under `packages/service`, TLC configurations that check
them on small instances, and proofs TLAPS checks for every instance.
`PROJECT.json` lists the components, the runs, the source lines every
definition stands for, the hazards and the theorems. Paths below are relative
to `packages/service` in the repository.

Contents: 1 the system, 2 what makes it hard, 3 the modules, 4 the runs,
5 the proofs, 6 where the repository and the code disagree, 7 what is not
modelled, 8 the plan, 9 how to run it.

## 1. The system

Three parts share one Postgres schema, and nothing else:

* **Postgres** is the only source of truth (`src/db/schema`). Its constraints
  are part of the behaviour: a foreign key that cascades, a check on two
  timestamps, a unique hash.
* **The workflow executor** (n8n) runs the six workflows. A workflow is a chain
  of nodes; a Postgres node runs statements, and between two of them nothing is
  locked. Executions are not resumed, and two executions of one workflow may
  overlap.
* **The service** (`src`, `lib`) is an Express application with an HTTP API, an
  MCP endpoint and scripts. It reads and writes the same rows, mostly one
  statement at a time and by id.

A web application, a component library and developer tools sit beside them and
keep no state of record.

| component | state it keeps | operations | must be true of it |
|---|---|---|---|
| dispatcher, `workflows/src/ar-dispatch.json` | none of its own: `next_run_at` of topics and exports, the `runs` it opens | claim topics, claim exports, merge, cap, open runs, invoke, close | a row is taken only when due and not twice in its period; what one tick spends is capped; a run tells how it ended; a due row is not passed over for ever |
| scheduling arithmetic, `src/lib/schedule.ts`, `lib/schedule.ts` | pure | clamp, batch cap, pause | the interval stays in its bounds, a pause ends later than now and than the old due time |
| topics, `src/topics`; export subscriptions, `src/subscriptions` | `topics`, `export_subscriptions` | create, patch, delete, run-now, pause | a verb does what its answer says whatever it races with |
| runs and ledger, `src/runs` | `runs`, `llm_calls` | open, close, append an error, charge a call | every call made is charged; an error is not overwritten |
| research gate, `src/approvals`, `src/entities`, `scripts/approve.ts` | `research_pool` | raise, approve, reject, record | nothing is searched before a person consented to that row |
| research pass, `ar-research` | `entity_research`, and it closes pool rows | drain, gate names, cap calls, ask, ledger, record, propose the next run | bounded spend, no starvation, the agent may not keep rescheduling itself |
| ingest pass, `ar-ingest` | `documents`, `findings`, `sources` health | select, fetch, extract, store, judge health, gate, ask, ledger, write, raise, close | one document one charge; health counts what happened |
| scoring pass, `ar-score` | scores of findings, a `runs` row | load, select, compute or reuse vectors, fold, write, close | scores of one pass compare; its run says what stands scored |
| capture pass, `ar-capture` | `documents`, `findings`, health, a `runs` row | store, judge, read, promote, file, judge health, close | nothing posted is lost, nothing is filed twice |
| digest pass, `ar-digest` | `briefings`, `llm_calls` | select the period, draft, ledger, store, close | nothing reported twice or never |
| configuration proposals, `src/sources` | `source_config_proposals`, the parser config of `sources` | propose, approve, apply, reject, patch | what is in force was approved and applied |
| service runtime, `lib/service-core`, `lib/express` | in memory | boot, circuit breaker, dependency life cycle, control plane, shutdown | a status tells of the resource behind it, resources go in reverse order |
| sessions, `src/auth` | `auth_users`, `auth_sessions` | boot, login, verify, logout, sweep | a session is honoured while it lives and no longer |

How they meet: the dispatcher claims a due row of `topics` or
`export_subscriptions`, opens a `runs` row and invokes `ar-ingest` or
`ar-digest`; `ar-ingest` ends by invoking `ar-score` and `ar-research`. The
passes raise rows of `research_pool`; a person rules on those through the API
or `scripts/approve.ts`; the next `ar-research` drains the approved ones.
`ar-capture` writes the same `documents`, `findings` and source health from
posted pages, and reads them under the parser config a ruled-on proposal put in
force. `ar-digest` tells of the findings all of them leave. The operators'
verbs write the very columns the dispatcher claims by and the scoring pass
reads. There are no messages and no callbacks between the parts: every
interaction is a statement on a shared row, which is what the modules model.
Inside the service process, the runtime is one thread that gives way at each
`await`.

## 2. What makes it hard

Every hazard is in `PROJECT.json` at its line. By kind:

* *Overlap.* The cron fires whatever the last execution is doing, so two
  dispatchers claim at once, two research passes drain the same rows (the drain
  takes no lock and marks nothing), two ingest passes meet in one document, two
  posts of one page race for the key of its content, two digests select one
  period, two rulings apply one proposal.
* *Read, then write.* `run-now` and `pause` read a row, decide, and write by id.
  Source health is counted from columns read when the pass began; a statement
  looks up a row in the snapshot it began under; a session is judged after its
  row came back; a dependency's status is read before its hook is awaited.
* *Dying half way.* An execution that dies after its claim has already
  rescheduled what it did not do; one that dies after a call has paid for it; a
  capture is stored before anything has judged it.
* *Partial failure.* One unit whose domain was deleted refuses the `INSERT` of
  the whole batch's runs; one record its contract refuses fails its source; a
  candidate or a document with no usable chunk drops out between the ceiling and
  the call; a dependency whose stop failed is stopped like another.
* *Order.* The dispatcher closes a run after its target closed it another way;
  exports stand behind topics at the cap; both stamps of a proposal are the
  `BEGIN` of a transaction that may wait; a finding is dated when its statement
  begins and seen when it commits.
* *Limits and edges.* Two claims of a cap each, one cap for both; a drain that
  refused rows can fill; a corpus window one row too short; a period that opens
  at the instant the last one closed; two clocks, one of which dates a session
  and the other sweeps it.
* *Stale data.* A vector stored under other terms, or another layout of its
  columns, reads as one of today.
* *Never.* A due row behind a cap, a claimed unit, an approved row behind
  refused ones: each may wait for ever unless the order saves it.

## 3. The modules

| module | models | how |
|---|---|---|
| `Schedule` | the clamp in `src/lib/schedule.ts` and in the claim's SQL, `capBatch` and `pauseUntil` | operators; an instant is a difference from now, `Null` is SQL `NULL`, absolute floors and ceilings are optional bounds |
| `Dispatch` | `ar-dispatch`, the topic and subscription services, deletion of a domain | a state machine; EXTENDS `Schedule` |
| `DueWork` | what scheduling promises and nothing of how | abstract specification, implemented by `Dispatch` |
| `ResearchPool` | the raises of `ar-ingest` and `ar-score`, `approve.ts` and the API's rulings, `ar-research` from drain to record | a state machine |
| `ApprovalGate` | consent before action, action before closing, for ever | abstract specification, implemented by `ResearchPool` |
| `AgentReschedule` | `ar-research` from Propose Next Run to Close Research Run, and the other writers of the topic | a state machine |
| `SourceHealth` | `src/lib/source-health.ts` | operators, shared by the next and `Capture` |
| `Ingest` | `ar-ingest` from Select Active Sources to Close Run | a state machine; EXTENDS `SourceHealth` |
| `AskOnce` | stored, then asked about once, then charged, then found in | abstract specification, implemented by `Ingest` |
| `Capture` | `ar-capture`, among ingest passes and changes of the parser config | a state machine; EXTENDS `SourceHealth` |
| `ConfigProposals` | `approve.ts` and the API's rulings on proposals, the patch of a source | a state machine |
| `Digest` | `ar-digest`, among the passes that write findings | a state machine |
| `CircuitBreaker` | `lib/service-core/circuit-breaker.ts` | operators on a value |
| `ServiceRuntime` | `createService`, dependencies, the control plane, signals and `gracefulStop` | a state machine; EXTENDS `CircuitBreaker` |
| `Sessions` | `src/auth`: boot, login, verification, logout, sweep | a state machine over two clocks |
| `Scoring` | `ar-score`, among edits of the configuration and deployments | a state machine |
| `MC*` | instances | constants and symmetry; `MCIngest` and `MCCapture` add history variables for one property each |
| `*Proofs` | theorems, for one component each but two | proofs only; `DispatchProofs` also holds those about `Schedule`, `ResearchPoolProofs` those about `AgentReschedule` (the end of the same pass), `OperatorProofs` those about `Sessions` and `ConfigProposals` (what an operator does through the API). Modules that are extended together name their specifications apart: `RescheduleSpec`, `RulingSpec` |

### Dispatch

`row` holds the schedulable columns of both tables. Only differences from
`now()` matter to the code, so `due[r]` is `next_run_at - now()` and `Advance`
takes a unit off every difference, including the instant a pending pause has
already worked out. The period of a cadence is in the same abstract unit.
`pc`, `unit` and `run` are one execution each: the node it runs next, what
became of each claimed unit, and the `runs` row it opened. `req` is an operator
request between its read and its write. `hold` is history: what is left of the
period the last claim granted.

One node is one action. `Claim Due Topics` and `Claim Due Export Subscriptions`
are two statements, so the world moves between them; each selects, locks with
`SKIP LOCKED` and reschedules at once. A row some write has locked may be
skipped (`LockedByWrites`), and ties in `next_run_at` are broken any way.
`PlanDispatch` is Merge Claims and the cap: topics first, the rest dropped with
the reschedule the claim gave it. `OpenRun` is one `INSERT` for the whole batch,
refused as a whole if one domain has gone (`OpenRunRefused`). `Invoke` is one
unit at a time, in stream order; a target answers after closing its run as
`ok`, `partial` or `failed`, answers no item, or raises. `CloseRunSucceeded` and
`CloseRunFailed` run when all invocations are over; appending to `errors` never
replaces. `Crash` is an execution that dies at any node.

The API: create, patch, delete and delete-domain are one statement each.
`BeginRunNow` and `BeginPause` are the read with its refusals, `WriteSchedule`
the later write by id, which looks at nothing else.

### ResearchPool

`pool` holds the rows of `research_pool` of one domain. `stamps` are
`approved_at` and `researched_at`, present or not; `fresh` is what is left of
`minResearchIntervalSeconds` since the second. A raise is two actions,
`BeginRaise` and `CommitRaise`, because a statement reads the snapshot it began
under and no unique key stands behind its two guards. `ar-ingest` knows no
entity yet (its rows have `entity_id` NULL), `ar-score` does. `Approve` and
`Reject` are by id and whatever the row's state, as `approveById` and
`rejectById` are. A pass is `DrainApprovedIntentions`, `StageCandidates` (the
name gate and the call ceiling), `PrepareModelPrompt`, one `ResearchCandidate`
per call, `LedgerModelCall` and `RecordResearch`, the last being one statement
that the check on the two stamps may refuse. `spent`, `ledger` and `dossiers`
count the calls made, charged and recorded for each row.

The drain composes the documents behind a subject into the material the model is
shown, and Prepare Model Prompt skips a candidate whose material leaves no usable
chunk. `material` is the set of findings with enough text behind them, `offered`
the rows a pass drained with such text, and `MaterialMoves` another pass filing a
document that brings the text or displaces it (five documents are composed, the
newest first). A skipped row keeps its stamps and its place at the head of the
queue. A missing persona raises in the same node, and is a `Crash`.

### AgentReschedule

One topic, its domain's ceiling, and passes that may overlap. `Close Research
Run` is one statement under READ COMMITTED, and it reads the topic twice: the
CTE `walk` reads the snapshot the statement began under, and the arms of the
`UPDATE` read the row again once its lock is held. So it is two actions,
`BeginClose` and `FinishClose`, with another pass, an operator or a deletion
between them. `RETURNING` works `gap_written` out of what `walk` read, and the
run's `scheduled_by` out of that (`GapWritten`, `ScheduledBy`); whether the due
time moves is decided by the second reading (`Writes`). `streak` is the column
`agent_reschedules`; `walk` is history, the gaps actually written since a pass
last proposed none, and nothing but the proof says the two agree. The length of
a gap is left to `Schedule`.

`Invoke` takes a pass with a topic or without one: Prepare Research Handover
sends what the trigger of `ar-ingest` was handed, or null. As the workflows are
wired today Open Run answers the run's id alone and that item is what Invoke
Target Workflow passes on, so the topic arrives null and Propose Next Run
withholds; `Dispatch` is that wiring, and has no agent writing due times.
`AgentReschedule` says what holds once a caller names the topic, which is what
the two nodes are written for.

### Ingest

A pass is a dispatched run. `documents` is the corpus in the order of its ids,
an item being its content, and the unique hash is that no item stands in it
twice. `sources` are the two columns of `SourceHealth`, and `pass[p].seen` what
Select Active Sources read of them: `ApplySourceHealth` counts from that and
writes over whatever the row holds by then. Fetching is one action, since every
payload is read before anything is stored; what each source answers is chosen
from `Payloads`, nothing for one that could not be reached or read. Write
Documents, Apply Source Health, the model calls, the ledger and Write Findings
are one statement or call per item, and other passes may come between any two:
each is an action per item, and a `pass` field holds those it has run for.
Where the executor batches items the model has more interleavings than the
code, never fewer. A pass that reaches a node with nothing to hand on simply
ends (`dry`), Close Run included, and `PassStops` is one that dies.

`SelectRecentCorpus` marks near duplicates against the newest `Window`
documents with a smaller id and gates what the pass stored itself, by relevance
then id (`Before`), and `ApplyCallCeiling` keeps the best. `PrepareModelPrompt`
drops those of them whose body leaves no usable chunk (`Readable`), below the
ceiling, so the place such a document took goes to no other; a pass that loses
all it had ends there, Close Run included. A call that fails stays in the stream
as an answer the contract refuses.

### Capture

A request is an execution of its own. A row of `documents` has a key that is
first the posted body's (`Pending`) and, once read, its content's; `raw` is what
the row has of the post, and `note` the account of it in `parse_error`.
`Provenance` is the one write to `raw` after the insert: an accepted body
becomes its `Envelope`, the note and the record with the members the contract
names, so two bodies that differ in another member become one; a refused body
stays as it was posted. Two statements look something up and write in one: Store
Raw Capture and Promote Capture Document. Each reads the snapshot it began
under, while its write is checked against what has been committed since, so each
is two actions (`BeginStore`, `StoreRawCapture`; `BeginPromotion`,
`PromoteCaptureDocument`). The first then answers no row at all where another
request stored the body in between; the second is refused by the unique key
where another took the content, and the pass dies (`raised`). `seen` and
`config` are read at the start. `IngestWrites` is the same corpus reached by a
pull source, `ConfigChanges` an applied proposal.

### ConfigProposals

One source. A ruling of the API is a read that may refuse (`Admit`) and then a
transaction: `Begin` (whose instant `now()` is, in both stamps), one action per
statement, and the commit at which its writes are seen. The row of the proposal
is locked from the first statement and the source's from the second; nobody
else waits in another order. `RollBack` is a failure anywhere. The terminal
rules by id, in a statement, on a row in any state. `overlap` is history: the
calls that were ever under way together.

### Digest

`created` and `generated` are the instants at which an `INSERT` began, and the
row is seen from its commit on, which is why findings and briefings are stored
in two actions. `Covered` is Select Digest Material: the findings created at or
after the stamp of the newest stored briefing. An empty period ends the chain
at the ceiling and leaves no briefing. `seen` is history: the rows there were
when each pass selected.

### CircuitBreaker and ServiceRuntime

A caller is a request, a shutdown or the boot, and `at` is the await it stands
at. A step is what one thread does between two awaits: `BeginStart`, `Stop`,
`BeginHook` check the status and go on to await a hook, and `HookSettles` writes
the status the hook leads to, over whatever was written meanwhile. A hook
resolves or rejects. `resource` is `held` once an `onStart` has resolved,
`released` once an `onStop` has, and `unreleased` where an `onStop` rejected
instead: `stop` sets the status in a `finally`, so the dependency then reads
stopped, no later `stop` calls its hook again, a shutdown goes on to the
dependency before it, and a restart answers without starting. The control plane
is `Restart`, `Pause` and `Resume`; a request keeps its connection until it is
answered or the client leaves, and the handler does not hear of the second.
`Drained` waits for every connection, as `server.close` does. A second signal of
a kind registered with `process.once` finds no handler and ends the process. The
breaker's instant of opening is kept as whether the timeout has elapsed since,
and `elapsed` is set by `TimeoutElapses`.

### Sessions

A token is known by the login that minted it, and nobody presents one that no
login has answered with. `sessions` are the rows; an instant is 1 or later, so
that 0 is `NULL`. A login reads the credential, verifies and dates the session
by the service's clock `now`, and inserts it; a guarded request reads the row
(`RequestReads`) and judges what it read (`RequestJudges`); a logout and the
sweep are single statements, dated by the database's clock `dbNow`. The clocks
run apart by at most `Skew`. A call that stops is one that takes no further
step. `loggedOut`, `judged`, `dbJudged` and a logout's `stamp` are history.

### Scoring

A vector or a score is the record of what it was computed from; the numbers are
arithmetic over that. `Load Domain Context` reads terms and weights, `Select
Scoring Subjects` criteria, subjects and stored vectors, in two statements with
an edit between them. A stored vector is reused where its version is the one
the pass would compute (`Reuses`), the version being a layout number and a
digest of the terms, and two lists of terms may share a digest. A total is null
where nothing that the criteria state was measured or weighs anything, and a
null score is not written. Findings of another domain and ones named twice are
in the hand-over and not among the subjects, and the run counts them. The two
workflows that carry the layout number are deployed one by one
(`DeployWorkflow`). `DeleteDomain` cascades.

External: the executor (an execution dies and is not resumed) and the model (an
answer is accepted or refused) are modelled as the code uses them.

## 4. The runs

Every run passes: it explores its instance to the end. Bounds are constants
with `Limit` or `Horizon` in their name, and the conjuncts `OneMishap` and
`OneDeath` of two `MC` modules; they cap how often the environment may act, never
what the code may do.

| run | asks | instance |
|---|---|---|
| `dispatch_overlap` | do two executions keep every safety property over a backlog, where one dies or a domain is deleted under them? | 2 interchangeable topics and 1 export in 3 domains, cap 2 of 3 rows, one clock unit per claim, 1 crash or deletion |
| `dispatch_operators` | among an operator who edits, deletes, runs now and pauses between any two nodes, is every due row claimed in the end, and does a claimed unit settle? | 2 topics, unborn, unscheduled or overdue, crossing bounds, cap 1, 1 crash, 1 request |
| `pool_races` | what can races cost? | 3 raises of one finding, 2 in flight, no window (one finding is never raised twice on its account); 3 rulings; 2 passes; 1 refused answer; 1 crash |
| `pool_settles` | does an approved row stop waiting? | 3 rows, one of no subject, 3 rulings, drain 2, ceiling 2, window 1, material behind any of them, changing once, 1 refused answer |
| `agent_walk` | can passes that overlap move a topic past its ceiling, and do their runs tell? | 2 passes, ceilings 0 to 2, moved at any time; no other bound |
| `ingest_overlap` | what do overlapping passes, one of which may die, spend, lose and count, and what does a closed run leave unasked? | 3 passes, 1 source, 3 items (two near duplicates; one that its contract refuses, has no usable chunk and ranks first), corpus window 2, ceiling 2, threshold 2; 1 death |
| `capture_requests` | what do two posts that race lose or do twice? | 2 requests, 4 bodies of which two are one page and two one envelope, 2 parser configs, an ingest pass that stores the same content; no bound |
| `proposal_rulings` | can the two clients leave a source that nobody ruled on, or in the wrong order? | 2 proposals, 3 rulings of the API, 2 from the terminal |
| `digest_periods` | is a finding told of once? | 3 passes, 3 findings, 4 instants |
| `service_runtime` | do statuses, the order of release and the circuit tell the truth? | 2 dependencies, 2 requests, threshold 2, a signal of each kind; no bound |
| `session_lives` | is a session honoured while it lives and no longer? | 2 logins, 1 request, 2 logouts, 2 passwords, 5 instants, life 2, skew 2 |
| `score_edits` | do scores compare, and does a run say what it left? | 2 passes, 2 findings and 1 of another domain, 2 term lists, 2 sets of criteria, 2 weightings, 1 edit, deployment or deletion, 1 crash |

Why they are enough to be interesting:

* Two executions are what overlap needs, and every node of one may fall between
  any two of the other. Three rows over a cap of two make the cap bite across
  both tables. A write that straddles a claim needs a request and a clock that
  moves while an execution is in flight; a claim resets the clock's allowance,
  so time is unbounded over a behaviour and bounded between claims only.
  `Floored2` has a floor above its interval, `Crossed` bounds that cross.
  `dispatch_operators` checks liveness among the operators; that safety
  survives them is proved (section 5). A batch of two has one unit whose domain
  goes before its runs are opened and one whose does not. Edits of other kinds
  are left to `dispatch_operators` here, and a death beside a deletion to the
  proofs.
* In the pool, three raises with two in flight make both a lost race and a raise
  that comes after one; three rulings let a row be approved, rejected and
  approved again while a pass holds it, and two rows of one finding share a
  batch of two under a ceiling of one.
* In `pool_settles` three rows over a batch of two make one that can be asked
  about wait behind a badly named one, a bare one, or both, and a batch of two
  bare ones fill the ceiling. The material changes once under a waiting row. No
  execution dies there: deaths are finitely many, so they would only put off the
  pass that counts, and `pool_races` has them. That passes do not raise for ever
  for want of a persona is assumed.
* `AgentWalk` needs no bound: the ceiling bounds the count, and a ceiling
  lowered below a count already reached is among its states.
* Three ingest passes over three items make a near duplicate stored by another
  pass, one that has just left the window of two, and a counter that reaches the
  threshold and is written back below it by a pass that read it earlier. A pass
  that stores all three in the order in which the duplicate has left the window
  stages three under a ceiling of two: the bare one ranks first and drops out
  within it, another is cut off above it, and the place of the first is not
  given to the second. One death is enough: a pass that is not heard of again
  leaves what a dead one leaves, and the proofs have no bound.
* Of the first three bodies two are read as one content under one config and as
  two under the other: a lost race for the key, a repeat, a row read again as
  something else, and an envelope that is refused all happen. The fourth is the
  first with a member the contract does not name: another key, another row, the
  same envelope.
* Three rulings on two proposals make two of one proposal race while the other
  is applied between their stamps and their commits.
* Three digests make two overlap with a third before or after; four instants
  let a finding be dated before, at and after a stamp and committed after it.
* Two dependencies are an order; two requests overlap on one of them, and reach
  the breaker's threshold with a third call still out.
* A life as long as the skew lets a sweep be early by all of it, and a session
  expire on one clock while the other has yet to move.
* One edit falls between any two nodes of two passes that share findings, and a
  vector stored before it is met after it. Both totals that are null are there:
  nothing measured (`MCStatements`, `MCMeasured`), and nothing that weighs
  (`MCWeightings`).

What the properties say:

* `ClaimsKeepTheirDistance`: no claim takes a row while the period its last
  claim granted is running. It fails as soon as the reschedule leaves the claim
  (mutant `ClaimWithoutReschedule`) or the interval is not clamped.
* `CapBoundsInvocations`: the cap holds for a tick, over both tables.
* `InvokedUnitHasItsRun`: no target works without its `runs` row, unless the
  deletion of its domain took the row away.
* `StatusTellsOutcome`, `FailuresLeaveAnEntry`: when a tick has ended, the
  status says how the invocation went as the dispatcher saw it, and the failure
  the target reported survives in `errors` although the dispatcher's `ok`
  replaces the target's status.
* `WorkSpec`: `Dispatch` implements `DueWork` under `due <- DueRows`, `owed` the
  live executions that hold a row, `working` those whose target is at it.
* `DueRowIsClaimed`: no backlog, however narrow the cap, passes a due row by for
  ever. `ClaimedUnitSettles`: only the cap, or the death of its execution, costs
  a claimed unit its invocation.
* `RowsPerFindingAreBounded`: races over one finding leave no more rows than
  raises were in flight together. `SpendPerRowIsBounded`: however often a row is
  approved, rejected and approved again, it costs a call per pass that held it
  when it closed, plus one per refused answer and per death.
* `LedgerAccountsForSpend`: the ledger lags spending only while a pass is asking
  or where one died asking, and never records a result it did not charge.
* `GateSpec`: `ResearchPool` implements `ApprovalGate`: consent, then search,
  then closing, none taken back, with a row raised first.
* `ApprovedRowStopsWaiting`: an approved row that can be asked about (its name is
  sound, and there is text behind it) stops waiting. Only rows that nothing can be
  asked about hold it up: those refused by name with those skipped for want of
  material, where they fill the batch, or the second alone where they fill the
  call ceiling. One of either kind beside it does not (mutants
  `StageUnlessOneIsRefused`, `PromptUnlessOneIsBare`). A bare row itself waits as
  long as nothing is filed behind it.
* `WalkStaysUnderItsCeiling`: no pass moves the due time when as many before it
  in a row as the ceiling it read already have. It fails as soon as the arms are
  decided on what `walk` read (mutant `WritesOnSnapshot`).
  `AttributionHoldsUnlessOvertaken`: a run says `agent` exactly where its pass
  moved the due time, if no other pass moved the count while it waited.
* `DocumentIsAskedAboutOnce`: passes that meet in a document, and die anywhere,
  pay for one call. `NearDuplicatesAreAskedAboutOnce`: two near duplicates are
  both paid for only where the earlier had left the window, whoever stored them;
  it needs that the corpus is read after the pass has written to it.
  `AskOnceSpec`: `Ingest` implements `AskOnce`.
* `FlagNeedsItsFailures`: counters written from stale readings lose failures and
  never invent them. `SequentialPassesCountEveryFailure`: without an overlap
  they lose none, and no flag is lowered.
* `ClosedRunLeavesNothing`: a run that was closed is not one that skipped its
  ledger or dropped an accepted answer, and whatever its pass stored and did not
  ask about was left out for one of four reasons: the gate, a near duplicate, a
  ceiling that was filled, or within the ceiling the want of a usable chunk.
* `StoredCaptureIsKept`: once a post is stored its material stays in its row, as
  it came or as its envelope, whoever else judges that row, repeats it or
  promotes it; in some row, for a request that lost the race for one.
  `EndedCaptureIsHeld`: a capture that was read is
  in the corpus under its content, also where the unique key refused it in the
  middle of its pass, unless another request read the shared row under another
  config. `FollowingCapturesFileOnce`: a second finding of one item is the mark
  of an overlap or of such a re-reading. `OnlyARaceFailsAGoodCapture`: a run
  says `failed` of a good capture only where another request stored it.
* `InForceIsAccountedFor`: a config in force that no person wrote by hand has
  both stamps, wherever a ruling died. `AppliedAgainOnlyByAnOverlap`: the
  refusal of a second application misses only one whose answer was not out.
  `LaterStampIsInForce`: the stamps order the applications, overlaps apart.
* `OnlyADraftMissesAFinding`: a finding that no briefing tells of and none will
  was being written while one was being drafted. `ToldTwiceOnlyByAnOverlap`: two
  briefings share a finding only if neither pass could see the other's.
* `StatusTellsTheResource`: a dependency that says `running` or `paused` holds
  its resource, unless two operations were under way on it. `ShutdownOrder`: a
  shutdown comes to nothing while a client waits, nor before each dependency
  registered behind it has given its resource back, or failed to when it was
  asked (the shutdown logs that and goes on). It fails where `dep.stop` is not
  awaited (mutant `StopsUnawaited`) or the connections are not
  (`DrainedAtOnce`). `CircuitFollowsItsCalls`: a closed circuit has counted
  every failure since the last success, late ones included, and an open one lets
  nothing through.
* `AcceptedOnlyWhileLive`: a request is accepted before the expiry of its session,
  and only if it had read the row before any logout. `RefusedForAReason`: no
  boot, rotation of the password or other call takes a session away.
  `StampIsTheOneLogout`: of racing logouts one revokes, and its stamp stands.
  `SweptWithinTheSkew`: a sweep is ahead of the refusals by less than the skew.
* `ScoresOfAPassCompare`: what one pass scores was computed under one version,
  one set of criteria and one weighting, whoever stored the vectors.
  `UndisturbedScoreIsCurrent`: a pass no edit came between writes the score the
  configuration in force gives. `StatusTellsTheScores`: `ok` means every finding
  the caller named stands scored, then and after any later pass.

The type invariant of each module is a theorem where the module has proofs
(section 5) and is left out of the runs' configurations; those of `Capture`,
`ServiceRuntime` and `Scoring` hold under their configurations when added.

Fairness. `Dispatch!FairSpec` has weak fairness of each execution's next step,
of time, and of the write of a request that has read: the schedule trigger keeps
firing, the executor moves an execution it has started, a target workflow
returns (its nodes carry timeouts), and a service function that awaits its
second query gets an answer. `ResearchPool!FairSpec` has it of each pass: every
dispatched `ar-ingest` ends by invoking `ar-research`. Neither assumes anything
of whether operators act, or of rulings, answers or crashes; refusals and
crashes are finitely many because of their limits, which is what "in the end"
has to assume. `ServiceRuntime!FairSpec` has the process go on with the steps
it takes by itself, and nothing of clients or upstreams.

`CHECK_DEADLOCK FALSE` is in the configurations of the dispatcher, the pool,
the ingest, capture, digest and scoring passes and the runtime: once every
pass, request or process has ended, and nothing is due or approved, the system
rightly stops. `AgentWalk`, `Proposals` and `SessionLives` check for deadlock:
there somebody may always patch, rule or boot again.

## 5. The proofs

`tlapm` checks every theorem to its leaves, from the named assumptions on the
constants only (disjoint tables, finitely many rows or passes where something is
counted, cadences over the naturals, limits that are naturals, caps and
thresholds that are not zero, a skew that is a natural, a boot that is neither a
request nor a signal). They hold for every number of rows, passes, operators,
requests, dependencies, instants and crashes. Every safety invariant, every
action property and every refinement that a run of section 4 checks is stated by
one of them.

| theorem | states |
|---|---|
| `DispatchProofs!TypeCorrect` | `Spec => []TypeOK` |
| `DispatchProofs!ClaimsAreApart` | `Spec => ClaimsKeepTheirDistance` |
| `DispatchProofs!CapHolds` | `Spec => []CapBoundsInvocations` |
| `DispatchProofs!InvokedHasRun` | `Spec => []InvokedUnitHasItsRun` |
| `DispatchProofs!StatusIsTold` | `Spec => []StatusTellsOutcome` |
| `DispatchProofs!FailuresAreEntered` | `Spec => []FailuresLeaveAnEntry` |
| `DispatchProofs!Implements` | `Spec => WorkSpec` |
| `DispatchProofs!ClampWithinBounds`, `ClampIsIdempotent`, `PauseEndsLater` | the arithmetic, for every cadence and instant |
| `ResearchPoolProofs!PoolTypes` | `Spec => []TypeOK`, the check on the two stamps included |
| `ResearchPoolProofs!ImplementsGate` | `Spec => GateSpec` |
| `ResearchPoolProofs!FindingRowsAreBounded` | `Spec => []RowsPerFindingAreBounded` |
| `ResearchPoolProofs!RowSpendIsBounded` | `Spec => []SpendPerRowIsBounded` |
| `ResearchPoolProofs!LedgerMissesNothing` | `Spec => []LedgerAccountsForSpend` |
| `ResearchPoolProofs!WalkTypes` | `RescheduleSpec => []RescheduleTypeOK` |
| `ResearchPoolProofs!CeilingHolds` | `RescheduleSpec => WalkStaysUnderItsCeiling` |
| `ResearchPoolProofs!AttributionHolds` | `RescheduleSpec => AttributionHoldsUnlessOvertaken` |
| `IngestProofs!IngestTypes` | `Spec => []TypeOK` |
| `IngestProofs!AskedAboutOnce` | `Spec => []DocumentIsAskedAboutOnce` |
| `IngestProofs!NearDuplicatesPaidForOnce` | `Spec => []NearDuplicatesAreAskedAboutOnce` |
| `IngestProofs!FailuresAccountForFlags` | `Spec => []FlagNeedsItsFailures` |
| `IngestProofs!ClosedRunIsFinished` | `Spec => []ClosedRunLeavesNothing` |
| `IngestProofs!SpendsAsPromised` | `Spec => AskOnceSpec` |
| `IngestProofs!FailuresInARowAreCounted` | `MCSpec => []SequentialPassesCountEveryFailure` |
| `CaptureProofs!CaptureTypes` | `Spec => []TypeOK` |
| `CaptureProofs!NoPayloadIsLost` | `Spec => []StoredCaptureIsKept` |
| `CaptureProofs!EndedCapturesAreHeld` | `Spec => []EndedCaptureIsHeld` |
| `CaptureProofs!OnlyRacesFailGoodCaptures` | `Spec => []OnlyARaceFailsAGoodCapture` |
| `CaptureProofs!FollowersFileOnce` | `MCSpec => []FollowingCapturesFileOnce` |
| `ScoringProofs!ScoringTypes` | `Spec => []TypeOK` |
| `ScoringProofs!ScoresCompare` | `Spec => []ScoresOfAPassCompare` |
| `ScoringProofs!RunsTellTheScores` | `Spec => []StatusTellsTheScores` |
| `ScoringProofs!UndisturbedScoresAreCurrent` | `Spec => UndisturbedScoreIsCurrent` |
| `DigestProofs!DigestTypes` | `Spec => []TypeOK` |
| `DigestProofs!OnlyADraftMisses` | `Spec => []OnlyADraftMissesAFinding` |
| `DigestProofs!ToldTwiceByAnOverlap` | `Spec => []ToldTwiceOnlyByAnOverlap` |
| `ServiceRuntimeProofs!RuntimeTypes` | `Spec => []TypeOK` |
| `ServiceRuntimeProofs!CircuitFollows` | `Spec => []CircuitFollowsItsCalls` |
| `ServiceRuntimeProofs!StatusTells` | `Spec => []StatusTellsTheResource` |
| `ServiceRuntimeProofs!ShutdownInOrder` | `Spec => []ShutdownOrder` |
| `OperatorProofs!SessionTypes` | `Spec => []TypeOK` |
| `OperatorProofs!AcceptedWhileLive` | `Spec => []AcceptedOnlyWhileLive` |
| `OperatorProofs!RefusedWithAReason` | `Spec => []RefusedForAReason` |
| `OperatorProofs!OneLogoutStamps` | `Spec => []StampIsTheOneLogout` |
| `OperatorProofs!SweepWithinTheSkew` | `Spec => SweptWithinTheSkew` |
| `OperatorProofs!ProposalTypes` | `RulingSpec => []RulingTypeOK`, the check on the two stamps included |
| `OperatorProofs!InForceAccounted` | `RulingSpec => []InForceIsAccountedFor` |
| `OperatorProofs!AppliedOnceApart` | `RulingSpec => []AppliedAgainOnlyByAnOverlap` |
| `OperatorProofs!StampsTellInForce` | `RulingSpec => []LaterStampIsInForce` |

None of the safety properties is inductive as it stands; what strengthens them:

**Dispatch.** `HoldIsDue` ties the history to the table: the time left of a
granted period is never more than the time left to `next_run_at`, unless an
operator's verb has dropped it; so an eligible row, whose due time is past, has
no period left, which is `ClaimsKeepTheirDistance`. `RunAccount` is one
statement for every unit and its `runs` row: which unit states each node allows
(`UnitFits`), and what status, finish and errors the row has in each
(`RunFits`). The last three invariants are read off `RunAccount` at the node
`ended`. The cap needs its own argument: `PlanDispatch` bounds what it keeps
with `CapBatch`, and no later node adds a unit to those that spend.

**ResearchPool.** `GateInv` is `TypeOK` with three facts: ids past `size` have
no row (so that a raise inserts where nothing was); a row an execution holds
has been consented to, which survives a later rejection since that clears no
stamp; and an execution that has an answer has made its call, so what
`RecordResearch` closes was searched. `ApprovalGate`'s steps then follow action
by action. The counting invariants rest on it, with `Raisers` and `Passes`
finite. `RowsAreCounted` counts a raise in flight that will write a finding as
one of its rows already: it began when there was none, and its insert gives the
finding one id (a surjection between sets of one size). `MoneyInv` follows every
call to a result, to a pass that holds the answer, to a refusal or to a crash;
a result uses up the hold of a pass that drained the row before it closed, and
a closed row is not drained, so results and holders together never outnumber
the passes.

**AgentReschedule.** The inductive invariant is `WalkInv`: the types, that
`agent_reschedules` is the walk (`CountIsTheWalk`: no increment is lost, since
the `UPDATE` reads what it adds to under the lock), and that a pass which has
not ended has no run, by which a step that leaves a run is known to be the end
of that pass's statement.

**Ingest.** Three invariants on top of `Types`, each proved from a lemma that
says what a node may touch. `Owned` is the unique hash as the passes see it:
every item has one place, and one pass at most counts it as inserted by itself,
which with `InOrder` (each node finds what the one before it left) gives
`DocumentIsAskedAboutOnce` and the refinement of `AskOnce` step by step.
`Compared` says of whatever is staged that its earlier near duplicates had left
the window, and stays true because the corpus only grows at its end. `Counted`
says of the columns *and* of every reading of them a pass has yet to write that
as many failed passes stand behind them as they tell: a stale write puts back a
number that was accounted for once, and accounts never shrink. `Finished` says
node by node what is done (`WorkDone`) and why the rest is not (`LeftOut`),
first of what was staged, then of what the ceiling let through, then of what had
a chunk: a document keeps its place, so a near duplicate found stays one, and
the ceiling is full whenever it leaves something out, since ranks by relevance
and id run through every number below the size of the batch (`CeilingIsFilled`).
For passes that follow one another `InSequence` says, as long as no two were at
work on the sources at once, that at most one is (`Alone`), that what it has
seen of a source it has yet to judge is what the table says (`InTouch`), and
that the table has every failure (`CountsInARow`): a reading is stale only where
another pass wrote between it and the write, and that pass was then at work
beside it.

**Capture.** `CaptureInv` joins what a request holds to what the corpus has under
its keys. `Holdings` says what each place implies of the row, the reading and the
run, and that a row once held is held for good. `Corpus` is the unique key as the
requests see it: no two rows share one, a row under a provisional key holds the
payload the key names and is held by a request that posted it, a row under a
content was promoted there by a holder or pulled in, and a promoted row never
goes back to a provisional key. From that, a content leaves the corpus only with
a row that another of its holders read again (`ReadingsStand`, `StandingLasts`),
and a request that goes on without a row was beaten by one that has it
(`RacersStored`). `Material` is about the column that is written again: whoever
holds a row under a provisional key posted the body the key names
(`PendingMaterial`), and all who hold one row posted the same, also after its
promotion (`HeldMaterial`), so what is written over a body is its own envelope.
`FollowingCapturesFileOnce` adds what an ended request leaves
for those that begin after it (`Follows`). It excuses the item whose *first*
filing was read again: an excuse that asked for a re-reading of any row the item
was promoted from holds of the few requests of the run and fails from five on,
as the attempt to prove it showed.

**Scoring.** `ScoringInv` has three parts. `Types` keeps with every score the
configuration it was folded by (`FoldedBy`), which makes `ScoresOfAPassCompare`
a matter of one pass. `Current` says that as long as the count of edits stands
where it stood when the pass began, what it has read is what is in force,
although it reads it in two statements. `Told` says that whatever a pass that
ended `ok` was handed stands in the domain with a score; it lasts because no
later pass replaces a score by a null, and it begins because a selection as
large as the list that was handed over leaves nothing of the list out
(`AllOfTheList`).

**ServiceRuntime.** `RuntimeInv` has `InPlace` (which of boot, request and
signal can be where), `Phases` (the boot works alone, one shutdown walks the
dependencies, and past its drain no client is left), `Apart` (on a dependency
that no two operations were ever under way on, at most one request is at work,
and none from the moment a shutdown has begun on it) and `Resources` (what the
status of a dependency and the operations under way on it say of its resource:
one that reads stopped has given it back or failed to, unless two operations
were under way at once). The properties about dependencies are then read off two
of these parts each; that of the circuit is inductive beside the types, since a
call is let through with what the circuit was at the time.

**ConfigProposals.** That stamps order applications needs to know who was under
way with whom. `BegunAfterOneUnderWay` and `BegunAfterAnApplication` relate the
instants of the transactions to the history: a call that began after another
while that was still under way overlaps it, and one that began after an
application was admitted either beside it or when the row was open to nobody
else. `StampIsACall` finds, for each `applied_at`, the call whose `BEGIN` it is.

**Digest.** `SeenIsCoveredOrPassedOver`: what was there when a pass selected is
in what it covers, or lay before the stamp of a briefing it saw. Together with
`CoveredIsOlder` (a call takes time, so what is covered is older than the
stamp the briefing will get) and `PeriodOpens`, every finding a stored briefing
has moved past is covered by one or was begun during one, by tracing back along
the briefings each pass had seen (`AccountedFor`).

**Sessions.** A row is inserted once and never returns after a sweep
(`RowIsItsLogins`, `GoneHadExpired`); the first logout writes the only stamp
(`LogoutLeavesItsMark`); what a request has read was true, in the past tense
(`ReadRowIsTrue`, `RefusedRowIsPast`); and the clocks keep together.

**Model-checked only**: the liveness properties `ClaimedUnitSettles`,
`DueRowIsClaimed` and `ApprovedRowStopsWaiting`. They need fairness and
`ENABLED`, which this prover does not reach, as it does not reach induction over
recursive definitions.

## 6. Where the repository and the code disagree

Ten sentences of the repository are stated as properties the code does not
keep. Each has a configuration that is not among the runs of section 4, and
running it ends in a counterexample that is what the code does.

| configuration, property | the sentence | what happens |
|---|---|---|
| `DispatchPause`, `PauseNeverPullsForward` | a pause does not pull a row forward | worked out from a due time a claim has moved since, it does |
| `DispatchDrain`, `BacklogDrains` | a backlog drains in the order it accumulated | exports behind as many topics as the cap are rescheduled and dropped every time (under `FairSpec`) |
| `PoolDuplicate`, `DuplicateIsOnlyInTheQueue` | a lost race is a duplicate in a queue, not a duplicate search | both rows can be approved, drained and paid for |
| `PoolWindow`, `RecentSubjectIsNotSearchedAgain` | a recently researched subject is not researched again | the guard is in the raise only, and compares unresolved aliases |
| `PoolRefused`, `RefusedRowIsClosed` | a row the drain refuses is stamped and skipped | nothing stamps it; it heads every later drain |
| `AgentAttribution`, `AttributionIsReadOffTheWrite` | `scheduled_by` is read off the write rather than off the intent | it is read off the snapshot: of two passes one short of the ceiling both say `agent` and one has moved the due time |
| `IngestFlag`, `FlagIsNeverCleared` | a flag is set by the pipeline and never cleared by it (`src/lib/source-health.ts:44`) | a pass that read the columns before another raised the flag writes its own reading over it |
| `CaptureMove`, `NothingIsLostByTheMove` | the move of the body into the envelope loses nothing (`docs/architecture/04-sources.md:691`) | two accepted bodies that differ in a member the contract does not name become one envelope: the row no longer tells which was posted |
| `RuntimeDrain`, `ShutdownEnds` | `gracefulStop` waits up to `drainTimeout` before force-closing (`lib/express/shutdown.ts:7-8`) | the timer is armed once `server.close` has resolved, which waits for the connections: one that stays holds the shutdown for ever (under `FairSpec`) |
| `SessionSweep`, `SweepTakesOnlyTheRefused` | the sweep never removes a session a verify would still have accepted (`src/auth/service.ts:228-229`) | with the database's clock ahead it does, as `src/auth/db-store.ts:48-54` says |

More sentences do not describe the code; the models follow the code.

* `docs/architecture/08-http-api.md:1330` has run-now answer 409 for a disabled
  row "rather than a write", but a row disabled between the read and the write
  is written.
* `workflows/src/ar-ingest.json:412` has the dispatcher hand on the claim it
  took, but what it hands on is Open Run's answer, which is an id.
* `src/db/schema/scheduling.ts:89` has the dispatcher write the next due time
  "after a run", but the claim writes it before one, and also for a unit that is
  then cut off.
* `docs/architecture/06-scheduling.md:101` has the next tick claim a row that was
  run now, but a cap's worth of older rows goes first.
* `scripts/approve.ts:373-374` has an approved row ruled against by id still
  reach the drain, but the rejection takes it out.
* `workflows/src/ar-capture.json:59` says of Store Raw Capture's `document_id`
  that "NULL means there is no row at all", but a post that conflicts with a row
  committed after its statement began answers NULL beside that row.
* `src/approvals/ruling.ts:37-39`: "a second attempt is refused". Of two
  rulings that both read the proposal open, neither is.
* `lib/service-core/circuit-breaker.ts:11` lets "a single probe request" through
  a half-open circuit; any number pass, and a success that comes late closes an
  open one.
* `lib/express/shutdown.ts:51-52`: "only the first signal triggers shutdown". A
  second `SIGTERM` meets no handler, since `process.once` has removed it, and
  ends the process in the middle of the first.
* `src/lib/feature-version.ts:719`: "The same call writes both columns", but
  nothing writes `domains.feature_version`.

And one thing no sentence denies but a reader of the table may not expect: both
stamps of a proposal are the instant of a `BEGIN` or of a statement, so an
approval from the terminal while a ruling waits for the row leaves `applied_at`
earlier than `approved_at`.

## 7. What is not modelled

Inside modelled parts: payloads (names, numbers, bodies, tokens, costs), listing
and filtering, the uniqueness of names, the authentication of a request.

* A rejected row whose pass is already asking is searched and recorded all the
  same; that is in the model, and `ApprovalGate` promises no more.
* Which documents make up a subject's material: that there is enough of it for a
  chunk is one fact of the finding, which other passes may change.
* Of the runtime: the cron runner, the reset of a client, the HTTP client and
  its retries (a call is one await, retries included). The control plane is
  modelled as `lib` offers it; `src/index.ts` passes no `control` block, so this
  service does not mount it.
* Of sessions: the login rate limiter, the introspection secret and the
  verifier that asks another deployment.
* Of the scoring pass: that two lists of terms may share a digest is in the
  model, and the version tells configurations apart up to it. No code
  inserts criteria; the model lets them change as whoever seeds them may, and
  with the categories they hang off.
* Of the digest: the arrangement of a body and the status prose.

Not modelled: connectors, personas, and the rest of taxonomy and settings are
single-statement storage of configuration. Documents, findings and verdicts are
read and labelled by single statements; what the passes write of them is in the
modules. Exports and the text libraries (parser configuration, chunks, sketches,
prompts) are pure functions over text without states or steps. Notifications
keep no state; HTTP, MCP and static web are input and output; migrations are
generated from the schema. The web application, the component library, the
developer tools and the scaffold, marker and splice scripts are presentation or
build. By lines they are almost all of the repository, which also is half
comments and tests: what keeps shared state, and so what can be got wrong by
order, overlap and failure, is the small part the modules translate.

## 8. The plan

Order: what spends money or loses work first. Done:

1. `Schedule`, `DueWork`, `Dispatch`, their runs and proofs.
2. `ApprovalGate`, `ResearchPool`, their runs, types and refinement.
3. `AgentReschedule`, its runs and proofs.
4. `SourceHealth`, `AskOnce`, `Ingest`, the run, proofs and refinement;
   `Capture`, its run and proofs.
5. `ConfigProposals`, its run and proofs.
6. `Digest`, its run and proofs.
7. `CircuitBreaker`, `ServiceRuntime`, their run and proofs.
8. `Sessions`, its run and proofs.
9. `Scoring`, its run and proofs.

Left: one module of `Dispatch` with `AgentReschedule`, for what an agent's gap
does to the distance between claims; the cron runner.

## 9. Running it

```
tlc -workers 2 -config DispatchOverlap.cfg MCDispatch.tla
tlc -workers 2 -config DispatchOperators.cfg MCDispatch.tla
tlc -workers 2 -config PoolRaces.cfg MCResearchPool.tla
tlc -workers 2 -config PoolSettles.cfg MCResearchPool.tla
tlc -workers 2 -config AgentWalk.cfg MCAgentReschedule.tla
tlc -workers 2 -config IngestOverlap.cfg MCIngest.tla
tlc -workers 2 -config CaptureRequests.cfg MCCapture.tla
tlc -workers 2 -config Proposals.cfg MCConfigProposals.tla
tlc -workers 2 -config DigestPeriods.cfg MCDigest.tla
tlc -workers 2 -config Runtime.cfg MCServiceRuntime.tla
tlc -workers 2 -config SessionLives.cfg MCSessions.tla
tlc -workers 2 -config ScoreEdits.cfg MCScoring.tla
```

and, for the proofs, `tlapm` on each of `DispatchProofs.tla`,
`ResearchPoolProofs.tla`, `IngestProofs.tla`, `CaptureProofs.tla`,
`ScoringProofs.tla`, `DigestProofs.tla`, `ServiceRuntimeProofs.tla` and
`OperatorProofs.tla`. The configurations of section 6 run with the `MC` module
of the same component. The largest run has three million states and the longest
takes under three minutes with two workers. A mutant in `PROJECT.json` names a
definition and a mutated form of it; replacing the first by the second makes the
named property fail under the run's own configuration.
