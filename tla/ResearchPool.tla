---------------------------- MODULE ResearchPool ----------------------------
(***************************************************************************)
(* research_pool, the gate between noticing that a subject is worth a      *)
(* search and making one, within one domain.  ar-ingest and ar-score raise *)
(* its rows, a person rules on them through scripts/approve.ts or the API, *)
(* and ar-research drains the approved ones, asks a model about each, and  *)
(* records what came back as entity_research rows.                         *)
(*                                                                         *)
(* A raise is one statement whose guards read the snapshot it began under, *)
(* so another raise may commit between its two actions.  An execution of   *)
(* ar-research is the chain of its nodes, one action per node or per call. *)
(***************************************************************************)
EXTENDS Integers, FiniteSets

CONSTANTS
    Null,           \* SQL NULL
    Findings,       \* findings that carry a term to search for
    Entities,       \* the registry's rows
    EntityOf,       \* the subject each finding has been attributed to, or Null
    AliasOf,        \* the entity each one resolves to: alias_of, or itself
    Sound,          \* the entities whose name the capability gate lets through
    Raisers,        \* raise statements that may be in flight together
    Passes,         \* executions of ar-research that may overlap
    DrainLimit,     \* the LIMIT of Drain Approved Intentions
    CallCeiling,    \* MAX_RESEARCH_CALLS_PER_RUN
    Window,         \* minResearchIntervalSeconds
    RaiseLimit,     \* bound: raises that begin
    RulingLimit,    \* bound: rulings made
    RefusalLimit,   \* bound: answers a pass refuses
    MaterialLimit,  \* bound: times the material behind a finding changes
    CrashLimit      \* bound: executions that die

ASSUME SubjectsAssumption ==
    /\ Null \notin Entities \cup Findings
    /\ EntityOf \in [Findings -> Entities \cup {Null}]
    /\ AliasOf \in [Entities -> Entities]
    /\ Sound \subseteq Entities
ASSUME FiniteAssumption ==
    IsFiniteSet(Findings) /\ IsFiniteSet(Raisers) /\ IsFiniteSet(Passes)
ASSUME LimitsAssumption ==
    /\ {DrainLimit, CallCeiling} \subseteq Nat \ {0}
    /\ {Window, RaiseLimit, RulingLimit, RefusalLimit, MaterialLimit, CrashLimit} \subseteq Nat

\* bigserial: what RaiseLimit raises of every finding may insert.
Ids == 1 .. RaiseLimit * Cardinality(Findings)

VARIABLES
    pool,       \* the rows of research_pool
    size,       \* how many ids have been given out
    material,   \* the findings behind whose subjects there is text worth a call
    raising,    \* each raise between its snapshot and its commit
    pc,         \* the node each execution runs next
    fate,       \* what has become of each row in each execution
    offered,    \* the rows each execution drained with such text
    spent,      \* calls made about each row
    ledger,     \* llm_calls rows written for each row
    dossiers,   \* entity_research rows recorded from each row
    begun, rulings, refusals, moves, crashes    \* the counters the bounds are on

gateVars == <<pool, size>>
passVars == <<pc, fate, offered>>
money == <<spent, ledger, dossiers>>
counters == <<begun, rulings, refusals, moves, crashes>>
vars == <<pool, size, material, raising, pc, fate, offered, spent, ledger, dossiers,
          begun, rulings, refusals, moves, crashes>>

Statuses == {"absent", "pending", "approved", "done", "skipped"}
Stamps == {"approved", "researched"}

\* created orders the rows: the instant their statement began.  fresh is how
\* much of the window is left since researched_at.
PoolRow == [finding : Findings \cup {Null}, entity : Entities \cup {Null},
            status : Statuses, stamps : SUBSET Stamps,
            created : Nat, fresh : Nat]
NoRow == [finding |-> Null, entity |-> Null, status |-> "absent", stamps |-> {},
          created |-> 0, fresh |-> 0]

RaiseInFlight == [created : Nat, writes : SUBSET Findings, kind : {"none", "ingest", "score"}]
NoRaise == [created |-> 0, writes |-> {}, kind |-> "none"]

Fates == {"none", "drained", "badName", "staged", "noMaterial", "accepted", "refused"}
Asked == {"accepted", "refused"}

RowsOf(p, fates) == { i \in Ids : fate[p][i] \in fates }

Subject(i) == IF pool[i].entity = Null THEN Null ELSE AliasOf[pool[i].entity]

\* The documents the drain composes behind a row hold enough prose for a chunk.
HasMaterial(i) == pool[i].finding \in material

-----------------------------------------------------------------------------
Init ==
    /\ pool = [i \in Ids |-> NoRow]
    /\ size = 0
    /\ material \in SUBSET Findings
    /\ raising = [x \in Raisers |-> NoRaise]
    /\ pc = [p \in Passes |-> "ended"]
    /\ fate = [p \in Passes |-> [i \in Ids |-> "none"]]
    /\ offered = [p \in Passes |-> {}]
    /\ spent = [i \in Ids |-> 0]
    /\ ledger = [i \in Ids |-> 0]
    /\ dossiers = [i \in Ids |-> 0]
    /\ begun = 0 /\ rulings = 0 /\ refusals = 0 /\ moves = 0 /\ crashes = 0

-----------------------------------------------------------------------------
(* Raising.                                                                *)

\* The subject a raiser reads: ar-ingest's findings are not attributed yet.
SubjectRead(kind, f) == IF kind = "ingest" THEN Null ELSE EntityOf[f]

\* Mutant: only a row still waiting for its ruling counts as citing.
AlreadyCitedByPending(f) == \E i \in Ids : pool[i].finding = f /\ pool[i].status = "pending"

AlreadyCited(f) == \E i \in Ids : pool[i].finding = f

\* p.entity_id = s.entity_id is never true of a NULL.
ResearchedInWindow(e) ==
    /\ e # Null
    /\ \E i \in Ids : pool[i].entity = e /\ pool[i].status = "done" /\ pool[i].fresh > 0

\* Raise Research Intentions, in ar-ingest or ar-score: what the snapshot lets
\* it write of the findings its pass wrote.
BeginRaise(x, kind, findings) ==
    /\ raising[x] = NoRaise
    /\ begun < RaiseLimit
    /\ begun' = begun + 1
    /\ raising' = [raising EXCEPT ![x] =
          [created |-> begun + 1, kind |-> kind,
           writes |-> { f \in findings : /\ ~AlreadyCited(f)
                                         /\ ~ResearchedInWindow(SubjectRead(kind, f)) }]]
    /\ UNCHANGED <<gateVars, material, passVars, money, rulings, refusals, moves, crashes>>

\* No unique key stands behind the guards, so the rows are inserted whatever
\* has been committed since.
CommitRaise(x) ==
    LET new == size + 1 .. size + Cardinality(raising[x].writes)
    IN  /\ raising[x] # NoRaise
        /\ \E place \in [new -> raising[x].writes] :
            /\ \A f \in raising[x].writes : \E i \in new : place[i] = f
            /\ pool' = [i \in Ids |->
                  IF i \in new
                  THEN [finding |-> place[i],
                        entity |-> SubjectRead(raising[x].kind, place[i]),
                        status |-> "pending", stamps |-> {},
                        created |-> raising[x].created, fresh |-> 0]
                  ELSE pool[i]]
        /\ size' = size + Cardinality(raising[x].writes)
        /\ raising' = [raising EXCEPT ![x] = NoRaise]
        /\ UNCHANGED <<material, passVars, money, counters>>

-----------------------------------------------------------------------------
(* Ruling: approveById and POST .../approve are one statement, by id and   *)
(* whatever the row's status; rejectById writes the status alone.          *)

Rule == rulings < RulingLimit /\ rulings' = rulings + 1

Approve(i) ==
    /\ Rule
    /\ pool[i].status # "absent"
    /\ pool' = [pool EXCEPT ![i].status = "approved", ![i].stamps = @ \cup {"approved"}]
    /\ UNCHANGED <<size, material, raising, passVars, money, begun, refusals, moves, crashes>>

Reject(i) ==
    /\ Rule
    /\ pool[i].status # "absent"
    /\ pool' = [pool EXCEPT ![i].status = "skipped"]
    /\ UNCHANGED <<size, material, raising, passVars, money, begun, refusals, moves, crashes>>

-----------------------------------------------------------------------------
(* A pass of ar-research.                                                  *)

\* Mutants: the drain reads the status alone, or the two timestamps' absence.
DrainableByStatus(i) == pool[i].status = "approved"
DrainableUnlessClosed(i) == pool[i].status # "absent" /\ "researched" \notin pool[i].stamps

Drainable(i) == pool[i].status = "approved" /\ "researched" \notin pool[i].stamps

\* ORDER BY created_at, id.
Older(i, j) == pool[i].created < pool[j].created \/ (pool[i].created = pool[j].created /\ i < j)

\* The first n of some rows.
Oldest(rows, n) == { i \in rows : Cardinality({ j \in rows : Older(j, i) }) < n }

DrainApprovedIntentions(p) ==
    /\ pc[p] = "ended"
    /\ \E i \in Ids : Drainable(i)
    /\ LET batch == Oldest({ i \in Ids : Drainable(i) }, DrainLimit)
       IN  /\ fate' = [fate EXCEPT ![p] = [i \in Ids |-> IF i \in batch THEN "drained" ELSE "none"]]
           /\ offered' = [offered EXCEPT ![p] = { i \in batch : HasMaterial(i) }]
    /\ pc' = [pc EXCEPT ![p] = "gate"]
    /\ UNCHANGED <<gateVars, material, raising, money, counters>>

\* Mutant: the gate raises on the first name it refuses.
StageUnlessOneIsRefused(p) ==
    LET drained == RowsOf(p, {"drained"})
        named == { i \in drained : Subject(i) \in Sound }
        staged == IF named = drained THEN Oldest(named, CallCeiling) ELSE {}
    IN  /\ pc[p] = "gate"
        /\ fate' = [fate EXCEPT ![p] =
              [i \in Ids |-> IF i \in staged THEN "staged" ELSE @[i]]]
        /\ pc' = [pc EXCEPT ![p] = IF staged = {} THEN "ended" ELSE "prompt"]
        /\ UNCHANGED <<gateVars, material, raising, offered, money, counters>>

\* Gate Candidate Names and Apply Call Ceiling: a row with no subject has no
\* name, and a batch with nothing left in it ends the chain.
StageCandidates(p) ==
    LET named == { i \in RowsOf(p, {"drained"}) : Subject(i) \in Sound }
        staged == Oldest(named, CallCeiling)
    IN  /\ pc[p] = "gate"
        /\ fate' = [fate EXCEPT ![p] =
              [i \in Ids |-> IF i \in staged THEN "staged"
                             ELSE IF @[i] = "drained" /\ i \notin named THEN "badName" ELSE @[i]]]
        /\ pc' = [pc EXCEPT ![p] = IF staged = {} THEN "ended" ELSE "prompt"]
        /\ UNCHANGED <<gateVars, material, raising, offered, money, counters>>

\* Mutant: a candidate with nothing behind it stops the pass.
PromptUnlessOneIsBare(p) ==
    LET staged == RowsOf(p, {"staged"})
    IN  /\ pc[p] = "prompt"
        /\ pc' = [pc EXCEPT ![p] = IF staged \subseteq offered[p] THEN "ask" ELSE "ended"]
        /\ UNCHANGED <<gateVars, material, raising, fate, offered, money, counters>>

\* A candidate whose chunk is refused is skipped and stamped by nothing, and a
\* batch with no other ends the chain.  (A missing persona raises: a Crash.)
PrepareModelPrompt(p) ==
    LET staged == RowsOf(p, {"staged"})
    IN  /\ pc[p] = "prompt"
        /\ fate' = [fate EXCEPT ![p] =
              [i \in Ids |-> IF i \in staged \ offered[p] THEN "noMaterial" ELSE @[i]]]
        /\ pc' = [pc EXCEPT ![p] = IF staged \cap offered[p] = {} THEN "ended" ELSE "ask"]
        /\ UNCHANGED <<gateVars, material, raising, offered, money, counters>>

\* One call per candidate, in order; a call that fails is a refused answer.
ResearchCandidate(p, i, answer) ==
    /\ pc[p] = "ask"
    /\ i \in Oldest(RowsOf(p, {"staged"}), 1)
    /\ answer = "refused" => refusals < RefusalLimit
    /\ refusals' = IF answer = "refused" THEN refusals + 1 ELSE refusals
    /\ fate' = [fate EXCEPT ![p][i] = answer]
    /\ spent' = [spent EXCEPT ![i] = @ + 1]
    /\ UNCHANGED <<gateVars, material, raising, pc, offered, ledger, dossiers,
                   begun, rulings, moves, crashes>>

\* Mutant: only the answers that will be recorded are entered.
LedgerAcceptedCalls(p) ==
    /\ pc[p] = "ask"
    /\ RowsOf(p, {"staged"}) = {}
    /\ ledger' = [i \in Ids |-> IF i \in RowsOf(p, {"accepted"}) THEN ledger[i] + 1 ELSE ledger[i]]
    /\ pc' = [pc EXCEPT ![p] = "record"]
    /\ UNCHANGED <<gateVars, material, raising, fate, offered, spent, dossiers, counters>>

LedgerModelCall(p) ==
    /\ pc[p] = "ask"
    /\ RowsOf(p, {"staged"}) = {}
    /\ ledger' = [i \in Ids |-> IF i \in RowsOf(p, Asked) THEN ledger[i] + 1 ELSE ledger[i]]
    /\ pc' = [pc EXCEPT ![p] = "record"]
    /\ UNCHANGED <<gateVars, material, raising, fate, offered, spent, dossiers, counters>>

\* One statement stores each accepted answer and closes the row it came from;
\* research_pool_approval_check refuses it for a row nobody approved.
RecordResearch(p) ==
    /\ pc[p] = "record"
    /\ \A i \in RowsOf(p, {"accepted"}) : "approved" \in pool[i].stamps
    /\ dossiers' = [i \in Ids |-> IF i \in RowsOf(p, {"accepted"}) THEN dossiers[i] + 1
                                  ELSE dossiers[i]]
    /\ pool' = [i \in Ids |->
          IF i \in RowsOf(p, {"accepted"})
          THEN [pool[i] EXCEPT !.status = "done", !.stamps = @ \cup {"researched"},
                               !.fresh = Window]
          ELSE pool[i]]
    /\ pc' = [pc EXCEPT ![p] = "ended"]
    /\ UNCHANGED <<size, material, raising, fate, offered, spent, ledger, counters>>

\* An execution that dies is not resumed; what it asked has been paid for.
Crash(p) ==
    /\ pc[p] # "ended"
    /\ crashes < CrashLimit
    /\ crashes' = crashes + 1
    /\ pc' = [pc EXCEPT ![p] = "ended"]
    /\ UNCHANGED <<gateVars, material, raising, fate, offered, money, begun, rulings, refusals, moves>>

-----------------------------------------------------------------------------
Advance ==
    /\ \E i \in Ids : pool[i].fresh > 0
    /\ pool' = [i \in Ids |-> [pool[i] EXCEPT !.fresh = IF @ > 0 THEN @ - 1 ELSE 0]]
    /\ UNCHANGED <<size, material, raising, passVars, money, counters>>

\* A document filed later gives a subject text to be asked about, or is one of the
\* five newest, holds none, and takes the place of one that did.
MaterialMoves(f) ==
    /\ moves < MaterialLimit
    /\ moves' = moves + 1
    /\ material' = IF f \in material THEN material \ {f} ELSE material \cup {f}
    /\ UNCHANGED <<gateVars, raising, passVars, money, begun, rulings, refusals, crashes>>

RaiseStep ==
    \E x \in Raisers :
        \/ \E kind \in {"ingest", "score"}, s \in SUBSET Findings \ {{}} : BeginRaise(x, kind, s)
        \/ CommitRaise(x)

RulingStep == \E i \in Ids : Approve(i) \/ Reject(i)

PassStep(p) ==
    \/ DrainApprovedIntentions(p)
    \/ StageCandidates(p)
    \/ PrepareModelPrompt(p)
    \/ \E i \in Ids, answer \in Asked : ResearchCandidate(p, i, answer)
    \/ LedgerModelCall(p)
    \/ RecordResearch(p)

Next ==
    \/ Advance
    \/ \E f \in Findings : MaterialMoves(f)
    \/ RaiseStep
    \/ RulingStep
    \/ \E p \in Passes : PassStep(p) \/ Crash(p)

Spec == Init /\ [][Next]_vars

\* Every dispatched ar-ingest run ends by invoking ar-research, and the executor
\* keeps an execution moving.  Nothing is assumed of rulings or of answers.
FairSpec == Spec /\ \A p \in Passes : WF_vars(PassStep(p))
-----------------------------------------------------------------------------
(* What the gate promises.                                                 *)

\* The type of every variable, and the check on the two timestamps: a row closed
\* by a search was approved before it.  (research_pool_approval_check.)
TypeOK ==
    /\ pool \in [Ids -> PoolRow]
    /\ \A i \in Ids : "researched" \in pool[i].stamps => "approved" \in pool[i].stamps
    /\ size \in Nat
    /\ raising \in [Raisers -> RaiseInFlight]
    /\ material \in SUBSET Findings
    /\ pc \in [Passes -> {"ended", "gate", "prompt", "ask", "record"}]
    /\ fate \in [Passes -> [Ids -> Fates]]
    /\ offered \in [Passes -> SUBSET Ids]
    /\ {spent, ledger, dossiers} \subseteq [Ids -> Nat]
    /\ {begun, rulings, refusals, moves, crashes} \subseteq Nat

\* However many raises run over one finding, it never has more rows than there
\* were raises in flight together: a ruling, and a closing, are seen by every
\* raise that begins after them.  (NOT EXISTS ... p.finding_id = s.id.)
RowsPerFindingAreBounded ==
    \A f \in Findings : Cardinality({ i \in Ids : pool[i].finding = f }) <= Cardinality(Raisers)

\* A row is paid for once per pass that was already holding it when it closed,
\* however often it is approved again afterwards: every further call is one whose
\* answer was refused or whose execution died.  (p.researched_at IS NULL in the
\* drain, beside approveById writing whatever the row's state.)
SpendPerRowIsBounded ==
    \A i \in Ids : spent[i] <= Cardinality(Passes) + refusals + crashes

Unledgered(i) == { p \in Passes : pc[p] = "ask" /\ fate[p][i] \in Asked }

\* The ledger misses a call only while its pass is still asking, or where the
\* pass died asking; and no result is stored that the ledger does not charge.
\* (Ledger Model Call ahead of the judgement, refused answers included.)
LedgerAccountsForSpend ==
    \A i \in Ids :
        /\ ledger[i] <= spent[i]
        /\ spent[i] <= ledger[i] + Cardinality(Unledgered(i)) + crashes
        /\ dossiers[i] <= ledger[i]

Gate == INSTANCE ApprovalGate WITH
            Intentions <- Ids,
            raised <- { i \in Ids : pool[i].status # "absent" },
            consented <- { i \in Ids : "approved" \in pool[i].stamps },
            acted <- { i \in Ids : spent[i] > 0 },
            closed <- { i \in Ids : "researched" \in pool[i].stamps }

\* Nothing is searched before a person consented to that row, and nothing is
\* closed as researched that was never searched.  (ApprovalGate.)
GateSpec == Gate!Spec

\* What a pass may ask about: the name is sound and there is text behind it.
Askable(i) == Drainable(i) /\ Subject(i) \in Sound /\ HasMaterial(i)

\* The open rows no pass can ask about, and that nothing in a pass moves.
BadlyNamed == { i \in Ids : Drainable(i) /\ Subject(i) \notin Sound }
WithoutMaterial == { i \in Ids : Drainable(i) /\ Subject(i) \in Sound /\ ~HasMaterial(i) }

\* Rows without material hold places under the ceiling, and with the badly named
\* ones places in the batch.
Clogged ==
    \/ Cardinality(WithoutMaterial) >= CallCeiling
    \/ Cardinality(BadlyNamed \cup WithoutMaterial) >= DrainLimit

\* An approved row that can be asked about stops waiting, a pass closing it, a
\* person ruling against it or its material going, whatever was drained beside it:
\* only rows nothing can ask about, filling the batch or the ceiling, can hold it
\* up.  (Drain Approved Intentions through Record Research, oldest first.)
ApprovedRowStopsWaiting == \A i \in Ids : Askable(i) ~> ~Askable(i) \/ Clogged

-----------------------------------------------------------------------------
(* What the repository says of the gate and the code does not do.          *)

\* "the cost of losing it is a duplicate in a queue rather than a duplicate
\* search": the race of two raises, ar-ingest.json and ar-score.json.
DuplicateIsOnlyInTheQueue ==
    \A i, j \in Ids :
        pool[i].finding # Null /\ pool[i].finding = pool[j].finding /\ i # j
            => spent[i] = 0 \/ spent[j] = 0

\* "A row the drain refuses to search [...] or a subject [...] researched recently
\* enough": src/db/schema/entities.ts.
RecentSubjectIsNotSearchedAgain ==
    [][\A i, j \in Ids :
          /\ Subject(i) # Null /\ Subject(i) = Subject(j)
          /\ pool[j].status = "done" /\ pool[j].fresh > 0
          => spent'[i] = spent[i]]_vars

\* "is stamped here too, with its status set to `skipped`": the same comment.
RefusedRowIsClosed ==
    \A p \in Passes, i \in Ids :
        pc[p] = "ended" /\ fate[p][i] = "badName" /\ crashes = 0
            => "researched" \in pool[i].stamps
=============================================================================
