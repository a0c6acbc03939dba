------------------------------- MODULE Digest -------------------------------
(***************************************************************************)
(* The digest pass (ar-digest) of one domain: it selects the findings      *)
(* created since the newest stored briefing, asks a model for prose about  *)
(* them, and stores the briefing whose stamp opens the next period.        *)
(*                                                                         *)
(* created_at and generated_at are the instants their INSERT began; a row  *)
(* is seen from its commit on, which may be later.  Passes overlap each    *)
(* other and the passes that write findings.                               *)
(***************************************************************************)
EXTENDS Naturals, FiniteSets

CONSTANTS
    Passes,
    Findings,
    TimeLimit       \* the last instant

ASSUME DigestAssumption == TimeLimit \in Nat

VARIABLES
    now,
    finding,        \* rows of findings, as they come to be
    briefing,       \* rows of briefings, by the pass that stored them
    pass,           \* what each pass holds between its nodes
    seen,           \* history: the rows there were when each pass selected
    calls,          \* the passes that asked a model
    ledger          \* the passes charged for it

vars == <<now, finding, briefing, pass, seen, calls, ledger>>

Instants == 0..TimeLimit

\* A row before its INSERT, under it, and once it is committed.
RowStates == {"absent", "begun", "stored"}

NoFinding == [is |-> "absent", created |-> 0]

NoBriefing == [is |-> "absent", generated |-> 0, covered |-> {}]

Nothing == [findings |-> {}, briefings |-> {}]

Nodes == {"Select Digest Material", "Apply Call Ceiling", "Draft Digest Prose",
          "Ledger Model Call", "Store Briefing", "storing", "Close Digest Run"}

Ended == {"closed", "dry", "stopped"}

Fresh == [at |-> "Select Digest Material", covered |-> {}]

Init ==
    /\ now = 0
    /\ finding = [f \in Findings |-> NoFinding]
    /\ briefing = [p \in Passes |-> NoBriefing]
    /\ pass = [p \in Passes |-> Fresh]
    /\ seen = [p \in Passes |-> Nothing]
    /\ calls = {} /\ ledger = {}
-----------------------------------------------------------------------------
Only(p, held) == pass' = [pass EXCEPT ![p] = held]

Stored == {p \in Passes : briefing[p].is = "stored"}

Written == {f \in Findings : finding[f].is = "stored"}

\* A domain with no briefing is covered whole.
NoneStored == Stored = {}

\* Mutant: the period opens with the first briefing there is.
SinceOldest ==
    CHOOSE t \in {briefing[p].generated : p \in Stored} :
        \A p \in Stored : t <= briefing[p].generated

\* The stamp of the newest briefing.
Since ==
    CHOOSE t \in {briefing[p].generated : p \in Stored} :
        \A p \in Stored : briefing[p].generated <= t

\* Mutant: a finding created at the stamp belongs to the period it closed.
CoveredAfter ==
    {f \in Written : NoneStored \/ Since < finding[f].created}

\* The bound is inclusive.
Covered ==
    {f \in Written : NoneStored \/ Since <= finding[f].created}

SelectDigestMaterial(p) ==
    /\ pass[p].at = "Select Digest Material"
    /\ Only(p, [pass[p] EXCEPT !.at = "Apply Call Ceiling", !.covered = Covered])
    /\ seen' = [seen EXCEPT ![p] = [findings |-> Written, briefings |-> Stored]]
    /\ UNCHANGED <<now, finding, briefing, calls, ledger>>

\* A period that came to nothing is not drafted, and the chain ends there: no
\* briefing is stored and the run stays as the dispatcher opened it.
ApplyCallCeiling(p) ==
    /\ pass[p].at = "Apply Call Ceiling"
    /\ Only(p, IF pass[p].covered = {} THEN [Fresh EXCEPT !.at = "dry"]
               ELSE [pass[p] EXCEPT !.at = "Draft Digest Prose"])
    /\ UNCHANGED <<now, finding, briefing, seen, calls, ledger>>

\* One call, which takes time; the briefing is stored with whatever prose came
\* back, or with none.
DraftDigestProse(p) ==
    /\ pass[p].at = "Draft Digest Prose"
    /\ now < TimeLimit
    /\ now' = now + 1
    /\ calls' = calls \cup {p}
    /\ Only(p, [pass[p] EXCEPT !.at = "Ledger Model Call"])
    /\ UNCHANGED <<finding, briefing, seen, ledger>>

LedgerModelCall(p) ==
    /\ pass[p].at = "Ledger Model Call"
    /\ ledger' = ledger \cup {p}
    /\ Only(p, [pass[p] EXCEPT !.at = "Store Briefing"])
    /\ UNCHANGED <<now, finding, briefing, seen, calls>>

\* The INSERT begins, and generated_at is its instant; the period it covers is
\* the one selected earlier.
BeginStoreBriefing(p) ==
    /\ pass[p].at = "Store Briefing"
    /\ briefing' = [briefing EXCEPT ![p] =
            [is |-> "begun", generated |-> now, covered |-> pass[p].covered]]
    /\ Only(p, [pass[p] EXCEPT !.at = "storing"])
    /\ UNCHANGED <<now, finding, seen, calls, ledger>>

StoreBriefing(p) ==
    /\ pass[p].at = "storing"
    /\ briefing' = [briefing EXCEPT ![p].is = "stored"]
    /\ Only(p, [pass[p] EXCEPT !.at = "Close Digest Run"])
    /\ UNCHANGED <<now, finding, seen, calls, ledger>>

\* The run is closed, as partial where the briefing has no prose.
CloseDigestRun(p) ==
    /\ pass[p].at = "Close Digest Run"
    /\ Only(p, [pass[p] EXCEPT !.at = "closed"])
    /\ UNCHANGED <<now, finding, briefing, seen, calls, ledger>>

\* No endpoint, no persona, a refused statement, or the instance goes down; an
\* INSERT under way is rolled back.
PassStops(p) ==
    /\ pass[p].at \in Nodes
    /\ Only(p, [(IF briefing[p].is = "stored" THEN pass[p] ELSE Fresh) EXCEPT !.at = "stopped"])
    /\ briefing' = [briefing EXCEPT ![p] = IF @.is = "begun" THEN NoBriefing ELSE @]
    /\ UNCHANGED <<now, finding, seen, calls, ledger>>

\* Write Findings in ar-ingest, and its like in ar-capture.
BeginFinding(f) ==
    /\ finding[f].is = "absent"
    /\ finding' = [finding EXCEPT ![f].is = "begun", ![f].created = now]
    /\ UNCHANGED <<now, briefing, pass, seen, calls, ledger>>

StoreFinding(f) ==
    /\ finding[f].is = "begun"
    /\ finding' = [finding EXCEPT ![f].is = "stored"]
    /\ UNCHANGED <<now, briefing, pass, seen, calls, ledger>>

Advance ==
    /\ now < TimeLimit
    /\ now' = now + 1
    /\ UNCHANGED <<finding, briefing, pass, seen, calls, ledger>>

PassStep(p) ==
    \/ SelectDigestMaterial(p) \/ ApplyCallCeiling(p)
    \/ DraftDigestProse(p) \/ LedgerModelCall(p)
    \/ BeginStoreBriefing(p) \/ StoreBriefing(p) \/ CloseDigestRun(p)

Next ==
    \/ \E p \in Passes : PassStep(p) \/ PassStops(p)
    \/ \E f \in Findings : BeginFinding(f) \/ StoreFinding(f)
    \/ Advance

Spec == Init /\ [][Next]_vars
-----------------------------------------------------------------------------
\* Every variable holds values of its kind, and a pass is charged for a call it made.
TypeOK ==
    /\ now \in Instants
    /\ finding \in [Findings -> [is : RowStates, created : Instants]]
    /\ briefing \in [Passes -> [is : RowStates, generated : Instants,
                                covered : SUBSET Findings]]
    /\ pass \in [Passes -> [at : Nodes \cup Ended, covered : SUBSET Findings]]
    /\ seen \in [Passes -> [findings : SUBSET Findings, briefings : SUBSET Passes]]
    /\ calls \subseteq Passes
    /\ ledger \subseteq calls

\* The finding was not there when the pass selected its period, and had been
\* begun when it stamped its briefing.
WrittenDuring(f, p) ==
    /\ f \notin seen[p].findings
    /\ finding[f].created < briefing[p].generated

\* The period has moved past a stored finding, and no briefing tells of it.
Missed(f) ==
    /\ f \in Written
    /\ \E p \in Stored : finding[f].created < briefing[p].generated
    /\ \A p \in Stored : f \notin briefing[p].covered

\* A digest misses only what was being written while one was being drafted, as
\* Select Digest Material concedes: passes that overlap, die or draft nothing,
\* and statements that commit late, cost no other finding its place.
OnlyADraftMissesAFinding ==
    \A f \in Findings : Missed(f) => \E p \in Stored : WrittenDuring(f, p)

\* A finding is told twice only by passes of which neither had stored its
\* briefing when the other selected.
ToldTwiceOnlyByAnOverlap ==
    \A p, q \in Stored :
        p # q /\ briefing[p].covered \cap briefing[q].covered # {} =>
            p \notin seen[q].briefings
=============================================================================
