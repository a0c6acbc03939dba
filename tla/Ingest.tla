------------------------------- MODULE Ingest -------------------------------
(***************************************************************************)
(* The ingest pass (ar-ingest): a dispatched run fetches the sources of    *)
(* its domain, stores what it reads, judges the sources, gates what is     *)
(* new and asks a model about the best of it.  Each node is a step, and a  *)
(* Postgres node runs one statement per item, so passes over one domain    *)
(* interleave between any two statements.  A pass that reaches a node with *)
(* no item to hand on simply ends there: nothing below runs, the closing   *)
(* statement included.                                                     *)
(*                                                                         *)
(* A document's id is its place in "documents"; an item is its content.    *)
(***************************************************************************)
EXTENDS SourceHealth, Sequences, FiniteSets

CONSTANTS
    Passes,         \* the runs the dispatcher opened over this domain
    Sources,        \* the enabled sources of the domain
    Items,          \* the records their payloads may hold
    Payloads,       \* the sets of them a source may answer with
    Conforming,     \* the items a source contract accepts
    Near,           \* the pairs of items whose sketches converge
    Relevance,      \* what the gate scores an item
    GateThreshold,
    Readable,       \* the items whose body leaves a chunk worth a call
    Window,         \* how far back Select Recent Corpus reads
    Ceiling         \* MAX_MODEL_CALLS_PER_RUN

ASSUME IngestAssumption ==
    /\ Payloads \subseteq SUBSET Items
    /\ Conforming \subseteq Items
    /\ Near \subseteq Items \X Items
    /\ Relevance \in [Items -> Int]
    /\ GateThreshold \in Int
    /\ Readable \subseteq Items
    /\ Window \in Nat
    /\ Ceiling \in Nat \ {0}

VARIABLES
    sources,        \* the health columns of each source
    documents,      \* the corpus, in the order of its ids
    calls,          \* <<pass, item>>: the calls that were made
    ledger,         \* <<pass, item>>: the rows of llm_calls
    findings,       \* <<pass, item>>
    runs,           \* the status of each run
    pass            \* what each pass holds between its nodes

vars == <<sources, documents, calls, ledger, findings, runs, pass>>

Nodes == {"Select Active Sources", "Fetch Source Payload", "Write Documents",
          "Apply Source Health", "Select Recent Corpus", "Apply Call Ceiling",
          "Prepare Model Prompt", "Extract Finding Fields", "Ledger Model Call",
          "Write Findings", "Close Run"}

Ended == {"closed", "dry", "stopped"}

Corpus == {documents[k] : k \in DOMAIN documents}

IdOf(i) == CHOOSE k \in DOMAIN documents : documents[k] = i

Of(p, made) == {i \in Items : <<p, i>> \in made}

Fresh == [at       |-> "Select Active Sources",
          seen     |-> <<>>,    \* the counters Select Active Sources read
          reading  |-> {},      \* <<source, item>>: what was extracted
          written  |-> {},      \* the readings a statement has run for
          inserted |-> {},      \* the items this pass stored first
          judged   |-> {},      \* the sources whose health it has applied
          staged   |-> {},      \* the items it means to ask about
          capped   |-> {},      \* those of them the ceiling let through
          answered |-> {},      \* those whose answer satisfied the contract
          filed    |-> {}]      \* those Write Findings has run for

Init ==
    /\ sources = [s \in Sources |-> NeverFetched]
    /\ documents = <<>>
    /\ calls = {} /\ ledger = {} /\ findings = {}
    /\ runs = [p \in Passes |-> "running"]
    /\ pass = [p \in Passes |-> Fresh]
-----------------------------------------------------------------------------
\* Everything else a pass may change stays as it is.
Only(p, held) == pass' = [pass EXCEPT ![p] = held]

SelectActiveSources(p) ==
    LET active == {s \in Sources : ~ sources[s].flagged}
    IN  /\ pass[p].at = "Select Active Sources"
        /\ Only(p, [pass[p] EXCEPT
                !.seen = [s \in active |-> sources[s]],
                !.at = IF active = {} THEN "dry" ELSE "Fetch Source Payload"])
        /\ UNCHANGED <<sources, documents, calls, ledger, findings, runs>>

\* Every source is fetched, and its payload read, before anything is stored.
\* A source that cannot be reached or read answers nothing and goes on.
FetchSourcePayload(p) ==
    /\ pass[p].at = "Fetch Source Payload"
    /\ \E payload \in [DOMAIN pass[p].seen -> Payloads] :
        LET reading == {r \in (DOMAIN pass[p].seen) \X Items : r[2] \in payload[r[1]]}
        IN  Only(p, [pass[p] EXCEPT
                !.reading = reading,
                !.at = IF reading = {} THEN "Apply Source Health" ELSE "Write Documents"])
    /\ UNCHANGED <<sources, documents, calls, ledger, findings, runs>>

\* Mutant: the statement does not tell whether it stored the row or found it.
WriteDocumentAsNew(p, r) ==
    LET written == pass[p].written \cup {r}
        isNew   == r[2] \notin Corpus
    IN  /\ pass[p].at = "Write Documents"
        /\ r \in pass[p].reading \ pass[p].written
        /\ documents' = IF isNew THEN Append(documents, r[2]) ELSE documents
        /\ Only(p, [pass[p] EXCEPT
                !.written = written,
                !.inserted = @ \cup {r[2]},
                !.at = IF written = pass[p].reading THEN "Apply Source Health" ELSE @])
        /\ UNCHANGED <<sources, calls, ledger, findings, runs>>

\* The unique hash lets one statement store an item; the rest read its id.
WriteDocument(p, r) ==
    LET written == pass[p].written \cup {r}
        isNew   == r[2] \notin Corpus
    IN  /\ pass[p].at = "Write Documents"
        /\ r \in pass[p].reading \ pass[p].written
        /\ documents' = IF isNew THEN Append(documents, r[2]) ELSE documents
        /\ Only(p, [pass[p] EXCEPT
                !.written = written,
                !.inserted = IF isNew THEN @ \cup {r[2]} ELSE @,
                !.at = IF written = pass[p].reading THEN "Apply Source Health" ELSE @])
        /\ UNCHANGED <<sources, calls, ledger, findings, runs>>

\* One record is enough to read, and one refused record enough to fail.
Succeeded(p, s) ==
    LET answered == {i \in Items : <<s, i>> \in pass[p].reading}
    IN  answered # {} /\ answered \subseteq Conforming

\* The verdict is counted from the columns as this pass first read them, and
\* written over whatever the row holds by now.
ApplySourceHealth(p, s) ==
    LET judged == pass[p].judged \cup {s}
    IN  /\ pass[p].at = "Apply Source Health"
        /\ s \in (DOMAIN pass[p].seen) \ pass[p].judged
        /\ sources' = [sources EXCEPT ![s] = Judged(pass[p].seen[s], Succeeded(p, s))]
        /\ Only(p, [pass[p] EXCEPT
                !.judged = judged,
                !.at = IF judged = DOMAIN pass[p].seen THEN "Select Recent Corpus" ELSE @])
        /\ UNCHANGED <<documents, calls, ledger, findings, runs>>

\* Mutant: the corpus read is one document short.
NearDuplicateInLess(i) ==
    \E k \in DOMAIN documents :
        /\ k > Len(documents) - Window + 1
        /\ k < IdOf(i)
        /\ <<documents[k], i>> \in Near

\* Only earlier documents, of the newest few, are compared against.
NearDuplicate(i) ==
    \E k \in DOMAIN documents :
        /\ k > Len(documents) - Window
        /\ k < IdOf(i)
        /\ <<documents[k], i>> \in Near

\* The corpus is read once, after this pass has written to it; only what the
\* pass stored itself is marked, gated and staged for the ceiling.
SelectRecentCorpus(p) ==
    LET staged == {i \in pass[p].inserted :
                    ~ NearDuplicate(i) /\ Relevance[i] >= GateThreshold}
    IN  /\ pass[p].at = "Select Recent Corpus"
        /\ Only(p, [pass[p] EXCEPT
                !.staged = staged,
                !.at = IF pass[p].inserted = {} THEN "dry" ELSE "Apply Call Ceiling"])
        /\ UNCHANGED <<sources, documents, calls, ledger, findings, runs>>

Before(i, j) ==
    \/ Relevance[i] > Relevance[j]
    \/ Relevance[i] = Relevance[j] /\ IdOf(i) < IdOf(j)

\* Mutant: the slice ends one short of the ceiling.
WithinLess(staged) ==
    {i \in staged : Cardinality({j \in staged : Before(j, i)}) < Ceiling - 1}

\* The best of what was staged, as many as the ceiling allows.
WithinCeiling(staged) ==
    {i \in staged : Cardinality({j \in staged : Before(j, i)}) < Ceiling}

ApplyCallCeiling(p) ==
    LET staged == WithinCeiling(pass[p].staged)
    IN  /\ pass[p].at = "Apply Call Ceiling"
        /\ Only(p, [pass[p] EXCEPT
                !.staged = staged,
                !.capped = staged,
                !.at = IF staged = {} THEN "dry" ELSE "Prepare Model Prompt"])
        /\ UNCHANGED <<sources, documents, calls, ledger, findings, runs>>

\* A document whose chunk is refused is skipped; no column says so, and it is
\* never new again.  What the ceiling gave it goes to no other.
PrepareModelPrompt(p) ==
    LET staged == pass[p].staged \cap Readable
    IN  /\ pass[p].at = "Prepare Model Prompt"
        /\ Only(p, [pass[p] EXCEPT
                !.staged = staged,
                !.at = IF staged = {} THEN "dry" ELSE "Extract Finding Fields"])
        /\ UNCHANGED <<sources, documents, calls, ledger, findings, runs>>

\* Mutant: the ledger stands beside the chain and not in it.
ExtractPastTheLedger(p, i) ==
    LET made == calls \cup {<<p, i>>}
    IN  /\ pass[p].at = "Extract Finding Fields"
        /\ i \in pass[p].staged
        /\ <<p, i>> \notin calls
        /\ calls' = made
        /\ \E answered \in {pass[p].answered, pass[p].answered \cup {i}} :
            Only(p, [pass[p] EXCEPT
                !.answered = answered,
                !.at = IF Of(p, made) = pass[p].staged THEN "Write Findings" ELSE @])
        /\ UNCHANGED <<sources, documents, ledger, findings, runs>>

\* A call that fails stays in the stream, as an answer that will be refused.
ExtractFindingFields(p, i) ==
    LET made == calls \cup {<<p, i>>}
    IN  /\ pass[p].at = "Extract Finding Fields"
        /\ i \in pass[p].staged
        /\ <<p, i>> \notin calls
        /\ calls' = made
        /\ \E answered \in {pass[p].answered, pass[p].answered \cup {i}} :
            Only(p, [pass[p] EXCEPT
                !.answered = answered,
                !.at = IF Of(p, made) = pass[p].staged THEN "Ledger Model Call" ELSE @])
        /\ UNCHANGED <<sources, documents, ledger, findings, runs>>

\* The ledger is written once every call of the pass has come back.
LedgerModelCall(p, i) ==
    LET made == ledger \cup {<<p, i>>}
    IN  /\ pass[p].at = "Ledger Model Call"
        /\ i \in pass[p].staged
        /\ <<p, i>> \notin ledger
        /\ ledger' = made
        /\ Only(p, [pass[p] EXCEPT
                !.at = IF Of(p, made) = pass[p].staged THEN "Write Findings" ELSE @])
        /\ UNCHANGED <<sources, documents, calls, findings, runs>>

\* Mutant: an answer its contract refused is filed all the same.
WriteAnyFinding(p, i) ==
    LET filed == pass[p].filed \cup {i}
    IN  /\ pass[p].at = "Write Findings"
        /\ i \in pass[p].staged \ pass[p].filed
        /\ findings' = findings \cup {<<p, i>>}
        /\ Only(p, [pass[p] EXCEPT
                !.filed = filed,
                !.at = IF filed = pass[p].staged THEN "Close Run" ELSE @])
        /\ UNCHANGED <<sources, documents, calls, ledger, runs>>

WriteFinding(p, i) ==
    LET filed == pass[p].filed \cup {i}
    IN  /\ pass[p].at = "Write Findings"
        /\ i \in pass[p].staged \ pass[p].filed
        /\ findings' = IF i \in pass[p].answered THEN findings \cup {<<p, i>>} ELSE findings
        /\ Only(p, [pass[p] EXCEPT
                !.filed = filed,
                !.at = IF filed = pass[p].staged THEN "Close Run" ELSE @])
        /\ UNCHANGED <<sources, documents, calls, ledger, runs>>

\* Scoring and research are invoked in between; an error of theirs stays in
\* the stream and makes the run partial.
CloseRun(p) ==
    LET read   == DOMAIN pass[p].seen
        failed == {s \in read : ~ Succeeded(p, s)}
    IN  /\ pass[p].at = "Close Run"
        /\ \E childFailed \in BOOLEAN :
            runs' = [runs EXCEPT ![p] =
                        CASE failed = read -> "failed"
                          [] failed # read /\ (failed # {} \/ childFailed) -> "partial"
                          [] OTHER -> "ok"]
        /\ Only(p, [pass[p] EXCEPT !.at = "closed"])
        /\ UNCHANGED <<sources, documents, calls, ledger, findings>>

\* A node raises (no connector, no persona, no field contract, a refused
\* statement) or the instance goes down: what was written stays written.
PassStops(p) ==
    /\ pass[p].at \in Nodes
    /\ Only(p, [pass[p] EXCEPT !.at = "stopped"])
    /\ UNCHANGED <<sources, documents, calls, ledger, findings, runs>>

PassStep(p) ==
    \/ SelectActiveSources(p) \/ FetchSourcePayload(p)
    \/ \E r \in Sources \X Items : WriteDocument(p, r)
    \/ \E s \in Sources : ApplySourceHealth(p, s)
    \/ SelectRecentCorpus(p) \/ ApplyCallCeiling(p) \/ PrepareModelPrompt(p)
    \/ \E i \in Items :
        ExtractFindingFields(p, i) \/ LedgerModelCall(p, i) \/ WriteFinding(p, i)
    \/ CloseRun(p)

Next == \E p \in Passes : PassStep(p) \/ PassStops(p)

Spec == Init /\ [][Next]_vars
-----------------------------------------------------------------------------
\* Every variable holds values of its kind.
TypeOK ==
    /\ sources \in [Sources -> Health]
    /\ documents \in Seq(Items)
    /\ calls \subseteq Passes \X Items
    /\ ledger \subseteq Passes \X Items
    /\ findings \subseteq Passes \X Items
    /\ runs \in [Passes -> {"running", "ok", "partial", "failed"}]
    /\ \A p \in Passes :
        /\ DOMAIN pass[p] = DOMAIN Fresh
        /\ pass[p].at \in Nodes \cup Ended
        /\ DOMAIN pass[p].seen \subseteq Sources
        /\ pass[p].seen \in [DOMAIN pass[p].seen -> Health]
        /\ pass[p].reading \subseteq (DOMAIN pass[p].seen) \X Items
        /\ pass[p].written \subseteq pass[p].reading
        /\ pass[p].judged \subseteq DOMAIN pass[p].seen
        /\ \A held \in {"inserted", "staged", "capped", "answered", "filed"} :
            pass[p][held] \subseteq Items

\* However many passes fetch a document at once, and whichever of them die, a
\* model is asked about it at most once.
DocumentIsAskedAboutOnce ==
    \A c, d \in calls : c[2] = d[2] => c = d

\* Of two near duplicates both are paid for only where the earlier had fallen
\* out of the corpus the later was compared with, whichever passes met them.
NearDuplicatesAreAskedAboutOnce ==
    \A c, d \in calls :
        <<c[2], d[2]>> \in Near /\ IdOf(c[2]) < IdOf(d[2])
            => Len(documents) >= IdOf(c[2]) + Window

\* The passes that have applied a failure to a source.
FailedUnder(s) == {p \in Passes : s \in pass[p].judged /\ ~ Succeeded(p, s)}

\* Counters written from stale readings may lose failures and never invent
\* them: a source is flagged only over as many failed passes as the threshold.
FlagNeedsItsFailures ==
    \A s \in Sources :
        /\ sources[s].failures <= Cardinality(FailedUnder(s))
        /\ sources[s].flagged => Threshold <= Cardinality(FailedUnder(s))

\* A run is closed over finished work: whatever its pass stored first was left
\* out by the gate, as a near duplicate, by a ceiling that was filled, or, within
\* it, for want of a chunk; or was asked about, charged, and filed where the
\* answer was accepted.
ClosedRunLeavesNothing ==
    \A p \in Passes : runs[p] # "running" =>
        /\ pass[p].staged # {}
        /\ Of(p, calls) = pass[p].staged
        /\ Of(p, ledger) = pass[p].staged
        /\ Of(p, findings) = pass[p].staged \cap pass[p].answered
        /\ \A i \in pass[p].inserted \ pass[p].staged :
            \/ Relevance[i] < GateThreshold
            \/ i \in pass[p].capped \ Readable
            \/ i \notin pass[p].capped /\ Cardinality(pass[p].capped) = Ceiling
            \/ \E k \in DOMAIN documents : <<documents[k], i>> \in Near /\ k < IdOf(i)

\* Each item is stored, asked about, charged and found in that order, once.
Spending == INSTANCE AskOnce WITH
    stored   <- Corpus,
    asked    <- {i \in Items : \E p \in Passes : <<p, i>> \in calls},
    ledgered <- {i \in Items : \E p \in Passes : <<p, i>> \in ledger},
    found    <- {i \in Items : \E p \in Passes : <<p, i>> \in findings}

AskOnceSpec == Spending!Spec
=============================================================================
