---------------------------- MODULE IngestProofs ----------------------------
(***************************************************************************)
(* Proofs about Ingest and its history in MCIngest, for every set of       *)
(* passes, sources and items.                                              *)
(*                                                                         *)
(* The argument: the unique hash gives each item to the one pass that      *)
(* inserted it, a pass asks only about what it inserted, and each node     *)
(* from the model to the findings leaves what the next one presumes.  What *)
(* a pass has seen of a source was counted over passes that had judged it. *)
(* What a node leaves undone, the ceiling's or the gate's reasons explain. *)
(***************************************************************************)
EXTENDS MCIngest, FiniteSetTheorems, TLAPS

USE IngestAssumption, ThresholdAssumption

Columns == UNION {[S -> Health] : S \in SUBSET Sources}

\* What a pass holds, as a set of records.
Held == [at       : Nodes \cup Ended,
         seen     : Columns,
         reading  : SUBSET (Sources \X Items),
         written  : SUBSET (Sources \X Items),
         inserted : SUBSET Items,
         judged   : SUBSET Sources,
         staged   : SUBSET Items,
         capped   : SUBSET Items,
         answered : SUBSET Items,
         filed    : SUBSET Items]

Types ==
    /\ sources \in [Sources -> Health]
    /\ documents \in Seq(Items)
    /\ calls \subseteq Passes \X Items
    /\ ledger \subseteq Passes \X Items
    /\ findings \subseteq Passes \X Items
    /\ runs \in [Passes -> {"running", "ok", "partial", "failed"}]
    /\ pass \in [Passes -> Held]
    /\ \A p \in Passes :
        /\ pass[p].reading \subseteq (DOMAIN pass[p].seen) \X Items
        /\ pass[p].written \subseteq pass[p].reading
        /\ pass[p].judged \subseteq DOMAIN pass[p].seen
        /\ pass[p].at = "Select Active Sources" => pass[p].reading = {} /\ pass[p].judged = {}
        /\ pass[p].at = "Fetch Source Payload" => pass[p].written = {} /\ pass[p].judged = {}
\* The unique hash: every item has one place, and the one pass that put it there.
Owned ==
    /\ \A j, k \in DOMAIN documents : documents[j] = documents[k] => j = k
    /\ \A p \in Passes : pass[p].staged \subseteq pass[p].inserted
    /\ \A p \in Passes : pass[p].inserted \subseteq Corpus
    /\ \A p, q \in Passes : \A i \in pass[p].inserted \cap pass[q].inserted : p = q

\* Each node from the model on finds what the one before it left.
InOrder(p) ==
    /\ pass[p].at \in {"Select Active Sources", "Fetch Source Payload", "Write Documents",
                       "Apply Source Health", "Select Recent Corpus", "Apply Call Ceiling",
                       "Prepare Model Prompt"}
        => \A i \in Items : <<p, i>> \notin calls
    /\ pass[p].at \in {"Ledger Model Call", "Write Findings"}
        => \A i \in pass[p].staged : <<p, i>> \in calls
    /\ pass[p].at = "Write Findings" => \A i \in pass[p].staged : <<p, i>> \in ledger
    /\ \A i \in Items :
        /\ <<p, i>> \in calls => i \in pass[p].staged
        /\ <<p, i>> \in ledger => <<p, i>> \in calls
        /\ <<p, i>> \in findings => <<p, i>> \in ledger /\ i \in pass[p].filed

SpendingInv == Types /\ Owned /\ \A p \in Passes : InOrder(p)

OthersKept(p) == \A q \in Passes \ {p} : pass'[q] = pass[q]

\* What a pass has read, and the sources it has judged, stay as they are.
ReadingKept(p) ==
    /\ pass'[p].seen = pass[p].seen
    /\ pass'[p].reading = pass[p].reading

-----------------------------------------------------------------------------
LEMMA ColumnsOf ==
    /\ \A S \in SUBSET Sources : [S -> Health] \subseteq Columns
    /\ \A f \in Columns : DOMAIN f \in SUBSET Sources /\ f \in [DOMAIN f -> Health]
  BY DEF Columns

LEMMA NothingSeen == <<>> \in Columns /\ DOMAIN <<>> = {}
  <1>1. DOMAIN <<>> = {}
    OBVIOUS
  <1>2. <<>> \in [{} -> Health]
    OBVIOUS
  <1> QED
    BY <1>1, <1>2, ColumnsOf

LEMMA FreshIsHeld ==
    /\ Fresh \in Held
    /\ Fresh.at = "Select Active Sources" /\ Fresh.seen = <<>>
    /\ Fresh.reading = {} /\ Fresh.written = {} /\ Fresh.judged = {}
    /\ Fresh.inserted = {} /\ Fresh.staged = {} /\ Fresh.filed = {}
  <1>1. Fresh \in Held
    BY NothingSeen DEF Fresh, Held, Nodes, Ended
  <1>2. Fresh.at = "Select Active Sources" /\ Fresh.seen = <<>>
    BY Zenon DEF Fresh
  <1>3. Fresh.reading = {} /\ Fresh.written = {} /\ Fresh.judged = {}
    BY Zenon DEF Fresh
  <1>4. Fresh.inserted = {} /\ Fresh.staged = {} /\ Fresh.filed = {}
    BY Zenon DEF Fresh
  <1> QED
    BY <1>1, <1>2, <1>3, <1>4

\* What a step that writes one pass does to the others.
LEMMA OnePass ==
    ASSUME pass \in [Passes -> Held], NEW p \in Passes, NEW h \in Held, Only(p, h)
    PROVE  /\ pass' \in [Passes -> Held]
           /\ pass'[p] = h
           /\ OthersKept(p)
  BY DEF Only, OthersKept

LEMMA JudgedIsHealth ==
    ASSUME NEW h \in Health, NEW b \in BOOLEAN
    PROVE  /\ Judged(h, b) \in Health
           /\ Judged(h, b).failures = IF b THEN 0 ELSE h.failures + 1
           /\ Judged(h, b).flagged <=> h.flagged \/ Judged(h, b).failures >= Threshold
  <1> DEFINE n == IF b THEN 0 ELSE h.failures + 1
             f == h.flagged \/ n >= Threshold
  <1>1. n \in Nat /\ f \in BOOLEAN
    BY DEF Health
  <1>2. Judged(h, b) = [failures |-> n, flagged |-> f]
    BY Zenon DEF Judged
  <1>3. Judged(h, b).failures = n /\ Judged(h, b).flagged = f
    BY <1>2
  <1> HIDE DEF n, f
  <1>4. Judged(h, b) \in Health
    BY <1>1, <1>2 DEF Health
  <1> USE DEF n, f
  <1> QED
    BY <1>3, <1>4, Zenon
-----------------------------------------------------------------------------
LEMMA InitTypes == Init => Types
  <1> SUFFICES ASSUME Init PROVE Types
    OBVIOUS
  <1>1. pass \in [Passes -> Held] /\ \A p \in Passes : pass[p] = Fresh
    BY FreshIsHeld DEF Init
  <1>2. sources \in [Sources -> Health] /\ documents \in Seq(Items)
    BY DEF Init, NeverFetched, Health
  <1>3. \A p \in Passes : pass[p].reading = {} /\ pass[p].written = {} /\ pass[p].judged = {}
    BY <1>1, FreshIsHeld
  <1> QED
    BY <1>1, <1>2, <1>3 DEF Init, Types

\* A step that changes one pass, and leaves it with what its node allows.
LEMMA TypesAfter ==
    ASSUME Types, NEW p \in Passes,
           pass' \in [Passes -> Held], OthersKept(p),
           pass'[p].reading \subseteq (DOMAIN pass'[p].seen) \X Items,
           pass'[p].written \subseteq pass'[p].reading,
           pass'[p].judged \subseteq DOMAIN pass'[p].seen,
           pass'[p].at # "Select Active Sources",
           pass'[p].at = "Fetch Source Payload" => pass'[p].written = {} /\ pass'[p].judged = {},
           UNCHANGED <<sources, documents, calls, ledger, findings, runs>>
    PROVE  Types'
  <1>1. ASSUME NEW q \in Passes
        PROVE  /\ pass'[q].reading \subseteq (DOMAIN pass'[q].seen) \X Items
               /\ pass'[q].written \subseteq pass'[q].reading
               /\ pass'[q].judged \subseteq DOMAIN pass'[q].seen
               /\ pass'[q].at = "Select Active Sources" => pass'[q].reading = {} /\ pass'[q].judged = {}
               /\ pass'[q].at = "Fetch Source Payload" => pass'[q].written = {} /\ pass'[q].judged = {}
    <2>1. CASE q = p
      BY <2>1
    <2>2. CASE q # p
      BY <2>2 DEF Types, OthersKept
    <2> QED
      BY <2>1, <2>2
  <1>2. /\ sources' \in [Sources -> Health]
        /\ documents' \in Seq(Items)
        /\ calls' \subseteq Passes \X Items
        /\ ledger' \subseteq Passes \X Items
        /\ findings' \subseteq Passes \X Items
        /\ runs' \in [Passes -> {"running", "ok", "partial", "failed"}]
    BY DEF Types
  <1> QED
    BY <1>1, <1>2 DEF Types

\* A step that changes one pass and leaves what it read alone.
LEMMA TypesKept ==
    ASSUME Types, NEW p \in Passes,
           pass' \in [Passes -> Held], OthersKept(p), ReadingKept(p),
           pass'[p].written \subseteq pass'[p].reading,
           pass'[p].judged \subseteq DOMAIN pass'[p].seen,
           pass'[p].at \notin {"Select Active Sources", "Fetch Source Payload"},
           sources' \in [Sources -> Health],
           documents' \in Seq(Items),
           calls' \subseteq Passes \X Items,
           ledger' \subseteq Passes \X Items,
           findings' \subseteq Passes \X Items,
           runs' \in [Passes -> {"running", "ok", "partial", "failed"}]
    PROVE  Types'
  <1>1. ASSUME NEW q \in Passes
        PROVE  /\ pass'[q].reading \subseteq (DOMAIN pass'[q].seen) \X Items
               /\ pass'[q].written \subseteq pass'[q].reading
               /\ pass'[q].judged \subseteq DOMAIN pass'[q].seen
               /\ pass'[q].at = "Select Active Sources" => pass'[q].reading = {} /\ pass'[q].judged = {}
               /\ pass'[q].at = "Fetch Source Payload" => pass'[q].written = {} /\ pass'[q].judged = {}
    BY DEF Types, OthersKept, ReadingKept
  <1> QED
    BY <1>1 DEF Types

LEMMA SelectActiveSourcesShape ==
    ASSUME Types, NEW p \in Passes, SelectActiveSources(p)
    PROVE  /\ Types' /\ OthersKept(p)
           /\ pass'[p].at \in {"dry", "Fetch Source Payload"}
           /\ \A s \in DOMAIN pass'[p].seen : pass'[p].seen[s] = sources[s]
           /\ pass[p].judged = {} /\ pass'[p].judged = {}
           /\ pass'[p].inserted = pass[p].inserted
           /\ pass'[p].staged = pass[p].staged
           /\ pass'[p].filed = pass[p].filed
  <1> DEFINE active == {s \in Sources : ~ sources[s].flagged}
             h == [pass[p] EXCEPT
                    !.seen = [s \in active |-> sources[s]],
                    !.at = IF active = {} THEN "dry" ELSE "Fetch Source Payload"]
  <1>a. [s \in active |-> sources[s]] \in [active -> Health]
    BY DEF Types
  <1>b. [active -> Health] \subseteq Columns
    BY ColumnsOf
  <1>1. pass[p] \in Held /\ [s \in active |-> sources[s]] \in Columns
    BY <1>a, <1>b DEF Types
  <1>2. h \in Held
    BY <1>1 DEF Held, Nodes, Ended
  <1>3. /\ h.reading = pass[p].reading /\ h.written = pass[p].written /\ h.judged = pass[p].judged
        /\ h.inserted = pass[p].inserted /\ h.staged = pass[p].staged /\ h.filed = pass[p].filed
        /\ h.at \in {"dry", "Fetch Source Payload"}
        /\ \A s \in DOMAIN h.seen : h.seen[s] = sources[s]
    BY <1>1 DEF Held
  <1>4. pass[p].reading = {} /\ pass[p].judged = {} /\ pass[p].written = {}
    BY DEF Types, SelectActiveSources
  <1>5. Only(p, h)
    BY DEF SelectActiveSources
  <1> HIDE DEF h
  <1>6. /\ pass' \in [Passes -> Held]
        /\ pass'[p] = h
        /\ OthersKept(p)
    BY <1>2, <1>5, OnePass DEF Types
  <1>7. pass'[p].reading = {} /\ pass'[p].judged = {} /\ pass'[p].written = {}
    BY <1>3, <1>4, <1>6
  <1>8. Types'
    <2>1. UNCHANGED <<sources, documents, calls, ledger, findings, runs>>
      BY DEF SelectActiveSources
    <2>2. /\ pass'[p].reading \subseteq (DOMAIN pass'[p].seen) \X Items
          /\ pass'[p].written \subseteq pass'[p].reading
          /\ pass'[p].judged \subseteq DOMAIN pass'[p].seen
      BY <1>7
    <2>3. pass'[p].at # "Select Active Sources"
      BY <1>3, <1>6
    <2> QED
      BY <1>6, <1>7, <2>1, <2>2, <2>3, TypesAfter
  <1> QED
    BY <1>3, <1>4, <1>6, <1>7, <1>8

LEMMA FetchSourcePayloadShape ==
    ASSUME Types, NEW p \in Passes, FetchSourcePayload(p)
    PROVE  /\ Types' /\ OthersKept(p)
           /\ pass'[p].at \in {"Apply Source Health", "Write Documents"}
           /\ pass'[p].seen = pass[p].seen
           /\ pass[p].judged = {} /\ pass'[p].judged = {}
           /\ pass'[p].inserted = pass[p].inserted
           /\ pass'[p].staged = pass[p].staged
           /\ pass'[p].filed = pass[p].filed
  <1>1. PICK payload \in [DOMAIN pass[p].seen -> Payloads] :
            LET reading == {r \in (DOMAIN pass[p].seen) \X Items : r[2] \in payload[r[1]]}
            IN  Only(p, [pass[p] EXCEPT
                    !.reading = reading,
                    !.at = IF reading = {} THEN "Apply Source Health" ELSE "Write Documents"])
    BY DEF FetchSourcePayload
  <1> DEFINE reading == {r \in (DOMAIN pass[p].seen) \X Items : r[2] \in payload[r[1]]}
             h == [pass[p] EXCEPT
                    !.reading = reading,
                    !.at = IF reading = {} THEN "Apply Source Health" ELSE "Write Documents"]
  <1>2. pass[p] \in Held /\ pass[p].seen \in Columns
    BY DEF Types, Held
  <1>3. reading \in SUBSET (Sources \X Items)
    BY <1>2, ColumnsOf
  <1>4. h \in Held
    BY <1>2, <1>3 DEF Held, Nodes, Ended
  <1>5. /\ h.reading = reading /\ h.written = pass[p].written /\ h.judged = pass[p].judged
        /\ h.seen = pass[p].seen
        /\ h.inserted = pass[p].inserted /\ h.staged = pass[p].staged /\ h.filed = pass[p].filed
        /\ h.at \in {"Apply Source Health", "Write Documents"}
    BY <1>2 DEF Held
  <1>6. pass[p].judged = {} /\ pass[p].written = {}
    BY DEF Types, FetchSourcePayload
  <1>7. reading \subseteq (DOMAIN h.seen) \X Items
    BY <1>5
  <1>8. Only(p, h)
    BY <1>1
  <1> HIDE DEF h, reading
  <1>9. /\ pass' \in [Passes -> Held]
        /\ pass'[p] = h
        /\ OthersKept(p)
    BY <1>4, <1>8, OnePass DEF Types
  <1>10. Types'
    <2>1. UNCHANGED <<sources, documents, calls, ledger, findings, runs>>
      BY DEF FetchSourcePayload
    <2>2. /\ pass'[p].reading \subseteq (DOMAIN pass'[p].seen) \X Items
          /\ pass'[p].written \subseteq pass'[p].reading
          /\ pass'[p].judged \subseteq DOMAIN pass'[p].seen
      BY <1>5, <1>6, <1>7, <1>9
    <2>3. pass'[p].at \notin {"Select Active Sources", "Fetch Source Payload"}
      BY <1>5, <1>9
    <2> QED
      BY <1>9, <2>1, <2>2, <2>3, TypesAfter
  <1> QED
    BY <1>5, <1>6, <1>9, <1>10

\* The unique hash: a document is written behind the others, or is there.
LEMMA CorpusGrows ==
    ASSUME documents \in Seq(Items),
           NEW p \in Passes, NEW r \in Sources \X Items, WriteDocument(p, r)
    PROVE  /\ documents' \in Seq(Items)
           /\ Len(documents) <= Len(documents')
           /\ \A k \in DOMAIN documents : k \in DOMAIN documents' /\ documents'[k] = documents[k]
           /\ \A k \in DOMAIN documents' :
                k \in DOMAIN documents
                \/ (r[2] \notin Corpus /\ k = Len(documents) + 1 /\ documents'[k] = r[2])
           /\ Corpus' = Corpus \cup {r[2]}
  <1>1. r[2] \in Items
    OBVIOUS
  <1>2. CASE r[2] \in Corpus
    <2>1. documents' = documents
      BY <1>2 DEF WriteDocument
    <2> QED
      BY <1>2, <2>1 DEF Corpus
  <1>3. CASE r[2] \notin Corpus
    <2>1. documents' = Append(documents, r[2])
      BY <1>3 DEF WriteDocument
    <2>2. /\ documents' \in Seq(Items)
          /\ Len(documents') = Len(documents) + 1
          /\ DOMAIN documents = 1..Len(documents)
          /\ DOMAIN documents' = 1..Len(documents')
          /\ \A k \in 1..Len(documents) : documents'[k] = documents[k]
          /\ documents'[Len(documents) + 1] = r[2]
          /\ Len(documents) \in Nat
      BY <1>1, <2>1
    <2> HIDE <2>1
    <2>3. \A k \in DOMAIN documents : k \in DOMAIN documents' /\ documents'[k] = documents[k]
      BY <2>2
    <2>4. \A k \in DOMAIN documents' : k \in DOMAIN documents \/ k = Len(documents) + 1
      BY <2>2
    <2>5. Len(documents) + 1 \in DOMAIN documents'
      BY <2>2
    <2>6. Corpus' = Corpus \cup {r[2]}
      <3>1. Corpus' = {documents'[k] : k \in DOMAIN documents'}
        BY DEF Corpus
      <3>2. Corpus \subseteq Corpus'
        BY <2>3, <3>1 DEF Corpus
      <3>3. r[2] \in Corpus'
        BY <2>2, <2>5, <3>1
      <3>4. ASSUME NEW c \in Corpus' PROVE c \in Corpus \cup {r[2]}
        <4>1. PICK k \in DOMAIN documents' : c = documents'[k]
          BY <3>1
        <4> QED
          BY <2>2, <2>4, <4>1 DEF Corpus
      <3> QED
        BY <3>2, <3>3, <3>4
    <2> QED
      BY <1>3, <2>2, <2>3, <2>4, <2>6
  <1> QED
    BY <1>2, <1>3

LEMMA WriteDocumentShape ==
    ASSUME Types, NEW p \in Passes, NEW r \in Sources \X Items, WriteDocument(p, r)
    PROVE  /\ Types' /\ OthersKept(p) /\ ReadingKept(p)
           /\ pass'[p].at \in {"Write Documents", "Apply Source Health"}
           /\ pass'[p].inserted = IF r[2] \notin Corpus
                                  THEN pass[p].inserted \cup {r[2]} ELSE pass[p].inserted
           /\ pass'[p].judged = pass[p].judged
           /\ pass'[p].staged = pass[p].staged
           /\ pass'[p].filed = pass[p].filed
  <1> DEFINE written == pass[p].written \cup {r}
             inserted == IF r[2] \notin Corpus
                         THEN pass[p].inserted \cup {r[2]} ELSE pass[p].inserted
             h == [pass[p] EXCEPT
                    !.written = written,
                    !.inserted = IF r[2] \notin Corpus THEN @ \cup {r[2]} ELSE @,
                    !.at = IF written = pass[p].reading THEN "Apply Source Health" ELSE @]
  <1>1. pass[p] \in Held /\ r[2] \in Items /\ pass[p].at = "Write Documents"
        /\ r \in pass[p].reading
    BY DEF Types, WriteDocument
  <1>2. written \in SUBSET (Sources \X Items) /\ inserted \in SUBSET Items
    BY <1>1 DEF Held
  <1>3. h \in Held
    BY <1>1, <1>2 DEF Held, Nodes, Ended
  <1>4. /\ h.seen = pass[p].seen /\ h.reading = pass[p].reading
        /\ h.written = written /\ h.judged = pass[p].judged
        /\ h.at \in {"Write Documents", "Apply Source Health"}
        /\ h.inserted = inserted
        /\ h.staged = pass[p].staged /\ h.filed = pass[p].filed
    BY <1>1 DEF Held
  <1>5. Only(p, h)
    BY DEF WriteDocument
  <1> HIDE DEF h
  <1>6. pass' \in [Passes -> Held] /\ pass'[p] = h /\ OthersKept(p)
    BY <1>3, <1>5, OnePass DEF Types
  <1>7. ReadingKept(p)
    BY <1>4, <1>6 DEF ReadingKept
  <1>8. documents' \in Seq(Items)
    BY CorpusGrows DEF Types
  <1>9. Types'
    BY <1>1, <1>4, <1>6, <1>7, <1>8, TypesKept DEF WriteDocument, Types
  <1> QED
    BY <1>4, <1>6, <1>7, <1>9

LEMMA ApplySourceHealthShape ==
    ASSUME Types, NEW p \in Passes, NEW s \in Sources, ApplySourceHealth(p, s)
    PROVE  /\ Types' /\ OthersKept(p) /\ ReadingKept(p)
           /\ pass'[p].at \in {"Apply Source Health", "Select Recent Corpus"}
           /\ pass'[p].judged = pass[p].judged \cup {s}
           /\ pass'[p].inserted = pass[p].inserted
           /\ pass'[p].staged = pass[p].staged
           /\ pass'[p].filed = pass[p].filed
           /\ pass[p].seen[s] \in Health
           /\ sources'[s] = Judged(pass[p].seen[s], Succeeded(p, s))
           /\ \A t \in Sources \ {s} : sources'[t] = sources[t]
  <1> DEFINE judged == pass[p].judged \cup {s}
             h == [pass[p] EXCEPT
                    !.judged = judged,
                    !.at = IF judged = DOMAIN pass[p].seen THEN "Select Recent Corpus" ELSE @]
  <1>1. pass[p] \in Held /\ pass[p].at = "Apply Source Health" /\ s \in DOMAIN pass[p].seen
    BY DEF Types, ApplySourceHealth
  <1>2. pass[p].seen[s] \in Health
    BY <1>1, ColumnsOf DEF Held
  <1>3. Succeeded(p, s) \in BOOLEAN
    BY DEF Succeeded
  <1>4. Judged(pass[p].seen[s], Succeeded(p, s)) \in Health
    BY <1>2, <1>3, JudgedIsHealth
  <1>5. h \in Held
    BY <1>1 DEF Held, Nodes, Ended
  <1>6. /\ h.seen = pass[p].seen /\ h.reading = pass[p].reading
        /\ h.written = pass[p].written /\ h.judged = judged
        /\ h.at \in {"Apply Source Health", "Select Recent Corpus"}
        /\ h.inserted = pass[p].inserted
        /\ h.staged = pass[p].staged /\ h.filed = pass[p].filed
    BY <1>1 DEF Held
  <1>7. Only(p, h)
    BY DEF ApplySourceHealth
  <1> HIDE DEF h
  <1>8. pass' \in [Passes -> Held] /\ pass'[p] = h /\ OthersKept(p)
    BY <1>5, <1>7, OnePass DEF Types
  <1>9. ReadingKept(p)
    BY <1>6, <1>8 DEF ReadingKept
  <1>10. /\ sources' \in [Sources -> Health]
         /\ sources'[s] = Judged(pass[p].seen[s], Succeeded(p, s))
         /\ \A t \in Sources \ {s} : sources'[t] = sources[t]
    BY <1>4 DEF ApplySourceHealth, Types
  <1>11. Types'
    BY <1>1, <1>6, <1>8, <1>9, <1>10, TypesKept DEF ApplySourceHealth, Types
  <1> QED
    BY <1>2, <1>6, <1>8, <1>9, <1>10, <1>11

LEMMA SelectRecentCorpusShape ==
    ASSUME Types, NEW p \in Passes, SelectRecentCorpus(p)
    PROVE  /\ Types' /\ OthersKept(p) /\ ReadingKept(p)
           /\ pass'[p].at \in {"dry", "Apply Call Ceiling"}
           /\ pass'[p].judged = pass[p].judged
           /\ pass'[p].inserted = pass[p].inserted
           /\ \A i \in pass'[p].staged : i \in pass[p].inserted /\ ~ NearDuplicate(i)
           /\ pass'[p].filed = pass[p].filed
  <1> DEFINE staged == {i \in pass[p].inserted :
                         ~ NearDuplicate(i) /\ Relevance[i] >= GateThreshold}
             h == [pass[p] EXCEPT
                    !.staged = staged,
                    !.at = IF pass[p].inserted = {} THEN "dry" ELSE "Apply Call Ceiling"]
  <1>1. pass[p] \in Held
    BY DEF Types
  <1>2. staged \in SUBSET Items
    BY <1>1 DEF Held
  <1>3. \A i \in staged : i \in pass[p].inserted /\ ~ NearDuplicate(i)
    OBVIOUS
  <1>4. Only(p, h)
    BY DEF SelectRecentCorpus
  <1> HIDE DEF staged
  <1>5. h \in Held
    BY <1>1, <1>2 DEF Held, Nodes, Ended
  <1>6. /\ h.seen = pass[p].seen /\ h.reading = pass[p].reading
        /\ h.written = pass[p].written /\ h.judged = pass[p].judged
        /\ h.at \in {"dry", "Apply Call Ceiling"}
        /\ h.inserted = pass[p].inserted
        /\ h.staged = staged /\ h.filed = pass[p].filed
    BY <1>1 DEF Held
  <1> HIDE DEF h
  <1>7. pass' \in [Passes -> Held] /\ pass'[p] = h /\ OthersKept(p)
    BY <1>4, <1>5, OnePass DEF Types
  <1>8. ReadingKept(p)
    BY <1>6, <1>7 DEF ReadingKept
  <1>9. Types'
    BY <1>6, <1>7, <1>8, TypesKept DEF SelectRecentCorpus, Types
  <1> QED
    BY <1>3, <1>6, <1>7, <1>8, <1>9

LEMMA ApplyCallCeilingShape ==
    ASSUME Types, NEW p \in Passes, ApplyCallCeiling(p)
    PROVE  /\ Types' /\ OthersKept(p) /\ ReadingKept(p)
           /\ pass'[p].at \in {"dry", "Prepare Model Prompt"}
           /\ pass'[p].judged = pass[p].judged
           /\ pass'[p].inserted = pass[p].inserted
           /\ pass'[p].staged \subseteq pass[p].staged
           /\ pass'[p].filed = pass[p].filed
  <1> DEFINE staged == WithinCeiling(pass[p].staged)
             h == [pass[p] EXCEPT
                    !.staged = staged,
                    !.capped = staged,
                    !.at = IF staged = {} THEN "dry" ELSE "Prepare Model Prompt"]
  <1>1. pass[p] \in Held
    BY DEF Types
  <1>2. staged \subseteq pass[p].staged
    BY DEF WithinCeiling
  <1>3. Only(p, h)
    BY DEF ApplyCallCeiling
  <1> HIDE DEF staged
  <1>4. h \in Held
    BY <1>1, <1>2 DEF Held, Nodes, Ended
  <1>5. /\ h.seen = pass[p].seen /\ h.reading = pass[p].reading
        /\ h.written = pass[p].written /\ h.judged = pass[p].judged
        /\ h.at \in {"dry", "Prepare Model Prompt"}
        /\ h.inserted = pass[p].inserted
        /\ h.staged = staged /\ h.filed = pass[p].filed
    BY <1>1 DEF Held
  <1> HIDE DEF h
  <1>6. pass' \in [Passes -> Held] /\ pass'[p] = h /\ OthersKept(p)
    BY <1>3, <1>4, OnePass DEF Types
  <1>7. ReadingKept(p)
    BY <1>5, <1>6 DEF ReadingKept
  <1>8. Types'
    BY <1>5, <1>6, <1>7, TypesKept DEF ApplyCallCeiling, Types
  <1> QED
    BY <1>2, <1>5, <1>6, <1>7, <1>8

LEMMA PrepareModelPromptShape ==
    ASSUME Types, NEW p \in Passes, PrepareModelPrompt(p)
    PROVE  /\ Types' /\ OthersKept(p) /\ ReadingKept(p)
           /\ pass'[p].at \in {"dry", "Extract Finding Fields"}
           /\ pass'[p].judged = pass[p].judged
           /\ pass'[p].inserted = pass[p].inserted
           /\ pass'[p].staged \subseteq pass[p].staged
           /\ pass'[p].filed = pass[p].filed
  <1> DEFINE staged == pass[p].staged \cap Readable
             h == [pass[p] EXCEPT
                    !.staged = staged,
                    !.at = IF staged = {} THEN "dry" ELSE "Extract Finding Fields"]
  <1>1. pass[p] \in Held
    BY DEF Types
  <1>2. staged \subseteq pass[p].staged
    OBVIOUS
  <1>3. Only(p, h)
    BY DEF PrepareModelPrompt
  <1> HIDE DEF staged
  <1>4. h \in Held
    BY <1>1, <1>2 DEF Held, Nodes, Ended
  <1>5. /\ h.seen = pass[p].seen /\ h.reading = pass[p].reading
        /\ h.written = pass[p].written /\ h.judged = pass[p].judged
        /\ h.at \in {"dry", "Extract Finding Fields"}
        /\ h.inserted = pass[p].inserted
        /\ h.staged = staged /\ h.filed = pass[p].filed
    BY <1>1 DEF Held
  <1> HIDE DEF h
  <1>6. pass' \in [Passes -> Held] /\ pass'[p] = h /\ OthersKept(p)
    BY <1>3, <1>4, OnePass DEF Types
  <1>7. ReadingKept(p)
    BY <1>5, <1>6 DEF ReadingKept
  <1>8. Types'
    BY <1>5, <1>6, <1>7, TypesKept DEF PrepareModelPrompt, Types
  <1> QED
    BY <1>2, <1>5, <1>6, <1>7, <1>8

LEMMA PairAdded ==
    ASSUME NEW made, made \subseteq Passes \X Items, NEW p \in Passes, NEW i \in Items
    PROVE  made \cup {<<p, i>>} \subseteq Passes \X Items
  <1>1. <<p, i>> \in Passes \X Items
    OBVIOUS
  <1> QED
    BY <1>1, Zenon

LEMMA ExtractFindingFieldsShape ==
    ASSUME Types, NEW p \in Passes, NEW i \in Items, ExtractFindingFields(p, i)
    PROVE  /\ Types' /\ OthersKept(p) /\ ReadingKept(p)
           /\ pass'[p].at = IF Of(p, calls \cup {<<p, i>>}) = pass[p].staged
                            THEN "Ledger Model Call" ELSE "Extract Finding Fields"
           /\ pass'[p].judged = pass[p].judged
           /\ pass'[p].inserted = pass[p].inserted
           /\ pass'[p].staged = pass[p].staged
           /\ pass'[p].capped = pass[p].capped
           /\ pass'[p].filed = pass[p].filed
  <1> DEFINE at == IF Of(p, calls \cup {<<p, i>>}) = pass[p].staged
                   THEN "Ledger Model Call" ELSE "Extract Finding Fields"
             h(a) == [pass[p] EXCEPT
                        !.answered = a,
                        !.at = IF Of(p, calls \cup {<<p, i>>}) = pass[p].staged
                               THEN "Ledger Model Call" ELSE @]
  <1>1. pass[p] \in Held /\ pass[p].at = "Extract Finding Fields"
    BY DEF Types, ExtractFindingFields
  <1>2. PICK a \in {pass[p].answered, pass[p].answered \cup {i}} : Only(p, h(a))
    BY DEF ExtractFindingFields
  <1>3. a \in SUBSET Items
    BY <1>1 DEF Held
  <1>4. h(a) \in Held
    BY <1>1, <1>3 DEF Held, Nodes, Ended
  <1>5. /\ h(a).seen = pass[p].seen /\ h(a).reading = pass[p].reading
        /\ h(a).written = pass[p].written /\ h(a).judged = pass[p].judged
        /\ h(a).at = at
        /\ h(a).inserted = pass[p].inserted
        /\ h(a).staged = pass[p].staged /\ h(a).filed = pass[p].filed
        /\ h(a).capped = pass[p].capped
    BY <1>1 DEF Held
  <1> HIDE DEF h
  <1>6. pass' \in [Passes -> Held] /\ pass'[p] = h(a) /\ OthersKept(p)
    BY <1>2, <1>4, OnePass DEF Types
  <1>7. ReadingKept(p)
    BY <1>5, <1>6 DEF ReadingKept
  <1>8. calls' = calls \cup {<<p, i>>}
    BY DEF ExtractFindingFields
  <1>9. calls' \subseteq Passes \X Items
    BY <1>8, PairAdded DEF Types
  <1>10. pass'[p].at \notin {"Select Active Sources", "Fetch Source Payload"}
    BY <1>5, <1>6
  <1>11. UNCHANGED <<sources, documents, ledger, findings, runs>>
    BY DEF ExtractFindingFields
  <1>12. Types'
    BY <1>5, <1>6, <1>7, <1>9, <1>10, <1>11, TypesKept DEF Types
  <1> QED
    BY <1>5, <1>6, <1>7, <1>12

LEMMA LedgerModelCallShape ==
    ASSUME Types, NEW p \in Passes, NEW i \in Items, LedgerModelCall(p, i)
    PROVE  /\ Types' /\ OthersKept(p) /\ ReadingKept(p)
           /\ pass'[p].at = IF Of(p, ledger \cup {<<p, i>>}) = pass[p].staged
                            THEN "Write Findings" ELSE "Ledger Model Call"
           /\ pass'[p].judged = pass[p].judged
           /\ pass'[p].inserted = pass[p].inserted
           /\ pass'[p].staged = pass[p].staged
           /\ pass'[p].capped = pass[p].capped
           /\ pass'[p].filed = pass[p].filed
  <1> DEFINE h == [pass[p] EXCEPT
                    !.at = IF Of(p, ledger \cup {<<p, i>>}) = pass[p].staged
                           THEN "Write Findings" ELSE @]
  <1>1. pass[p] \in Held /\ pass[p].at = "Ledger Model Call"
    BY DEF Types, LedgerModelCall
  <1>2. Only(p, h)
    BY DEF LedgerModelCall
  <1>3. h \in Held
    BY <1>1 DEF Held, Nodes, Ended
  <1>4. /\ h.seen = pass[p].seen /\ h.reading = pass[p].reading
        /\ h.written = pass[p].written /\ h.judged = pass[p].judged
        /\ h.at = IF Of(p, ledger \cup {<<p, i>>}) = pass[p].staged
                  THEN "Write Findings" ELSE "Ledger Model Call"
        /\ h.inserted = pass[p].inserted
        /\ h.staged = pass[p].staged /\ h.filed = pass[p].filed
        /\ h.capped = pass[p].capped
    BY <1>1 DEF Held
  <1> HIDE DEF h
  <1>5. pass' \in [Passes -> Held] /\ pass'[p] = h /\ OthersKept(p)
    BY <1>2, <1>3, OnePass DEF Types
  <1>6. ReadingKept(p)
    BY <1>4, <1>5 DEF ReadingKept
  <1>7. ledger' = ledger \cup {<<p, i>>}
    BY DEF LedgerModelCall
  <1>8. ledger' \subseteq Passes \X Items
    BY <1>7, PairAdded DEF Types
  <1>9. pass'[p].at \notin {"Select Active Sources", "Fetch Source Payload"}
    BY <1>4, <1>5
  <1>10. UNCHANGED <<sources, documents, calls, findings, runs>>
    BY DEF LedgerModelCall
  <1>11. Types'
    BY <1>4, <1>5, <1>6, <1>8, <1>9, <1>10, TypesKept DEF Types
  <1> QED
    BY <1>4, <1>5, <1>6, <1>11

LEMMA WriteFindingShape ==
    ASSUME Types, NEW p \in Passes, NEW i \in Items, WriteFinding(p, i)
    PROVE  /\ Types' /\ OthersKept(p) /\ ReadingKept(p)
           /\ pass'[p].at \in {"Write Findings", "Close Run"}
           /\ pass'[p].judged = pass[p].judged
           /\ pass'[p].inserted = pass[p].inserted
           /\ pass'[p].staged = pass[p].staged
           /\ pass'[p].filed = pass[p].filed \cup {i}
  <1> DEFINE h == [pass[p] EXCEPT
                    !.filed = pass[p].filed \cup {i},
                    !.at = IF pass[p].filed \cup {i} = pass[p].staged THEN "Close Run" ELSE @]
  <1>1. pass[p] \in Held /\ pass[p].at = "Write Findings"
    BY DEF Types, WriteFinding
  <1>2. Only(p, h)
    BY DEF WriteFinding
  <1>3. h \in Held
    BY <1>1 DEF Held, Nodes, Ended
  <1>4. /\ h.seen = pass[p].seen /\ h.reading = pass[p].reading
        /\ h.written = pass[p].written /\ h.judged = pass[p].judged
        /\ h.at \in {"Write Findings", "Close Run"}
        /\ h.inserted = pass[p].inserted
        /\ h.staged = pass[p].staged /\ h.filed = pass[p].filed \cup {i}
    BY <1>1 DEF Held
  <1> HIDE DEF h
  <1>5. pass' \in [Passes -> Held] /\ pass'[p] = h /\ OthersKept(p)
    BY <1>2, <1>3, OnePass DEF Types
  <1>6. ReadingKept(p)
    BY <1>4, <1>5 DEF ReadingKept
  <1>a. findings' = findings \/ findings' = findings \cup {<<p, i>>}
    BY DEF WriteFinding
  <1>7. findings' \subseteq Passes \X Items
    BY <1>a, PairAdded DEF Types
  <1>8. Types'
    BY <1>4, <1>5, <1>6, <1>7, TypesKept DEF WriteFinding, Types
  <1> QED
    BY <1>4, <1>5, <1>6, <1>8

\* The last statement, and a pass that stops: nothing else it holds changes.
LEMMA EndShape ==
    ASSUME Types, NEW p \in Passes, CloseRun(p) \/ PassStops(p)
    PROVE  /\ Types' /\ OthersKept(p) /\ ReadingKept(p)
           /\ pass'[p].at \in {"closed", "stopped"}
           /\ pass'[p].judged = pass[p].judged
           /\ pass'[p].inserted = pass[p].inserted
           /\ pass'[p].staged = pass[p].staged
           /\ pass'[p].filed = pass[p].filed
           /\ UNCHANGED sources /\ UNCHANGED documents
           /\ UNCHANGED calls /\ UNCHANGED ledger /\ UNCHANGED findings
  <1> DEFINE h(a) == [pass[p] EXCEPT !.at = a]
  <1>1. pass[p] \in Held
    BY DEF Types
  <1>2. PICK a \in {"closed", "stopped"} : Only(p, h(a))
    BY DEF CloseRun, PassStops
  <1>3. h(a) \in Held
    BY <1>1 DEF Held, Nodes, Ended
  <1>4. /\ h(a).seen = pass[p].seen /\ h(a).reading = pass[p].reading
        /\ h(a).written = pass[p].written /\ h(a).judged = pass[p].judged
        /\ h(a).at \in {"closed", "stopped"}
        /\ h(a).inserted = pass[p].inserted
        /\ h(a).staged = pass[p].staged /\ h(a).filed = pass[p].filed
    BY <1>1 DEF Held
  <1> HIDE DEF h
  <1>5. pass' \in [Passes -> Held] /\ pass'[p] = h(a) /\ OthersKept(p)
    BY <1>2, <1>3, OnePass DEF Types
  <1>6. ReadingKept(p)
    BY <1>4, <1>5 DEF ReadingKept
  <1>7. runs' \in [Passes -> {"running", "ok", "partial", "failed"}]
    BY DEF CloseRun, PassStops, Types
  <1>8. /\ UNCHANGED sources /\ UNCHANGED documents
        /\ UNCHANGED calls /\ UNCHANGED ledger /\ UNCHANGED findings
    BY DEF CloseRun, PassStops
  <1>9. Types'
    BY <1>4, <1>5, <1>6, <1>7, <1>8, TypesKept DEF Types
  <1> QED
    BY <1>4, <1>5, <1>6, <1>8, <1>9
-----------------------------------------------------------------------------
LEMMA NextTypes == Types /\ [Next]_vars => Types'
  <1> SUFFICES ASSUME Types, [Next]_vars PROVE Types'
    OBVIOUS
  <1>1. CASE UNCHANGED vars
    BY <1>1 DEF Types, vars
  <1>2. CASE Next
    <2>1. PICK p \in Passes : PassStep(p) \/ PassStops(p)
      BY <1>2 DEF Next
    <2> QED
      BY <2>1, SelectActiveSourcesShape, FetchSourcePayloadShape, WriteDocumentShape,
         ApplySourceHealthShape, SelectRecentCorpusShape, ApplyCallCeilingShape,
         PrepareModelPromptShape, ExtractFindingFieldsShape, LedgerModelCallShape, WriteFindingShape, EndShape
         DEF PassStep
  <1> QED
    BY <1>1, <1>2

LEMMA TypesIsTypeOK == Types => TypeOK
  <1> SUFFICES ASSUME Types PROVE TypeOK
    OBVIOUS
  <1>1. ASSUME NEW p \in Passes
        PROVE  /\ DOMAIN pass[p] = DOMAIN Fresh
               /\ pass[p].at \in Nodes \cup Ended
               /\ DOMAIN pass[p].seen \subseteq Sources
               /\ pass[p].seen \in [DOMAIN pass[p].seen -> Health]
               /\ \A held \in {"inserted", "staged", "capped", "answered", "filed"} :
                    pass[p][held] \subseteq Items
    <2>1. pass[p] \in Held
      BY DEF Types
    <2>2. DOMAIN pass[p] = DOMAIN Fresh
      BY <2>1, FreshIsHeld DEF Held
    <2>3. pass[p].at \in Nodes \cup Ended /\ pass[p].seen \in Columns
      BY <2>1 DEF Held
    <2>4. DOMAIN pass[p].seen \subseteq Sources /\ pass[p].seen \in [DOMAIN pass[p].seen -> Health]
      BY <2>3, ColumnsOf
    <2>5. /\ pass[p].inserted \subseteq Items /\ pass[p].staged \subseteq Items
          /\ pass[p].capped \subseteq Items
          /\ pass[p].answered \subseteq Items /\ pass[p].filed \subseteq Items
      BY <2>1 DEF Held
    <2>6. \A held \in {"inserted", "staged", "capped", "answered", "filed"} :
            pass[p][held] \subseteq Items
      BY <2>5
    <2> QED
      BY <2>2, <2>3, <2>4, <2>6
  <1> QED
    BY <1>1 DEF Types, TypeOK

\* Every variable holds values of its kind in every state, for any number of
\* passes, sources and items (ar-ingest.json).
THEOREM IngestTypes == Spec => []TypeOK
  <1>1. Spec => []Types
    BY InitTypes, NextTypes, PTL DEF Spec
  <1> QED
    BY <1>1, TypesIsTypeOK, PTL
-----------------------------------------------------------------------------
(* Who owns an item.                                                       *)

LEMMA InitOwned == Init => Owned
  <1> SUFFICES ASSUME Init PROVE Owned
    OBVIOUS
  <1>1. \A p \in Passes : pass[p].inserted = {} /\ pass[p].staged = {}
    BY FreshIsHeld DEF Init
  <1>2. DOMAIN documents = {}
    BY NothingSeen DEF Init
  <1> QED
    BY <1>1, <1>2 DEF Owned

\* A step that stores nothing, and stages only what its pass had inserted.
LEMMA OwnedKept ==
    ASSUME Owned, NEW p \in Passes, OthersKept(p), UNCHANGED documents,
           pass'[p].inserted = pass[p].inserted,
           pass'[p].staged \subseteq pass[p].inserted
    PROVE  Owned'
  <1>1. \A q \in Passes : pass'[q].inserted = pass[q].inserted
    BY DEF OthersKept
  <1>2. \A q \in Passes : pass'[q].staged \subseteq pass'[q].inserted
    BY DEF OthersKept, Owned
  <1>3. Corpus' = Corpus
    BY DEF Corpus
  <1> QED
    BY <1>1, <1>2, <1>3 DEF Owned

LEMMA OwnedWrite ==
    ASSUME Types, Owned, NEW p \in Passes, NEW r \in Sources \X Items, WriteDocument(p, r)
    PROVE  Owned'
  <1>1. /\ OthersKept(p)
        /\ pass'[p].inserted = IF r[2] \notin Corpus
                               THEN pass[p].inserted \cup {r[2]} ELSE pass[p].inserted
        /\ pass'[p].staged = pass[p].staged
    BY WriteDocumentShape
  <1>2. /\ \A k \in DOMAIN documents : k \in DOMAIN documents' /\ documents'[k] = documents[k]
        /\ \A k \in DOMAIN documents' :
             k \in DOMAIN documents
             \/ (r[2] \notin Corpus /\ k = Len(documents) + 1 /\ documents'[k] = r[2])
        /\ Corpus' = Corpus \cup {r[2]}
    BY CorpusGrows DEF Types
  <1>5. ASSUME NEW j \in DOMAIN documents', NEW k \in DOMAIN documents',
               documents'[j] = documents'[k]
        PROVE  j = k
    <2>1. \A m \in DOMAIN documents : documents[m] \in Corpus
      BY DEF Corpus
    <2>2. CASE j \in DOMAIN documents /\ k \in DOMAIN documents
      BY <1>2, <1>5, <2>2 DEF Owned
    <2>3. CASE j \notin DOMAIN documents
      BY <1>2, <1>5, <2>1, <2>3
    <2>4. CASE k \notin DOMAIN documents
      BY <1>2, <1>5, <2>1, <2>4
    <2> QED
      BY <2>2, <2>3, <2>4
  <1>6. \A q \in Passes : /\ pass'[q].staged \subseteq pass'[q].inserted
                         /\ pass'[q].inserted \subseteq Corpus'
    BY <1>1, <1>2 DEF Owned, OthersKept
  <1>7. ASSUME NEW q \in Passes, NEW o \in Passes, NEW i \in pass'[q].inserted \cap pass'[o].inserted
        PROVE  q = o
    <2>1. CASE r[2] \in Corpus
      BY <1>1, <1>7, <2>1 DEF Owned, OthersKept
    <2>2. CASE r[2] \notin Corpus
      BY <1>1, <1>7, <2>2 DEF Owned, OthersKept
    <2> QED
      BY <2>1, <2>2
  <1> QED
    BY <1>5, <1>6, <1>7 DEF Owned

LEMMA NextOwned == Types /\ Owned /\ [Next]_vars => Owned'
  <1> SUFFICES ASSUME Types, Owned, [Next]_vars PROVE Owned'
    OBVIOUS
  <1>1. CASE UNCHANGED vars
    BY <1>1 DEF Owned, Corpus, vars
  <1>2. CASE Next
    <2>1. PICK p \in Passes : PassStep(p) \/ PassStops(p)
      BY <1>2 DEF Next
    <2>2. pass[p].staged \subseteq pass[p].inserted
      BY DEF Owned
    <2>3. CASE SelectActiveSources(p)
      BY <2>2, <2>3, SelectActiveSourcesShape, OwnedKept DEF SelectActiveSources
    <2>4. CASE FetchSourcePayload(p)
      BY <2>2, <2>4, FetchSourcePayloadShape, OwnedKept DEF FetchSourcePayload
    <2>5. CASE \E r \in Sources \X Items : WriteDocument(p, r)
      BY <2>5, OwnedWrite
    <2>6. CASE \E s \in Sources : ApplySourceHealth(p, s)
      BY <2>2, <2>6, ApplySourceHealthShape, OwnedKept DEF ApplySourceHealth
    <2>7. CASE SelectRecentCorpus(p)
      <3>1. pass'[p].staged \subseteq pass[p].inserted
        BY <2>7, SelectRecentCorpusShape
      <3> QED
        BY <2>7, <3>1, SelectRecentCorpusShape, OwnedKept DEF SelectRecentCorpus
    <2>8. CASE ApplyCallCeiling(p)
      BY <2>2, <2>8, ApplyCallCeilingShape, OwnedKept DEF ApplyCallCeiling
    <2>a. CASE PrepareModelPrompt(p)
      BY <2>2, <2>a, PrepareModelPromptShape, OwnedKept DEF PrepareModelPrompt
    <2>9. CASE \E i \in Items : ExtractFindingFields(p, i)
      BY <2>2, <2>9, ExtractFindingFieldsShape, OwnedKept DEF ExtractFindingFields
    <2>10. CASE \E i \in Items : LedgerModelCall(p, i)
      BY <2>2, <2>10, LedgerModelCallShape, OwnedKept DEF LedgerModelCall
    <2>11. CASE \E i \in Items : WriteFinding(p, i)
      BY <2>2, <2>11, WriteFindingShape, OwnedKept DEF WriteFinding
    <2>12. CASE CloseRun(p) \/ PassStops(p)
      BY <2>2, <2>12, EndShape, OwnedKept
    <2> QED
      BY <2>1, <2>3, <2>4, <2>5, <2>6, <2>7, <2>8, <2>a, <2>9, <2>10, <2>11, <2>12 DEF PassStep
  <1> QED
    BY <1>1, <1>2
-----------------------------------------------------------------------------
(* What each node leaves for the next.                                     *)

LEMMA InitInOrder == Init => \A p \in Passes : InOrder(p)
  <1> SUFFICES ASSUME Init, NEW p \in Passes PROVE InOrder(p)
    OBVIOUS
  <1>1. pass[p].at = "Select Active Sources"
    BY FreshIsHeld DEF Init
  <1> QED
    BY <1>1 DEF Init, InOrder

\* What one pass adds to the tables under its own name, the others do not see.
LEMMA OthersInOrder ==
    ASSUME NEW p \in Passes, OthersKept(p), \A q \in Passes : InOrder(q),
           \A q \in Passes \ {p}, i \in Items :
              /\ <<q, i>> \in calls' <=> <<q, i>> \in calls
              /\ <<q, i>> \in ledger' <=> <<q, i>> \in ledger
              /\ <<q, i>> \in findings' <=> <<q, i>> \in findings,
           \A q \in Passes : pass[q].staged \subseteq Items,
           InOrder(p)'
    PROVE  \A q \in Passes : InOrder(q)'
  <1> SUFFICES ASSUME NEW q \in Passes \ {p} PROVE InOrder(q)'
    OBVIOUS
  <1>1. pass'[q] = pass[q] /\ InOrder(q) /\ pass[q].staged \subseteq Items
    BY DEF OthersKept
  <1> QED
    BY <1>1 DEF InOrder

\* A step that writes to no table but that of documents and of sources.
LEMMA QuietInOrder ==
    ASSUME Types, NEW p \in Passes, OthersKept(p), \A q \in Passes : InOrder(q),
           UNCHANGED calls, UNCHANGED ledger, UNCHANGED findings,
           pass'[p].filed = pass[p].filed,
           \A i \in Items : <<p, i>> \in calls => i \in pass'[p].staged,
           pass'[p].at \notin {"Ledger Model Call", "Write Findings"},
           pass'[p].at \in {"Select Active Sources", "Fetch Source Payload", "Write Documents",
                            "Apply Source Health", "Select Recent Corpus", "Apply Call Ceiling",
                            "Prepare Model Prompt"}
           => \A i \in Items : <<p, i>> \notin calls
    PROVE  \A q \in Passes : InOrder(q)'
  <1>1. \A q \in Passes : pass[q].staged \subseteq Items
    BY DEF Types, Held
  <1>2. InOrder(p)'
    BY DEF InOrder
  <1> QED
    BY <1>1, <1>2, OthersInOrder

LEMMA ExtractInOrder ==
    ASSUME SpendingInv, NEW p \in Passes, NEW i \in Items, ExtractFindingFields(p, i)
    PROVE  \A q \in Passes : InOrder(q)'
  <1>1. /\ OthersKept(p)
        /\ pass'[p].at = IF Of(p, calls \cup {<<p, i>>}) = pass[p].staged
                         THEN "Ledger Model Call" ELSE "Extract Finding Fields"
        /\ pass'[p].staged = pass[p].staged
        /\ pass'[p].filed = pass[p].filed
    BY ExtractFindingFieldsShape DEF SpendingInv
  <1>2. /\ calls' = calls \cup {<<p, i>>}
        /\ UNCHANGED ledger /\ UNCHANGED findings
        /\ i \in pass[p].staged
    BY DEF ExtractFindingFields
  <1>3. \A q \in Passes : pass[q].staged \subseteq Items
    BY DEF SpendingInv, Types, Held
  <1>4. pass'[p].at = "Ledger Model Call" => \A j \in pass[p].staged : <<p, j>> \in calls'
    BY <1>1, <1>2, <1>3 DEF Of
  <1>5. InOrder(p)
    BY DEF SpendingInv
  <1>6. \A q \in Passes, j \in Items : <<q, j>> \in calls' <=> <<q, j>> \in calls \/ (q = p /\ j = i)
    BY <1>2
  <1>7. InOrder(p)'
    BY ZenonT(40), <1>1, <1>2, <1>4, <1>5, <1>6 DEF InOrder
  <1> QED
    BY <1>1, <1>2, <1>3, <1>6, <1>7, OthersInOrder DEF SpendingInv

LEMMA LedgerInOrder ==
    ASSUME SpendingInv, NEW p \in Passes, NEW i \in Items, LedgerModelCall(p, i)
    PROVE  \A q \in Passes : InOrder(q)'
  <1>1. /\ OthersKept(p)
        /\ pass'[p].at = IF Of(p, ledger \cup {<<p, i>>}) = pass[p].staged
                         THEN "Write Findings" ELSE "Ledger Model Call"
        /\ pass'[p].staged = pass[p].staged
        /\ pass'[p].filed = pass[p].filed
    BY LedgerModelCallShape DEF SpendingInv
  <1>2. /\ ledger' = ledger \cup {<<p, i>>}
        /\ UNCHANGED calls /\ UNCHANGED findings
        /\ i \in pass[p].staged /\ pass[p].at = "Ledger Model Call"
    BY DEF LedgerModelCall
  <1>3. \A q \in Passes : pass[q].staged \subseteq Items
    BY DEF SpendingInv, Types, Held
  <1>4. pass'[p].at = "Write Findings" => \A j \in pass[p].staged : <<p, j>> \in ledger'
    BY <1>1, <1>2, <1>3 DEF Of
  <1>5. InOrder(p)
    BY DEF SpendingInv
  <1>6. \A q \in Passes, j \in Items : <<q, j>> \in ledger' <=> <<q, j>> \in ledger \/ (q = p /\ j = i)
    BY <1>2
  <1>7. InOrder(p)'
    BY <1>1, <1>2, <1>4, <1>5, <1>6 DEF InOrder
  <1> QED
    BY <1>1, <1>2, <1>3, <1>6, <1>7, OthersInOrder DEF SpendingInv

LEMMA FindingInOrder ==
    ASSUME SpendingInv, NEW p \in Passes, NEW i \in Items, WriteFinding(p, i)
    PROVE  \A q \in Passes : InOrder(q)'
  <1>1. /\ OthersKept(p)
        /\ pass'[p].at \in {"Write Findings", "Close Run"}
        /\ pass'[p].staged = pass[p].staged
        /\ pass'[p].filed = pass[p].filed \cup {i}
    BY WriteFindingShape DEF SpendingInv
  <1>2. /\ findings' \in {findings, findings \cup {<<p, i>>}}
        /\ UNCHANGED calls /\ UNCHANGED ledger
        /\ i \in pass[p].staged /\ pass[p].at = "Write Findings"
    BY DEF WriteFinding
  <1>3. \A q \in Passes : pass[q].staged \subseteq Items
    BY DEF SpendingInv, Types, Held
  <1>4. InOrder(p)
    BY DEF SpendingInv
  <1>a. findings' = findings \/ findings' = findings \cup {<<p, i>>}
    BY <1>2
  <1>5. \A q \in Passes, j \in Items :
            <<q, j>> \in findings' => <<q, j>> \in findings \/ (q = p /\ j = i)
    BY <1>a
  <1>6. \A q \in Passes, j \in Items : <<q, j>> \in findings => <<q, j>> \in findings'
    BY <1>a
  <1>7. InOrder(p)'
    BY <1>1, <1>2, <1>4, <1>5 DEF InOrder
  <1> QED
    BY <1>1, <1>2, <1>3, <1>5, <1>6, <1>7, OthersInOrder DEF SpendingInv

LEMMA NextInOrder == SpendingInv /\ [Next]_vars => \A q \in Passes : InOrder(q)'
  <1> SUFFICES ASSUME SpendingInv, [Next]_vars PROVE \A q \in Passes : InOrder(q)'
    OBVIOUS
  <1> USE DEF SpendingInv
  <1>1. CASE UNCHANGED vars
    BY <1>1 DEF InOrder, vars
  <1>2. CASE Next
    <2>1. PICK p \in Passes : PassStep(p) \/ PassStops(p)
      BY <1>2 DEF Next
    <2>2. InOrder(p)
      OBVIOUS
    <2>3. CASE SelectActiveSources(p)
      BY <2>2, <2>3, SelectActiveSourcesShape, QuietInOrder DEF SelectActiveSources, InOrder
    <2>4. CASE FetchSourcePayload(p)
      BY <2>2, <2>4, FetchSourcePayloadShape, QuietInOrder DEF FetchSourcePayload, InOrder
    <2>5. CASE \E r \in Sources \X Items : WriteDocument(p, r)
      BY <2>2, <2>5, WriteDocumentShape, QuietInOrder DEF WriteDocument, InOrder
    <2>6. CASE \E s \in Sources : ApplySourceHealth(p, s)
      BY <2>2, <2>6, ApplySourceHealthShape, QuietInOrder DEF ApplySourceHealth, InOrder
    <2>7. CASE SelectRecentCorpus(p)
      BY <2>2, <2>7, SelectRecentCorpusShape, QuietInOrder DEF SelectRecentCorpus, InOrder
    <2>8. CASE ApplyCallCeiling(p)
      BY <2>2, <2>8, ApplyCallCeilingShape, QuietInOrder DEF ApplyCallCeiling, InOrder
    <2>a. CASE PrepareModelPrompt(p)
      BY <2>2, <2>a, PrepareModelPromptShape, QuietInOrder DEF PrepareModelPrompt, InOrder
    <2>9. CASE \E i \in Items : ExtractFindingFields(p, i)
      BY <2>9, ExtractInOrder
    <2>10. CASE \E i \in Items : LedgerModelCall(p, i)
      BY <2>10, LedgerInOrder
    <2>11. CASE \E i \in Items : WriteFinding(p, i)
      BY <2>11, FindingInOrder
    <2>12. CASE CloseRun(p) \/ PassStops(p)
      BY <2>2, <2>12, EndShape, QuietInOrder DEF InOrder
    <2> QED
      BY <2>1, <2>3, <2>4, <2>5, <2>6, <2>7, <2>8, <2>a, <2>9, <2>10, <2>11, <2>12 DEF PassStep
  <1> QED
    BY <1>1, <1>2

LEMMA SpendingHolds == Spec => []SpendingInv
  <1>1. Init => SpendingInv
    BY InitTypes, InitOwned, InitInOrder DEF SpendingInv
  <1>2. SpendingInv /\ [Next]_vars => SpendingInv'
    BY NextTypes, NextOwned, NextInOrder DEF SpendingInv
  <1> QED
    BY <1>1, <1>2, PTL DEF Spec

\* However many passes meet the same material and wherever they die, no item is
\* put to a model twice (Write Documents and Extract Finding Fields).
THEOREM AskedAboutOnce == Spec => []DocumentIsAskedAboutOnce
  <1>1. SpendingInv => DocumentIsAskedAboutOnce
    <2> SUFFICES ASSUME SpendingInv, NEW c \in calls, NEW d \in calls, c[2] = d[2]
                 PROVE  c = d
      BY DEF DocumentIsAskedAboutOnce
    <2> USE DEF SpendingInv
    <2>a. c \in Passes \X Items /\ d \in Passes \X Items
      BY DEF Types
    <2>1. PICK p \in Passes, i \in Items : c = <<p, i>>
      BY <2>a
    <2>2. PICK q \in Passes, j \in Items : d = <<q, j>>
      BY <2>a
    <2>3. i = j
      BY <2>1, <2>2
    <2>4. i \in pass[p].staged /\ i \in pass[q].staged
      BY <2>1, <2>2, <2>3 DEF InOrder
    <2>5. p = q
      BY <2>4 DEF Owned
    <2> QED
      BY <2>1, <2>2, <2>3, <2>5
  <1> QED
    BY <1>1, SpendingHolds, PTL
-----------------------------------------------------------------------------
(* Ingest implements AskOnce.                                              *)

Named(made) == {i \in Items : \E p \in Passes : <<p, i>> \in made}

LEMMA NamedGrows ==
    ASSUME NEW made, NEW p \in Passes, NEW i \in Items
    PROVE  Named(made \cup {<<p, i>>}) = Named(made) \cup {i}
  <1>1. \A q \in Passes, j \in Items :
            <<q, j>> \in made \cup {<<p, i>>} <=> <<q, j>> \in made \/ (q = p /\ j = i)
    OBVIOUS
  <1> QED
    BY <1>1 DEF Named

LEMMA InitSpending == Init => Spending!Init
  <1> SUFFICES ASSUME Init PROVE Spending!Init
    OBVIOUS
  <1>1. Corpus = {}
    BY NothingSeen DEF Init, Corpus
  <1> QED
    BY <1>1 DEF Init, Spending!Init

LEMMA QuietSpending ==
    ASSUME UNCHANGED documents, UNCHANGED calls, UNCHANGED ledger, UNCHANGED findings
    PROVE  UNCHANGED Spending!vars
  BY DEF Spending!vars, Corpus

LEMMA WriteIsStore ==
    ASSUME Types, NEW p \in Passes, NEW r \in Sources \X Items, WriteDocument(p, r)
    PROVE  Spending!Next
  <1>1. Corpus' = Corpus \cup {r[2]} /\ r[2] \in Items
    BY CorpusGrows DEF Types
  <1>2. Spending!Store(r[2])
    BY <1>1 DEF Spending!Store, WriteDocument
  <1> QED
    BY <1>1, <1>2 DEF Spending!Next

LEMMA ExtractIsAsk ==
    ASSUME SpendingInv, NEW p \in Passes, NEW i \in Items, ExtractFindingFields(p, i)
    PROVE  Spending!Next
  <1> USE DEF SpendingInv
  <1>1. /\ i \in pass[p].staged /\ <<p, i>> \notin calls /\ calls' = calls \cup {<<p, i>>}
        /\ UNCHANGED documents /\ UNCHANGED ledger /\ UNCHANGED findings
    BY DEF ExtractFindingFields
  <1>2. i \in Corpus
    BY <1>1 DEF Owned
  <1>3. i \notin Named(calls)
    <2>1. SUFFICES ASSUME NEW q \in Passes, <<q, i>> \in calls PROVE FALSE
      BY DEF Named
    <2>2. i \in pass[q].staged
      BY <2>1 DEF InOrder
    <2>3. q = p
      BY <1>1, <2>2 DEF Owned
    <2> QED
      BY <1>1, <2>1, <2>3
  <1>4. Named(calls') = Named(calls) \cup {i}
    BY <1>1, NamedGrows
  <1>5. Corpus' = Corpus
    BY <1>1 DEF Corpus
  <1>6. Spending!Ask(i)
    BY <1>1, <1>2, <1>3, <1>4, <1>5 DEF Spending!Ask, Named
  <1> QED
    BY <1>6 DEF Spending!Next

LEMMA LedgerIsLedger ==
    ASSUME SpendingInv, NEW p \in Passes, NEW i \in Items, LedgerModelCall(p, i)
    PROVE  Spending!Next
  <1> USE DEF SpendingInv
  <1>1. /\ i \in pass[p].staged /\ <<p, i>> \notin ledger /\ ledger' = ledger \cup {<<p, i>>}
        /\ UNCHANGED documents /\ UNCHANGED calls /\ UNCHANGED findings
        /\ pass[p].at = "Ledger Model Call"
    BY DEF LedgerModelCall
  <1>2. i \in Named(calls)
    BY <1>1 DEF InOrder, Named
  <1>3. i \notin Named(ledger)
    <2>1. SUFFICES ASSUME NEW q \in Passes, <<q, i>> \in ledger PROVE FALSE
      BY DEF Named
    <2>2. i \in pass[q].staged
      BY <2>1 DEF InOrder
    <2>3. q = p
      BY <1>1, <2>2 DEF Owned
    <2> QED
      BY <1>1, <2>1, <2>3
  <1>4. Named(ledger') = Named(ledger) \cup {i}
    BY <1>1, NamedGrows
  <1>5. Corpus' = Corpus
    BY <1>1 DEF Corpus
  <1>6. Spending!Ledger(i)
    BY <1>1, <1>2, <1>3, <1>4, <1>5 DEF Spending!Ledger, Named
  <1> QED
    BY <1>6 DEF Spending!Next

LEMMA FindingIsFind ==
    ASSUME SpendingInv, NEW p \in Passes, NEW i \in Items, WriteFinding(p, i)
    PROVE  [Spending!Next]_(Spending!vars)
  <1> USE DEF SpendingInv
  <1>1. /\ i \in pass[p].staged \ pass[p].filed
        /\ findings' = findings \/ findings' = findings \cup {<<p, i>>}
        /\ UNCHANGED documents /\ UNCHANGED calls /\ UNCHANGED ledger
        /\ pass[p].at = "Write Findings"
    BY DEF WriteFinding
  <1>2. CASE findings' = findings
    BY <1>1, <1>2, QuietSpending
  <1>3. CASE findings' = findings \cup {<<p, i>>}
    <2>1. i \in Named(ledger)
      BY <1>1 DEF InOrder, Named
    <2>2. i \notin Named(findings)
      <3>1. SUFFICES ASSUME NEW q \in Passes, <<q, i>> \in findings PROVE FALSE
        BY DEF Named
      <3>2. i \in pass[q].staged /\ i \in pass[q].filed
        BY <3>1 DEF InOrder
      <3>3. q = p
        BY <1>1, <3>2 DEF Owned
      <3> QED
        BY <1>1, <3>2, <3>3
    <2>3. Named(findings') = Named(findings) \cup {i}
      BY <1>3, NamedGrows
    <2>4. Corpus' = Corpus
      BY <1>1 DEF Corpus
    <2>5. Spending!Find(i)
      BY <1>1, <2>1, <2>2, <2>3, <2>4 DEF Spending!Find, Named
    <2> QED
      BY <2>5 DEF Spending!Next
  <1> QED
    BY <1>1, <1>2, <1>3

LEMMA NextSpending == SpendingInv /\ [Next]_vars => [Spending!Next]_(Spending!vars)
  <1> SUFFICES ASSUME SpendingInv, [Next]_vars PROVE [Spending!Next]_(Spending!vars)
    OBVIOUS
  <1>1. CASE UNCHANGED vars
    BY <1>1, QuietSpending DEF vars
  <1>2. CASE Next
    <2>1. PICK p \in Passes : PassStep(p) \/ PassStops(p)
      BY <1>2 DEF Next
    <2>2. CASE \/ SelectActiveSources(p) \/ FetchSourcePayload(p)
               \/ \E s \in Sources : ApplySourceHealth(p, s)
               \/ SelectRecentCorpus(p) \/ ApplyCallCeiling(p) \/ PrepareModelPrompt(p)
               \/ CloseRun(p) \/ PassStops(p)
      BY <2>2, QuietSpending
         DEF SelectActiveSources, FetchSourcePayload, ApplySourceHealth, SelectRecentCorpus,
             ApplyCallCeiling, PrepareModelPrompt, CloseRun, PassStops
    <2>3. CASE \E r \in Sources \X Items : WriteDocument(p, r)
      BY <2>3, WriteIsStore DEF SpendingInv
    <2>4. CASE \E i \in Items : ExtractFindingFields(p, i)
      BY <2>4, ExtractIsAsk
    <2>5. CASE \E i \in Items : LedgerModelCall(p, i)
      BY <2>5, LedgerIsLedger
    <2>6. CASE \E i \in Items : WriteFinding(p, i)
      BY <2>6, FindingIsFind
    <2> QED
      BY <2>1, <2>2, <2>3, <2>4, <2>5, <2>6 DEF PassStep
  <1> QED
    BY <1>1, <1>2

\* The pass implements what the corpus promises about spending: an item is asked
\* about after it was stored, charged after it was asked about and found after it
\* was charged, each once, whichever passes do it.
THEOREM SpendsAsPromised == Spec => AskOnceSpec
  BY InitSpending, NextSpending, SpendingHolds, PTL DEF Spec, AskOnceSpec, Spending!Spec
-----------------------------------------------------------------------------
(* Near duplicates.                                                        *)

\* What is staged was compared with every earlier near duplicate in the window.
Compared ==
    \A p \in Passes : \A i \in pass[p].staged : \A k \in DOMAIN documents :
        k < IdOf(i) /\ <<documents[k], i>> \in Near => k + Window <= Len(documents)

LEMMA LengthOf ==
    ASSUME documents \in Seq(Items)
    PROVE  DOMAIN documents = 1..Len(documents) /\ Len(documents) \in Nat
  OBVIOUS

LEMMA IdOfIsItsPlace ==
    ASSUME Owned, NEW k \in DOMAIN documents
    PROVE  IdOf(documents[k]) = k
  BY DEF Owned, IdOf

LEMMA NextCompared == SpendingInv /\ Compared /\ [Next]_vars => Compared'
  <1> SUFFICES ASSUME SpendingInv, Compared, [Next]_vars,
                      NEW p \in Passes, NEW i \in pass'[p].staged,
                      NEW k \in DOMAIN documents',
                      k < (IdOf(i))', <<documents'[k], i>> \in Near
               PROVE  k + Window <= Len(documents')
    BY DEF Compared
  <1> USE DEF SpendingInv
  <1>1. DOMAIN documents = 1..Len(documents) /\ Len(documents) \in Nat
    BY LengthOf DEF Types
  <1>2. CASE UNCHANGED vars
    BY <1>2 DEF Compared, IdOf, vars
  <1>3. ASSUME UNCHANGED documents, i \in pass[p].staged
        PROVE  k + Window <= Len(documents')
    BY <1>3 DEF Compared, IdOf
  <1>4. ASSUME NEW q \in Passes, OthersKept(q), pass'[q].staged \subseteq pass[q].staged
        PROVE  i \in pass[p].staged
    BY <1>4 DEF OthersKept
  <1>5. CASE Next
    <2>1. PICK q \in Passes : PassStep(q) \/ PassStops(q)
      BY <1>5 DEF Next
    <2>2. CASE SelectActiveSources(q)
      BY <1>3, <1>4, <2>2, SelectActiveSourcesShape DEF SelectActiveSources
    <2>3. CASE FetchSourcePayload(q)
      BY <1>3, <1>4, <2>3, FetchSourcePayloadShape DEF FetchSourcePayload
    <2>4. CASE \E r \in Sources \X Items : WriteDocument(q, r)
      <3>1. PICK r \in Sources \X Items : WriteDocument(q, r)
        BY <2>4
      <3>2. i \in pass[p].staged
        BY <1>4, <3>1, WriteDocumentShape
      <3>3. /\ Len(documents) <= Len(documents')
            /\ documents' \in Seq(Items)
            /\ \A m \in DOMAIN documents : m \in DOMAIN documents' /\ documents'[m] = documents[m]
            /\ \A m \in DOMAIN documents' : m \in DOMAIN documents \/ m = Len(documents) + 1
        <4>1. documents \in Seq(Items)
          BY DEF Types
        <4> QED
          BY <3>1, <4>1, CorpusGrows
      <3>4. i \in Corpus
        BY <3>2 DEF Owned
      <3>5. PICK m \in DOMAIN documents : documents[m] = i
        BY <3>4 DEF Corpus
      <3>6. IdOf(i) = m
        BY <3>5, IdOfIsItsPlace
      <3>7. Owned'
        BY <3>1, OwnedWrite
      <3>8. \A n \in DOMAIN documents' : documents'[n] = i => n = m
        BY <3>3, <3>5, <3>7 DEF Owned
      <3>9. (IdOf(i))' = m
        BY <3>3, <3>5, <3>8 DEF IdOf
      <3>10. k \in DOMAIN documents
        BY <1>1, <3>3, <3>9
      <3>11. k + Window <= Len(documents)
        BY <3>2, <3>3, <3>6, <3>9, <3>10 DEF Compared
      <3>12. Len(documents') \in Nat
        BY <3>3
      <3> QED
        BY <1>1, <3>3, <3>10, <3>11, <3>12
    <2>5. CASE \E s \in Sources : ApplySourceHealth(q, s)
      BY <1>3, <1>4, <2>5, ApplySourceHealthShape DEF ApplySourceHealth
    <2>6. CASE SelectRecentCorpus(q)
      <3>1. documents' = documents
        BY <2>6 DEF SelectRecentCorpus
      <3>2. CASE p # q
        <4>1. i \in pass[p].staged
          BY <2>6, <3>2, SelectRecentCorpusShape DEF OthersKept
        <4> QED
          BY <1>3, <3>1, <4>1
      <3>3. CASE p = q
        <4>1. ~ NearDuplicate(i)
          BY <2>6, <3>3, SelectRecentCorpusShape
        <4>2. k < IdOf(i) /\ k \in DOMAIN documents /\ <<documents[k], i>> \in Near
          BY <3>1 DEF IdOf
        <4>3. ~ (k > Len(documents) - Window)
          BY <4>1, <4>2 DEF NearDuplicate
        <4> QED
          BY <1>1, <3>1, <4>2, <4>3
      <3> QED
        BY <3>2, <3>3
    <2>7. CASE ApplyCallCeiling(q)
      BY <1>3, <1>4, <2>7, ApplyCallCeilingShape DEF ApplyCallCeiling
    <2>a. CASE PrepareModelPrompt(q)
      BY <1>3, <1>4, <2>a, PrepareModelPromptShape DEF PrepareModelPrompt
    <2>8. CASE \E j \in Items : ExtractFindingFields(q, j)
      BY <1>3, <1>4, <2>8, ExtractFindingFieldsShape DEF ExtractFindingFields
    <2>9. CASE \E j \in Items : LedgerModelCall(q, j)
      BY <1>3, <1>4, <2>9, LedgerModelCallShape DEF LedgerModelCall
    <2>10. CASE \E j \in Items : WriteFinding(q, j)
      BY <1>3, <1>4, <2>10, WriteFindingShape DEF WriteFinding
    <2>11. CASE CloseRun(q) \/ PassStops(q)
      BY <1>3, <1>4, <2>11, EndShape
    <2> QED
      BY <2>1, <2>2, <2>3, <2>4, <2>5, <2>6, <2>7, <2>a, <2>8, <2>9, <2>10, <2>11 DEF PassStep
  <1> QED
    BY <1>2, <1>5

\* Two near duplicates are both paid for only across the edge of the corpus the
\* later was compared with (Select Recent Corpus and Mark Near Duplicates).
THEOREM NearDuplicatesPaidForOnce == Spec => []NearDuplicatesAreAskedAboutOnce
  <1>1. Init => Compared
    BY NothingSeen DEF Init, Compared
  <1>2. Spec => []Compared
    BY <1>1, NextCompared, SpendingHolds, PTL DEF Spec
  <1>3. SpendingInv /\ Compared => NearDuplicatesAreAskedAboutOnce
    <2> SUFFICES ASSUME SpendingInv, Compared, NEW c \in calls, NEW d \in calls,
                        <<c[2], d[2]>> \in Near, IdOf(c[2]) < IdOf(d[2])
                 PROVE  Len(documents) >= IdOf(c[2]) + Window
      BY DEF NearDuplicatesAreAskedAboutOnce
    <2> USE DEF SpendingInv
    <2>1. c \in Passes \X Items /\ d \in Passes \X Items
      BY DEF Types
    <2>2. PICK p \in Passes, i \in Items : c = <<p, i>>
      BY <2>1
    <2>3. PICK q \in Passes, j \in Items : d = <<q, j>>
      BY <2>1
    <2>4. i \in pass[p].staged /\ j \in pass[q].staged
      BY <2>2, <2>3 DEF InOrder
    <2>5. i \in Corpus
      BY <2>4 DEF Owned
    <2>6. PICK k \in DOMAIN documents : documents[k] = i
      BY <2>5 DEF Corpus
    <2>7. IdOf(i) = k
      BY <2>6, IdOfIsItsPlace
    <2>8. <<documents[k], j>> \in Near /\ k < IdOf(j)
      BY <2>2, <2>3, <2>6, <2>7
    <2>9. k + Window <= Len(documents)
      BY <2>4, <2>8 DEF Compared
    <2>a. documents \in Seq(Items)
      BY DEF Types
    <2>b. DOMAIN documents = 1..Len(documents) /\ Len(documents) \in Nat
      BY <2>a, LengthOf
    <2>10. k \in Nat /\ Len(documents) \in Nat
      BY <2>b
    <2> QED
      BY <2>2, <2>7, <2>9, <2>10
  <1> QED
    BY <1>2, <1>3, SpendingHolds, PTL
-----------------------------------------------------------------------------
(* The health of a source.                                                 *)

\* Columns that as many failed passes account for as they tell of failures.
Accounted(columns, s) ==
    /\ columns.failures <= Cardinality(FailedUnder(s))
    /\ columns.flagged => Threshold <= Cardinality(FailedUnder(s))

Counted ==
    /\ \A s \in Sources : IsFiniteSet(FailedUnder(s)) /\ Accounted(sources[s], s)
    /\ \A p \in Passes : \A s \in DOMAIN pass[p].seen :
        s \notin pass[p].judged => Accounted(pass[p].seen[s], s)

LEMMA InitCounted == Init => Counted
  <1> SUFFICES ASSUME Init PROVE Counted
    OBVIOUS
  <1>1. \A p \in Passes : pass[p].judged = {} /\ DOMAIN pass[p].seen = {}
    BY FreshIsHeld, NothingSeen DEF Init
  <1>2. \A s \in Sources : FailedUnder(s) = {}
    BY <1>1 DEF FailedUnder
  <1>3. \A s \in Sources : IsFiniteSet(FailedUnder(s)) /\ Cardinality(FailedUnder(s)) = 0
    BY <1>2, FS_EmptySet
  <1>4. \A s \in Sources : sources[s].failures = 0 /\ ~ sources[s].flagged
    BY DEF Init, NeverFetched
  <1> QED
    BY <1>1, <1>3, <1>4 DEF Counted, Accounted

\* A step that judges no source, and reads none but as it is.
LEMMA CountedKept ==
    ASSUME Types, Counted, NEW p \in Passes, OthersKept(p), UNCHANGED sources,
           pass'[p].judged = pass[p].judged,
           pass'[p].reading = pass[p].reading \/ pass[p].judged = {},
           pass'[p].seen = pass[p].seen
           \/ \A s \in DOMAIN pass'[p].seen : s \in Sources /\ pass'[p].seen[s] = sources[s]
    PROVE  Counted'
  <1>1. \A s \in Sources : (FailedUnder(s))' = FailedUnder(s)
    BY DEF FailedUnder, Succeeded, OthersKept
  <1>2. \A s \in Sources : Accounted(sources[s], s)' /\ IsFiniteSet((FailedUnder(s))')
    BY <1>1 DEF Counted, Accounted
  <1>3. ASSUME NEW q \in Passes, NEW s \in DOMAIN pass'[q].seen, s \notin pass'[q].judged
        PROVE  Accounted(pass[q].seen[s], s)'
    <2>1. CASE q = p /\ pass'[p].seen # pass[p].seen
      BY <1>2, <1>3, <2>1 DEF Accounted
    <2>2. CASE q # p \/ pass'[p].seen = pass[p].seen
      <3>1. pass'[q].seen = pass[q].seen /\ s \notin pass[q].judged
        BY <1>3, <2>2 DEF OthersKept
      <3>2. pass[q].seen \in Columns
        BY DEF Types, Held
      <3>3. s \in Sources
        BY <3>1, <3>2, ColumnsOf
      <3> QED
        BY <1>1, <3>1, <3>3 DEF Counted, Accounted
    <2> QED
      BY <2>1, <2>2
  <1> QED
    BY <1>2, <1>3 DEF Counted

LEMMA CountedJudged ==
    ASSUME Types, Counted, NEW p \in Passes, NEW s \in Sources, ApplySourceHealth(p, s)
    PROVE  Counted'
  <1>1. /\ OthersKept(p) /\ ReadingKept(p)
        /\ pass'[p].judged = pass[p].judged \cup {s}
        /\ pass[p].seen[s] \in Health
        /\ sources'[s] = Judged(pass[p].seen[s], Succeeded(p, s))
        /\ \A t \in Sources \ {s} : sources'[t] = sources[t]
    BY ApplySourceHealthShape
  <1>2. s \in DOMAIN pass[p].seen /\ s \notin pass[p].judged
    BY DEF ApplySourceHealth
  <1>3. Accounted(pass[p].seen[s], s) /\ \A t \in Sources : IsFiniteSet(FailedUnder(t))
    BY <1>2 DEF Counted
  <1>4. \A t \in Sources : (FailedUnder(t))' =
            IF t = s /\ ~ Succeeded(p, s) THEN FailedUnder(t) \cup {p} ELSE FailedUnder(t)
    <2>1. \A q \in Passes, t \in Sources : (Succeeded(q, t))' <=> Succeeded(q, t)
      BY <1>1 DEF Succeeded, OthersKept, ReadingKept
    <2>2. \A q \in Passes, t \in Sources :
            t \in pass'[q].judged <=> t \in pass[q].judged \/ (q = p /\ t = s)
      BY <1>1 DEF OthersKept
    <2>3. \A q \in Passes, t \in Sources :
            q \in (FailedUnder(t))' <=>
                q \in FailedUnder(t) \/ (q = p /\ t = s /\ ~ Succeeded(p, s))
      BY <2>1, <2>2 DEF FailedUnder
    <2>4. \A t \in Sources : FailedUnder(t) \subseteq Passes /\ (FailedUnder(t))' \subseteq Passes
      BY DEF FailedUnder
    <2> HIDE DEF FailedUnder
    <2> QED
      BY <2>3, <2>4
  <1>5. p \notin FailedUnder(s)
    BY <1>2 DEF FailedUnder
  <1>6. \A t \in Sources : Cardinality(FailedUnder(t)) \in Nat
    BY <1>3, FS_CardinalityType
  <1>7. /\ IsFiniteSet(FailedUnder(s) \cup {p})
        /\ Cardinality(FailedUnder(s) \cup {p}) = Cardinality(FailedUnder(s)) + 1
    BY <1>3, <1>5, FS_AddElement
  <1>8. ASSUME NEW t \in Sources
        PROVE  /\ IsFiniteSet((FailedUnder(t))')
               /\ Cardinality(FailedUnder(t)) <= Cardinality((FailedUnder(t))')
    <2>1. CASE t = s /\ ~ Succeeded(p, s)
      <3>1. (FailedUnder(t))' = FailedUnder(s) \cup {p}
        BY <1>4, <2>1
      <3> QED
        BY <1>6, <1>7, <2>1, <3>1
    <2>2. CASE ~ (t = s /\ ~ Succeeded(p, s))
      <3>1. (FailedUnder(t))' = FailedUnder(t)
        BY <1>4, <2>2
      <3> QED
        BY <1>3, <1>6, <3>1
    <2> QED
      BY <2>1, <2>2
  <1>9. ~ Succeeded(p, s) =>
            Cardinality((FailedUnder(s))') = Cardinality(FailedUnder(s)) + 1
    BY <1>4, <1>7
  <1>10. Succeeded(p, s) \in BOOLEAN
    BY DEF Succeeded
  <1>11. /\ sources'[s] \in Health
         /\ sources'[s].failures = IF Succeeded(p, s) THEN 0 ELSE pass[p].seen[s].failures + 1
         /\ sources'[s].flagged <=> pass[p].seen[s].flagged \/ sources'[s].failures >= Threshold
    BY <1>1, <1>10, JudgedIsHealth
  <1>12. Cardinality((FailedUnder(s))') \in Nat
    BY <1>8, FS_CardinalityType
  <1>13. pass[p].seen[s].failures \in Nat
    BY <1>1 DEF Health
  <1>14. sources'[s].failures <= Cardinality((FailedUnder(s))')
    BY <1>3, <1>6, <1>9, <1>11, <1>12, <1>13 DEF Accounted
  <1>15. sources'[s].flagged => Threshold <= Cardinality((FailedUnder(s))')
    BY <1>3, <1>6, <1>8, <1>11, <1>12, <1>14 DEF Accounted, Health
  <1>16. ASSUME NEW t \in Sources, NEW h \in Health, Accounted(h, t)
         PROVE  Accounted(h, t)'
    <2>1. h.failures \in Nat /\ Cardinality(FailedUnder(t)) \in Nat
          /\ Cardinality((FailedUnder(t))') \in Nat
      BY <1>6, <1>8, FS_CardinalityType DEF Health
    <2>2. Cardinality(FailedUnder(t)) <= Cardinality((FailedUnder(t))')
      BY <1>8
    <2> QED
      BY <1>16, <2>1, <2>2 DEF Accounted
  <1>17. \A t \in Sources : Accounted(sources[t], t)'
    <2> SUFFICES ASSUME NEW t \in Sources PROVE Accounted(sources[t], t)'
      OBVIOUS
    <2>1. CASE t = s
      BY <1>14, <1>15, <2>1 DEF Accounted
    <2>2. CASE t # s
      <3>1. sources'[t] = sources[t] /\ sources[t] \in Health /\ Accounted(sources[t], t)
        BY <1>1, <2>2 DEF Types, Counted
      <3> QED
        BY <1>16, <3>1 DEF Accounted
    <2> QED
      BY <2>1, <2>2
  <1>18. ASSUME NEW q \in Passes, NEW t \in DOMAIN pass'[q].seen, t \notin pass'[q].judged
         PROVE  Accounted(pass[q].seen[t], t)'
    <2>1. pass'[q].seen = pass[q].seen /\ t \notin pass[q].judged
      BY <1>1, <1>18 DEF OthersKept, ReadingKept
    <2>2. pass[q].seen \in Columns
      BY DEF Types, Held
    <2>3. t \in Sources /\ pass[q].seen[t] \in Health
      BY <2>1, <2>2, ColumnsOf
    <2>4. Accounted(pass[q].seen[t], t)
      BY <2>1 DEF Counted
    <2> QED
      BY <1>16, <2>1, <2>3, <2>4 DEF Accounted
  <1> QED
    BY <1>8, <1>17, <1>18 DEF Counted

LEMMA NextCounted == Types /\ Counted /\ [Next]_vars => Counted'
  <1> SUFFICES ASSUME Types, Counted, [Next]_vars PROVE Counted'
    OBVIOUS
  <1>1. CASE UNCHANGED vars
    <2>1. sources' = sources /\ pass' = pass
      BY <1>1 DEF vars
    <2>2. \A s \in Sources : (FailedUnder(s))' = FailedUnder(s)
      BY <2>1 DEF FailedUnder, Succeeded
    <2>3. ASSUME NEW p \in Passes, NEW s \in DOMAIN pass[p].seen
          PROVE  s \in Sources
      <3>1. pass[p].seen \in Columns
        BY DEF Types, Held
      <3> QED
        BY <3>1, ColumnsOf
    <2> QED
      BY <2>1, <2>2, <2>3 DEF Counted, Accounted
  <1>2. CASE Next
    <2>1. PICK p \in Passes : PassStep(p) \/ PassStops(p)
      BY <1>2 DEF Next
    <2>2. CASE SelectActiveSources(p)
      <3>1. pass'[p].reading = pass[p].reading \/ pass[p].judged = {}
        BY <2>2, SelectActiveSourcesShape
      <3>2. Types'
        BY <2>2, SelectActiveSourcesShape
      <3>3. pass'[p].seen \in Columns
        BY <3>2 DEF Types, Held
      <3>4. \A s \in DOMAIN pass'[p].seen : s \in Sources /\ pass'[p].seen[s] = sources[s]
        BY <2>2, <3>3, ColumnsOf, SelectActiveSourcesShape
      <3>5. UNCHANGED sources
        BY <2>2 DEF SelectActiveSources
      <3> QED
        BY <2>2, <3>1, <3>4, <3>5, CountedKept, SelectActiveSourcesShape
    <2>3. CASE FetchSourcePayload(p)
      BY <2>3, FetchSourcePayloadShape, CountedKept DEF FetchSourcePayload
    <2>4. CASE \E r \in Sources \X Items : WriteDocument(p, r)
      BY <2>4, WriteDocumentShape, CountedKept DEF WriteDocument, ReadingKept
    <2>5. CASE \E s \in Sources : ApplySourceHealth(p, s)
      BY <2>5, CountedJudged
    <2>6. CASE SelectRecentCorpus(p)
      BY <2>6, SelectRecentCorpusShape, CountedKept DEF SelectRecentCorpus, ReadingKept
    <2>7. CASE ApplyCallCeiling(p)
      BY <2>7, ApplyCallCeilingShape, CountedKept DEF ApplyCallCeiling, ReadingKept
    <2>a. CASE PrepareModelPrompt(p)
      BY <2>a, PrepareModelPromptShape, CountedKept DEF PrepareModelPrompt, ReadingKept
    <2>8. CASE \E i \in Items : ExtractFindingFields(p, i)
      BY <2>8, ExtractFindingFieldsShape, CountedKept DEF ExtractFindingFields, ReadingKept
    <2>9. CASE \E i \in Items : LedgerModelCall(p, i)
      BY <2>9, LedgerModelCallShape, CountedKept DEF LedgerModelCall, ReadingKept
    <2>10. CASE \E i \in Items : WriteFinding(p, i)
      BY <2>10, WriteFindingShape, CountedKept DEF WriteFinding, ReadingKept
    <2>11. CASE CloseRun(p) \/ PassStops(p)
      BY <2>11, EndShape, CountedKept DEF ReadingKept
    <2> QED
      BY <2>1, <2>2, <2>3, <2>4, <2>5, <2>6, <2>7, <2>a, <2>8, <2>9, <2>10, <2>11 DEF PassStep
  <1> QED
    BY <1>1, <1>2

\* Counters written from stale readings never invent a failure, however many
\* passes there are and however they overlap (Judge and Apply Source Health).
THEOREM FailuresAccountForFlags == Spec => []FlagNeedsItsFailures
  <1>1. Spec => []Types
    BY InitTypes, NextTypes, PTL DEF Spec
  <1>2. Spec => []Counted
    BY <1>1, InitCounted, NextCounted, PTL DEF Spec
  <1>3. Counted => FlagNeedsItsFailures
    BY DEF Counted, Accounted, FlagNeedsItsFailures
  <1> QED
    BY <1>2, <1>3, PTL
-----------------------------------------------------------------------------
(* What a closed run leaves.                                               *)

Early == {"Select Active Sources", "Fetch Source Payload", "Write Documents",
          "Apply Source Health", "Select Recent Corpus", "Apply Call Ceiling",
          "Prepare Model Prompt"}
Late == {"Extract Finding Fields", "Ledger Model Call", "Write Findings", "Close Run", "closed"}

\* What the gate or the mark of a near duplicate leaves out.
Unfit(i) ==
    \/ Relevance[i] < GateThreshold
    \/ \E k \in DOMAIN documents : <<documents[k], i>> \in Near /\ k < IdOf(i)

\* Each node from the model on has finished the one before it.
WorkDone(p) ==
    /\ runs[p] # "running" => pass[p].at = "closed"
    /\ pass[p].at \in Late => pass[p].staged # {}
    /\ pass[p].at \in Late \ {"Extract Finding Fields"} => Of(p, calls) = pass[p].staged
    /\ pass[p].at \in {"Write Findings", "Close Run", "closed"} => Of(p, ledger) = pass[p].staged
    /\ pass[p].at \in Early \cup {"Extract Finding Fields", "Ledger Model Call"}
        => pass[p].filed = {}
    /\ pass[p].at \in {"Write Findings", "Close Run", "closed"}
        => Of(p, findings) = pass[p].filed \cap pass[p].answered
    /\ pass[p].at \in {"Close Run", "closed"} => pass[p].filed = pass[p].staged

\* What a filled ceiling cut off.
CutOff(p, i) == i \notin pass[p].capped /\ Cardinality(pass[p].capped) = Ceiling

\* Whatever the pass stored and does not mean to ask about has its reason.
LeftOut(p) ==
    /\ pass[p].at = "Apply Call Ceiling" =>
        \A i \in pass[p].inserted \ pass[p].staged : Unfit(i)
    /\ pass[p].at = "Prepare Model Prompt" =>
        /\ pass[p].staged = pass[p].capped
        /\ \A i \in pass[p].inserted \ pass[p].staged : Unfit(i) \/ CutOff(p, i)
    /\ pass[p].at \in Late =>
        \A i \in pass[p].inserted \ pass[p].staged :
            Unfit(i) \/ CutOff(p, i) \/ i \in pass[p].capped \ Readable

\* The ceiling takes as many as it may when it takes fewer than there are: each
\* item's rank among them is a number of its own.
LEMMA CeilingIsFilled ==
    ASSUME NEW S \in SUBSET Items, IsFiniteSet(S),
           \A i \in S : IdOf(i) \in Int,
           \A i, j \in S : IdOf(i) = IdOf(j) => i = j,
           NEW x \in S, x \notin WithinCeiling(S)
    PROVE  Cardinality(WithinCeiling(S)) = Ceiling
  <1> DEFINE prior(i) == {j \in S : Before(j, i)}
             n == Cardinality(S)
             rank == [i \in S |-> Cardinality(prior(i))]
             T == WithinCeiling(S)
  <1>1. /\ \A i \in S : ~ Before(i, i)
        /\ \A i, j \in S : i # j => Before(i, j) \/ Before(j, i)
        /\ \A i, j, k \in S : Before(i, j) /\ Before(j, k) => Before(i, k)
    <2>1. \A i \in S : Relevance[i] \in Int
      OBVIOUS
    <2> QED
      BY <2>1 DEF Before
  <1>2. n \in Nat
    BY FS_CardinalityType
  <1>3. ASSUME NEW i \in S
        PROVE  /\ IsFiniteSet(prior(i)) /\ rank[i] = Cardinality(prior(i))
               /\ rank[i] \in Nat /\ rank[i] < n
    <2>1. i \notin prior(i) /\ prior(i) \in SUBSET (S \ {i})
      BY <1>1
    <2>2. IsFiniteSet(S \ {i}) /\ Cardinality(S \ {i}) = n - 1
      BY FS_RemoveElement
    <2>3. IsFiniteSet(prior(i)) /\ Cardinality(prior(i)) <= n - 1
      BY <2>1, <2>2, FS_Subset
    <2>4. Cardinality(prior(i)) \in Nat
      BY <2>3, FS_CardinalityType
    <2> QED
      BY <1>2, <2>3, <2>4
  <1>4. ASSUME NEW i \in S, NEW j \in S, Before(i, j)
        PROVE  rank[i] < rank[j]
    <2>1. i \notin prior(i) /\ prior(i) \cup {i} \in SUBSET prior(j)
      BY <1>1, <1>4
    <2>2. Cardinality(prior(i) \cup {i}) = rank[i] + 1
      BY <1>3, <2>1, FS_AddElement
    <2>3. Cardinality(prior(i) \cup {i}) <= rank[j]
      BY <1>3, <2>1, FS_Subset
    <2>4. rank[i] \in Nat /\ rank[j] \in Nat
      BY <1>3
    <2> HIDE DEF rank
    <2> QED
      BY <2>2, <2>3, <2>4
  <1> HIDE DEF prior
  <1>5. \A i, j \in S : rank[i] = rank[j] => i = j
    BY <1>1, <1>3, <1>4
  <1> HIDE DEF rank
  <1>6. rank \in Surjection(S, 0..(n - 1))
    <2>1. rank \in [S -> 0..(n - 1)]
      <3>1. \A i \in S : rank[i] \in 0..(n - 1)
        BY <1>2, <1>3
      <3> QED
        BY <3>1 DEF rank
    <2>2. rank \in Injection(S, 0..(n - 1))
      BY <1>5, <2>1 DEF Injection, IsInjective
    <2>3. x \in S /\ n # 0
      BY FS_EmptySet
    <2>4. IsFiniteSet(0..(n - 1)) /\ Cardinality(0..(n - 1)) = n
      <3>1. 0 \in Int /\ n - 1 \in Int
        BY <1>2
      <3>2. /\ IsFiniteSet(0..(n - 1))
            /\ Cardinality(0..(n - 1)) = IF 0 > n - 1 THEN 0 ELSE (n - 1) - 0 + 1
        BY <3>1, FS_Interval
      <3> QED
        BY <1>2, <2>3, <3>2
    <2> QED
      BY <2>2, <2>4, FS_Injection
  <1>7. T = {i \in S : rank[i] < Ceiling}
    <2>1. \A i \in S : rank[i] = Cardinality({j \in S : Before(j, i)})
      BY <1>3 DEF prior
    <2> QED
      BY <2>1 DEF WithinCeiling
  <1> HIDE DEF T
  <1>8. Ceiling <= rank[x] /\ rank[x] \in Nat /\ rank[x] < n
    BY <1>3, <1>7 DEF T
  <1> DEFINE g == [i \in T |-> rank[i]]
             range == 0..(Ceiling - 1)
  <1>9. g \in Injection(T, range)
    <2>1. \A i \in T : i \in S /\ rank[i] \in range
      BY <1>3, <1>7
    <2> QED
      BY <1>5, <2>1 DEF Injection, IsInjective
  <1>10. g \in Surjection(T, range)
    <2>1. ASSUME NEW m \in range PROVE \E i \in T : g[i] = m
      <3>1. m \in 0..(n - 1)
        BY <1>2, <1>8
      <3>2. PICK i \in S : rank[i] = m
        BY <1>6, <3>1 DEF Surjection
      <3> QED
        BY <1>7, <3>2
    <2>2. g \in [T -> range]
      BY <1>9 DEF Injection
    <2> QED
      BY <2>1, <2>2 DEF Surjection
  <1>11. IsFiniteSet(range) /\ Cardinality(range) = Ceiling
    <2>1. 0 \in Int /\ Ceiling - 1 \in Int
      OBVIOUS
    <2>2. /\ IsFiniteSet(range)
          /\ Cardinality(range) = IF 0 > Ceiling - 1 THEN 0 ELSE (Ceiling - 1) - 0 + 1
      BY <2>1, FS_Interval
    <2> QED
      BY <2>2
  <1> HIDE DEF g, range
  <1>12. Cardinality(T) = Cardinality(range)
    BY <1>9, <1>10, <1>11, FS_Injection
  <1> QED
    BY <1>11, <1>12 DEF T

\* Every item a pass inserted has its place.
LEMMA PlaceOf ==
    ASSUME SpendingInv, NEW i \in Corpus
    PROVE  IdOf(i) \in DOMAIN documents /\ documents[IdOf(i)] = i
  BY IdOfIsItsPlace DEF SpendingInv, Corpus

LEMMA StagedIsCounted ==
    ASSUME SpendingInv, NEW p \in Passes
    PROVE  /\ IsFiniteSet(pass[p].staged)
           /\ \A i \in pass[p].staged : IdOf(i) \in Int
           /\ \A i, j \in pass[p].staged : IdOf(i) = IdOf(j) => i = j
  <1> DEFINE f == [i \in pass[p].staged |-> IdOf(i)]
  <1>1. \A i \in pass[p].staged : IdOf(i) \in DOMAIN documents /\ documents[IdOf(i)] = i
    BY PlaceOf DEF SpendingInv, Owned
  <1>2. \A i, j \in pass[p].staged : IdOf(i) = IdOf(j) => i = j
    BY <1>1
  <1>3. DOMAIN documents = 1..Len(documents) /\ Len(documents) \in Nat
    BY LengthOf DEF SpendingInv, Types
  <1>4. f \in Injection(pass[p].staged, 1..Len(documents))
    BY <1>1, <1>2, <1>3 DEF Injection, IsInjective
  <1>5. IsFiniteSet(1..Len(documents))
    BY <1>3, FS_Interval
  <1>6. IsFiniteSet(pass[p].staged)
    BY <1>4, <1>5, FS_Injection
  <1> QED
    BY <1>1, <1>2, <1>3, <1>6

\* A reason to leave an item out stands: documents keep their places.
LEMMA UnfitStays ==
    ASSUME SpendingInv, NEW i \in Corpus, Unfit(i),
           \/ UNCHANGED documents
           \/ \E p \in Passes, r \in Sources \X Items : WriteDocument(p, r)
    PROVE  Unfit(i)'
  <1>1. CASE UNCHANGED documents
    BY <1>1 DEF Unfit, IdOf
  <1>2. ASSUME NEW p \in Passes, NEW r \in Sources \X Items, WriteDocument(p, r)
        PROVE  Unfit(i)'
    <2>1. \A k \in DOMAIN documents : k \in DOMAIN documents' /\ documents'[k] = documents[k]
      BY <1>2, CorpusGrows DEF SpendingInv, Types
    <2>2. Owned'
      BY <1>2, OwnedWrite DEF SpendingInv
    <2>3. IdOf(i) \in DOMAIN documents /\ documents[IdOf(i)] = i
      BY PlaceOf
    <2>4. \A k \in DOMAIN documents' : documents'[k] = i => k = IdOf(i)
      BY <2>1, <2>2, <2>3 DEF Owned
    <2>5. IdOf(i)' = IdOf(i)
      BY <2>1, <2>3, <2>4 DEF IdOf
    <2> QED
      BY <2>1, <2>5 DEF Unfit
  <1> QED
    BY <1>1, <1>2

Finished == \A p \in Passes : WorkDone(p) /\ LeftOut(p)

CloseInv == SpendingInv /\ Finished

LEMMA InitClose == Init => Finished
  <1> SUFFICES ASSUME Init, NEW p \in Passes PROVE WorkDone(p) /\ LeftOut(p)
    BY DEF Finished
  <1>1. pass[p] = Fresh /\ runs[p] = "running"
    BY DEF Init
  <1>2. pass[p].at = "Select Active Sources" /\ pass[p].filed = {}
    BY <1>1, FreshIsHeld
  <1> QED
    BY <1>1, <1>2 DEF WorkDone, LeftOut, Early, Late

\* The other passes do not see what one writes under its own name.
LEMMA OthersClose ==
    ASSUME CloseInv, NEW p \in Passes, OthersKept(p), NEW q \in Passes \ {p},
           runs'[q] = runs[q],
           \A i \in Items :
              /\ <<q, i>> \in calls' <=> <<q, i>> \in calls
              /\ <<q, i>> \in ledger' <=> <<q, i>> \in ledger
              /\ <<q, i>> \in findings' <=> <<q, i>> \in findings,
           \A i \in Corpus : Unfit(i) => Unfit(i)'
    PROVE  (WorkDone(q) /\ LeftOut(q))'
  <1>1. pass'[q] = pass[q] /\ WorkDone(q) /\ LeftOut(q)
    BY DEF OthersKept, CloseInv, Finished
  <1>2. /\ Of(q, calls)' = Of(q, calls) /\ Of(q, ledger)' = Of(q, ledger)
        /\ Of(q, findings)' = Of(q, findings)
    BY DEF Of
  <1>3. pass[q].inserted \subseteq Corpus
    BY DEF CloseInv, SpendingInv, Owned
  <1>4. WorkDone(q)'
    BY <1>1, <1>2 DEF WorkDone
  <1>5. LeftOut(q)'
    BY <1>1, <1>3 DEF LeftOut, CutOff
  <1> QED
    BY <1>4, <1>5

\* The nodes ahead of the ceiling file nothing and close nothing.
LEMMA EarlyClose ==
    ASSUME CloseInv, NEW p \in Passes, runs'[p] = runs[p], pass[p].at \in Early,
           pass'[p].filed = pass[p].filed,
           pass'[p].at \in (Early \ {"Apply Call Ceiling", "Prepare Model Prompt"}) \cup {"dry"}
    PROVE  (WorkDone(p) /\ LeftOut(p))'
  <1>1. WorkDone(p)
    BY DEF CloseInv, Finished
  <1>2. pass'[p].at \notin Late
    BY DEF Early, Late
  <1>3. pass[p].at # "closed"
    BY DEF Early
  <1> QED
    BY <1>1, <1>2, <1>3 DEF WorkDone, LeftOut, Early, Late

LEMMA RecentCorpusClose ==
    ASSUME CloseInv, NEW p \in Passes, SelectRecentCorpus(p)
    PROVE  (WorkDone(p) /\ LeftOut(p))'
  <1> DEFINE staged == {i \in pass[p].inserted :
                         ~ NearDuplicate(i) /\ Relevance[i] >= GateThreshold}
  <1>1. pass[p] \in Held /\ pass \in [Passes -> Held] /\ pass[p].at = "Select Recent Corpus"
    BY DEF CloseInv, SpendingInv, Types, SelectRecentCorpus
  <1>2. /\ pass'[p].staged = staged /\ pass'[p].inserted = pass[p].inserted
        /\ pass'[p].filed = pass[p].filed
        /\ pass'[p].at \in {"dry", "Apply Call Ceiling"}
    BY <1>1 DEF SelectRecentCorpus, Only, Held
  <1>3. UNCHANGED <<runs, documents>>
    BY DEF SelectRecentCorpus
  <1>4. WorkDone(p)
    BY DEF CloseInv, Finished
  <1>5. WorkDone(p)'
    BY <1>1, <1>2, <1>3, <1>4 DEF WorkDone, Early, Late
  <1>6. ASSUME NEW i \in pass[p].inserted \ staged PROVE Unfit(i)'
    <2>1. i \in Items
      BY <1>1 DEF Held
    <2>2. Relevance[i] \in Int /\ GateThreshold \in Int
      BY <2>1
    <2>3. NearDuplicate(i) \/ Relevance[i] < GateThreshold
      BY <2>2, <1>6
    <2>4. Unfit(i)
      BY <2>3 DEF NearDuplicate, Unfit
    <2> QED
      BY <1>3, <2>4 DEF Unfit, IdOf
  <1> HIDE DEF staged
  <1>7. LeftOut(p)'
    BY <1>2, <1>6 DEF LeftOut, Late
  <1> QED
    BY <1>5, <1>7

LEMMA CeilingClose ==
    ASSUME CloseInv, NEW p \in Passes, ApplyCallCeiling(p)
    PROVE  (WorkDone(p) /\ LeftOut(p))'
  <1> DEFINE staged == WithinCeiling(pass[p].staged)
  <1>1. pass[p] \in Held /\ pass \in [Passes -> Held] /\ pass[p].at = "Apply Call Ceiling"
    BY DEF CloseInv, SpendingInv, Types, ApplyCallCeiling
  <1>2. /\ pass'[p].staged = staged /\ pass'[p].inserted = pass[p].inserted
        /\ pass'[p].filed = pass[p].filed /\ pass'[p].capped = staged
        /\ pass'[p].at = IF staged = {} THEN "dry" ELSE "Prepare Model Prompt"
    BY <1>1 DEF ApplyCallCeiling, Only, Held
  <1>3. UNCHANGED <<runs, documents>>
    BY DEF ApplyCallCeiling
  <1>4. WorkDone(p) /\ LeftOut(p)
    BY DEF CloseInv, Finished
  <1>5. pass[p].staged \in SUBSET Items
    BY <1>1 DEF Held
  <1>6. ASSUME NEW i \in pass[p].inserted \ staged
        PROVE  Unfit(i)' \/ Cardinality(staged) = Ceiling
    <2>1. CASE i \in pass[p].staged
      BY <1>5, <1>6, <2>1, StagedIsCounted, CeilingIsFilled DEF CloseInv
    <2>2. CASE i \notin pass[p].staged
      <3>1. Unfit(i)
        BY <1>1, <1>4, <1>6, <2>2 DEF LeftOut, Late
      <3> QED
        BY <1>3, <3>1 DEF Unfit, IdOf
    <2> QED
      BY <2>1, <2>2
  <1> HIDE DEF staged
  <1>7. WorkDone(p)'
    BY <1>1, <1>2, <1>3, <1>4 DEF WorkDone, Early, Late
  <1>8. LeftOut(p)'
    BY <1>2, <1>6 DEF LeftOut, CutOff, Late
  <1> QED
    BY <1>7, <1>8

LEMMA PromptClose ==
    ASSUME CloseInv, NEW p \in Passes, PrepareModelPrompt(p)
    PROVE  (WorkDone(p) /\ LeftOut(p))'
  <1> DEFINE staged == pass[p].staged \cap Readable
  <1>1. pass[p] \in Held /\ pass \in [Passes -> Held] /\ pass[p].at = "Prepare Model Prompt"
    BY DEF CloseInv, SpendingInv, Types, PrepareModelPrompt
  <1>2. /\ pass'[p].staged = staged /\ pass'[p].inserted = pass[p].inserted
        /\ pass'[p].filed = pass[p].filed /\ pass'[p].capped = pass[p].capped
        /\ pass'[p].at = IF staged = {} THEN "dry" ELSE "Extract Finding Fields"
    BY <1>1 DEF PrepareModelPrompt, Only, Held
  <1>3. UNCHANGED <<runs, documents>>
    BY DEF PrepareModelPrompt
  <1>4. WorkDone(p) /\ LeftOut(p)
    BY DEF CloseInv, Finished
  <1>5. /\ pass[p].staged = pass[p].capped
        /\ \A i \in pass[p].inserted \ pass[p].staged : Unfit(i) \/ CutOff(p, i)
    BY <1>1, <1>4 DEF LeftOut
  <1>6. ASSUME NEW i \in pass[p].inserted \ staged
        PROVE  Unfit(i)' \/ CutOff(p, i)' \/ i \in pass[p].capped \ Readable
    <2>1. CASE i \in pass[p].staged
      BY <1>5, <1>6, <2>1
    <2>2. CASE i \notin pass[p].staged
      <3>1. Unfit(i) \/ CutOff(p, i)
        BY <1>5, <1>6, <2>2
      <3> QED
        BY <1>2, <1>3, <3>1 DEF Unfit, IdOf, CutOff
    <2> QED
      BY <2>1, <2>2
  <1> HIDE DEF staged
  <1>7. WorkDone(p)'
    BY <1>1, <1>2, <1>3, <1>4 DEF WorkDone, Early, Late
  <1>8. LeftOut(p)'
    BY <1>2, <1>6 DEF LeftOut, Late
  <1> QED
    BY <1>7, <1>8

\* From the model on, a pass keeps what it staged and what it inserted.
LEMMA LateLeavesOut ==
    ASSUME CloseInv, NEW p \in Passes, UNCHANGED documents, pass[p].at \in Late,
           pass'[p].staged = pass[p].staged, pass'[p].inserted = pass[p].inserted,
           pass'[p].capped = pass[p].capped,
           pass'[p].at \in Late \cup {"stopped"}
    PROVE  LeftOut(p)'
  <1>1. LeftOut(p)
    BY DEF CloseInv, Finished
  <1>2. \A i \in pass[p].inserted : Unfit(i) => Unfit(i)'
    BY DEF Unfit, IdOf
  <1> QED
    BY <1>1, <1>2 DEF LeftOut, CutOff, Late

LEMMA ExtractClose ==
    ASSUME CloseInv, NEW p \in Passes, NEW i \in Items, ExtractFindingFields(p, i)
    PROVE  (WorkDone(p) /\ LeftOut(p))'
  <1>1. /\ pass'[p].at = IF Of(p, calls') = pass[p].staged
                         THEN "Ledger Model Call" ELSE "Extract Finding Fields"
        /\ pass'[p].inserted = pass[p].inserted
        /\ pass'[p].staged = pass[p].staged
        /\ pass'[p].capped = pass[p].capped
        /\ pass'[p].filed = pass[p].filed
    BY ExtractFindingFieldsShape DEF CloseInv, SpendingInv, ExtractFindingFields
  <1>2. pass[p].at = "Extract Finding Fields" /\ UNCHANGED <<runs, documents>>
    BY DEF ExtractFindingFields
  <1>3. WorkDone(p)
    BY DEF CloseInv, Finished
  <1>4. Of(p, calls)' = Of(p, calls')
    BY DEF Of
  <1>5. WorkDone(p)'
    BY <1>1, <1>2, <1>3, <1>4 DEF WorkDone, Early, Late
  <1> QED
    BY <1>1, <1>2, <1>5, LateLeavesOut DEF Late

LEMMA LedgerClose ==
    ASSUME CloseInv, NEW p \in Passes, NEW i \in Items, LedgerModelCall(p, i)
    PROVE  (WorkDone(p) /\ LeftOut(p))'
  <1>1. /\ pass'[p].at = IF Of(p, ledger') = pass[p].staged
                         THEN "Write Findings" ELSE "Ledger Model Call"
        /\ pass'[p].inserted = pass[p].inserted
        /\ pass'[p].staged = pass[p].staged
        /\ pass'[p].capped = pass[p].capped
        /\ pass'[p].filed = pass[p].filed
    BY LedgerModelCallShape DEF CloseInv, SpendingInv, LedgerModelCall
  <1>2. pass[p].at = "Ledger Model Call" /\ UNCHANGED <<runs, documents, calls, findings>>
    BY DEF LedgerModelCall
  <1>3. WorkDone(p) /\ InOrder(p)
    BY DEF CloseInv, SpendingInv, Finished
  <1>4. Of(p, ledger)' = Of(p, ledger') /\ Of(p, calls)' = Of(p, calls)
    BY <1>2 DEF Of
  <1>5. pass[p].filed = {}
    BY <1>2, <1>3 DEF WorkDone
  <1>6. Of(p, findings)' = {}
    BY <1>2, <1>3, <1>5 DEF Of, InOrder
  <1>7. pass'[p].at \in {"Write Findings", "Ledger Model Call"}
    BY <1>1
  <1>8. WorkDone(p)'
    BY <1>1, <1>2, <1>3, <1>4, <1>5, <1>6, <1>7 DEF WorkDone, Early, Late
  <1> QED
    BY <1>1, <1>2, <1>7, <1>8, LateLeavesOut DEF Late

LEMMA FindingClose ==
    ASSUME CloseInv, NEW p \in Passes, NEW i \in Items, WriteFinding(p, i)
    PROVE  (WorkDone(p) /\ LeftOut(p))'
  <1>1. pass[p] \in Held /\ pass \in [Passes -> Held] /\ pass[p].at = "Write Findings"
    BY DEF CloseInv, SpendingInv, Types, WriteFinding
  <1>2. /\ pass'[p].inserted = pass[p].inserted
        /\ pass'[p].staged = pass[p].staged
        /\ pass'[p].capped = pass[p].capped
        /\ pass'[p].answered = pass[p].answered
        /\ pass'[p].filed = pass[p].filed \cup {i}
        /\ pass'[p].at = IF pass'[p].filed = pass[p].staged THEN "Close Run" ELSE "Write Findings"
    BY <1>1 DEF WriteFinding, Only, Held
  <1>3. UNCHANGED <<runs, documents, calls, ledger>>
    BY DEF WriteFinding
  <1>4. WorkDone(p)
    BY DEF CloseInv, Finished
  <1>5. Of(p, ledger)' = Of(p, ledger) /\ Of(p, calls)' = Of(p, calls)
    BY <1>3 DEF Of
  <1>6. Of(p, findings) = pass[p].filed \cap pass[p].answered
    BY <1>1, <1>4 DEF WorkDone
  <1>7. Of(p, findings)' = pass'[p].filed \cap pass'[p].answered
    <2>1. findings' = IF i \in pass[p].answered THEN findings \cup {<<p, i>>} ELSE findings
      BY DEF WriteFinding
    <2>2. Of(p, findings)' = IF i \in pass[p].answered THEN Of(p, findings) \cup {i}
                             ELSE Of(p, findings)
      BY <2>1 DEF Of
    <2> QED
      BY <1>2, <1>6, <2>2
  <1>8. pass'[p].at \in {"Write Findings", "Close Run"}
    BY <1>2
  <1>9. WorkDone(p)'
    BY <1>1, <1>2, <1>3, <1>4, <1>5, <1>7, <1>8 DEF WorkDone, Early, Late
  <1> QED
    BY <1>1, <1>2, <1>3, <1>8, <1>9, LateLeavesOut DEF Late

LEMMA EndClose ==
    ASSUME CloseInv, NEW p \in Passes, CloseRun(p) \/ PassStops(p)
    PROVE  (WorkDone(p) /\ LeftOut(p))'
  <1>1. pass[p] \in Held /\ pass \in [Passes -> Held]
    BY DEF CloseInv, SpendingInv, Types
  <1>2. /\ pass'[p].inserted = pass[p].inserted
        /\ pass'[p].staged = pass[p].staged
        /\ pass'[p].capped = pass[p].capped
        /\ pass'[p].answered = pass[p].answered
        /\ pass'[p].filed = pass[p].filed
    <2>1. PICK a \in {"closed", "stopped"} : pass' = [pass EXCEPT ![p] = [pass[p] EXCEPT !.at = a]]
      BY DEF CloseRun, PassStops, Only
    <2> QED
      BY <1>1, <2>1 DEF Held
  <1>3. UNCHANGED <<documents, calls, ledger, findings>>
    BY DEF CloseRun, PassStops
  <1>4. /\ Of(p, ledger)' = Of(p, ledger) /\ Of(p, calls)' = Of(p, calls)
        /\ Of(p, findings)' = Of(p, findings)
    BY <1>3 DEF Of
  <1>5. WorkDone(p)
    BY DEF CloseInv, Finished
  <1>6. CASE CloseRun(p)
    <2>1. pass[p].at = "Close Run" /\ pass'[p].at = "closed"
      BY <1>1, <1>6 DEF CloseRun, Only, Held
    <2>2. WorkDone(p)'
      BY <1>2, <1>4, <1>5, <2>1 DEF WorkDone, Early, Late
    <2> QED
      BY <1>2, <1>3, <2>1, <2>2, LateLeavesOut DEF Late
  <1>7. CASE PassStops(p)
    <2>1. pass[p].at # "closed" /\ pass'[p].at = "stopped" /\ UNCHANGED runs
      BY <1>1, <1>7 DEF PassStops, Only, Held, Nodes
    <2> QED
      BY <1>5, <2>1 DEF WorkDone, LeftOut, Early, Late
  <1> QED
    BY <1>6, <1>7

\* What a step of one pass leaves of the others' rows.
LEMMA OthersRows ==
    ASSUME CloseInv, NEW p \in Passes, PassStep(p) \/ PassStops(p), NEW q \in Passes \ {p}
    PROVE  /\ OthersKept(p) /\ runs'[q] = runs[q]
           /\ \A i \in Items :
                /\ <<q, i>> \in calls' <=> <<q, i>> \in calls
                /\ <<q, i>> \in ledger' <=> <<q, i>> \in ledger
                /\ <<q, i>> \in findings' <=> <<q, i>> \in findings
           /\ \A i \in Corpus : Unfit(i) => Unfit(i)'
  <1>1. OthersKept(p)
    BY SelectActiveSourcesShape, FetchSourcePayloadShape, WriteDocumentShape,
       ApplySourceHealthShape, SelectRecentCorpusShape, ApplyCallCeilingShape,
       PrepareModelPromptShape, ExtractFindingFieldsShape, LedgerModelCallShape, WriteFindingShape, EndShape
    DEF PassStep, CloseInv, SpendingInv
  <1>2. runs'[q] = runs[q]
    BY DEF PassStep, PassStops, SelectActiveSources, FetchSourcePayload, WriteDocument,
           ApplySourceHealth, SelectRecentCorpus, ApplyCallCeiling, PrepareModelPrompt,
           ExtractFindingFields, LedgerModelCall, WriteFinding, CloseRun, CloseInv, SpendingInv, Types
  <1>3. /\ calls' = calls \/ \E i \in Items : calls' = calls \cup {<<p, i>>}
        /\ ledger' = ledger \/ \E i \in Items : ledger' = ledger \cup {<<p, i>>}
        /\ findings' = findings \/ \E i \in Items : findings' = findings \cup {<<p, i>>}
    BY DEF PassStep, PassStops, SelectActiveSources, FetchSourcePayload, WriteDocument,
           ApplySourceHealth, SelectRecentCorpus, ApplyCallCeiling, PrepareModelPrompt,
           ExtractFindingFields,
           LedgerModelCall, WriteFinding, CloseRun
  <1>4. UNCHANGED documents \/ \E r \in Sources \X Items : WriteDocument(p, r)
    BY DEF PassStep, PassStops, SelectActiveSources, FetchSourcePayload,
           ApplySourceHealth, SelectRecentCorpus, ApplyCallCeiling, PrepareModelPrompt,
           ExtractFindingFields,
           LedgerModelCall, WriteFinding, CloseRun
  <1>5. \A i \in Corpus : Unfit(i) => Unfit(i)'
    BY <1>4, UnfitStays DEF CloseInv
  <1> QED
    BY <1>1, <1>2, <1>3, <1>5

LEMMA NextClose == CloseInv /\ [Next]_vars => Finished'
  <1> SUFFICES ASSUME CloseInv, [Next]_vars
               PROVE  \A q \in Passes : (WorkDone(q) /\ LeftOut(q))'
    BY DEF Finished
  <1>1. ASSUME UNCHANGED vars, NEW q \in Passes
        PROVE  (WorkDone(q) /\ LeftOut(q))'
    <2>1. /\ Of(q, calls)' = Of(q, calls) /\ Of(q, ledger)' = Of(q, ledger)
          /\ Of(q, findings)' = Of(q, findings)
          /\ runs' = runs /\ pass' = pass
          /\ \A i : Unfit(i)' <=> Unfit(i)
          /\ \A i : CutOff(q, i)' <=> CutOff(q, i)
      BY <1>1 DEF vars, Unfit, IdOf, CutOff, Of
    <2>2. WorkDone(q) /\ LeftOut(q)
      BY DEF CloseInv, Finished
    <2>3. WorkDone(q)'
      BY <2>1, <2>2 DEF WorkDone
    <2>4. LeftOut(q)'
      BY <2>1, <2>2 DEF LeftOut
    <2> QED
      BY <2>3, <2>4
  <1>2. ASSUME NEW p \in Passes, PassStep(p) \/ PassStops(p), NEW q \in Passes
        PROVE  (WorkDone(q) /\ LeftOut(q))'
    <2> USE DEF CloseInv, SpendingInv
    <2>1. CASE q # p
      BY <1>2, <2>1, OthersRows, OthersClose
    <2>2. CASE q = p
      <3>1. CASE SelectActiveSources(p)
        BY <2>2, <3>1, SelectActiveSourcesShape, EarlyClose DEF SelectActiveSources, Early
      <3>2. CASE FetchSourcePayload(p)
        BY <2>2, <3>2, FetchSourcePayloadShape, EarlyClose DEF FetchSourcePayload, Early
      <3>3. CASE \E r \in Sources \X Items : WriteDocument(p, r)
        BY <2>2, <3>3, WriteDocumentShape, EarlyClose DEF WriteDocument, Early
      <3>4. CASE \E s \in Sources : ApplySourceHealth(p, s)
        BY <2>2, <3>4, ApplySourceHealthShape, EarlyClose DEF ApplySourceHealth, Early
      <3>5. CASE \/ SelectRecentCorpus(p) \/ ApplyCallCeiling(p) \/ PrepareModelPrompt(p)
                 \/ CloseRun(p) \/ PassStops(p)
        BY <2>2, <3>5, RecentCorpusClose, CeilingClose, PromptClose, EndClose
      <3>6. CASE \E i \in Items : ExtractFindingFields(p, i) \/ LedgerModelCall(p, i)
                                  \/ WriteFinding(p, i)
        BY <2>2, <3>6, ExtractClose, LedgerClose, FindingClose
      <3> QED
        BY <1>2, <3>1, <3>2, <3>3, <3>4, <3>5, <3>6 DEF PassStep
    <2> QED
      BY <2>1, <2>2
  <1> QED
    BY <1>1, <1>2 DEF Next

\* A run is closed over finished work, whichever passes ran beside it and wherever
\* they died: whatever its pass stored first was asked about, charged and filed,
\* or had its reason not to be (Write Documents through Close Run).
THEOREM ClosedRunIsFinished == Spec => []ClosedRunLeavesNothing
  <1>1. CloseInv => ClosedRunLeavesNothing
    <2> SUFFICES ASSUME CloseInv, NEW p \in Passes, runs[p] # "running"
                 PROVE  /\ pass[p].staged # {}
                        /\ Of(p, calls) = pass[p].staged
                        /\ Of(p, ledger) = pass[p].staged
                        /\ Of(p, findings) = pass[p].staged \cap pass[p].answered
                        /\ \A i \in pass[p].inserted \ pass[p].staged :
                            Unfit(i) \/ CutOff(p, i) \/ i \in pass[p].capped \ Readable
      BY DEF ClosedRunLeavesNothing, Unfit, CutOff
    <2>1. WorkDone(p) /\ LeftOut(p)
      BY DEF CloseInv, Finished
    <2>2. pass[p].at = "closed"
      BY <2>1 DEF WorkDone
    <2> QED
      BY <2>1, <2>2 DEF WorkDone, LeftOut, Late
  <1>2. CloseInv <=> SpendingInv /\ Finished
    BY DEF CloseInv, Finished
  <1>3. Spec => []CloseInv
    BY <1>2, InitClose, NextClose, SpendingHolds, PTL DEF Spec
  <1> QED
    BY <1>1, <1>3, PTL

-----------------------------------------------------------------------------
(* Passes over the sources that follow one another, with the history of    *)
(* MCIngest: the failures in a row of each source.                         *)

Alone == \A p, q \in Passes : AtWork(p) /\ AtWork(q) => p = q

\* What a pass at work read of a source it has yet to judge is what the row holds.
InTouch ==
    \A p \in Passes : AtWork(p) =>
        \A s \in (DOMAIN pass[p].seen) \ pass[p].judged : pass[p].seen[s] = sources[s]

CountsInARow ==
    \A s \in Sources :
        /\ sources[s].failures = streak[s]
        /\ streak[s] >= Threshold => sources[s].flagged

InSequence == ~ overlapped => Alone /\ InTouch /\ CountsInARow

\* A step by what it does to the columns and to what passes know of them.
Looks(p) ==
    /\ sources' = sources /\ pass[p].judged = {} /\ pass'[p].judged = {}
    /\ \A s \in DOMAIN pass'[p].seen : pass'[p].seen[s] = sources[s]

LooksAway(p) ==
    /\ sources' = sources
    /\ pass'[p].seen = pass[p].seen /\ pass'[p].judged = pass[p].judged
    /\ AtWork(p)' => AtWork(p)

LEMMA StepByColumns ==
    ASSUME Types, Next
    PROVE  \E p \in Passes :
            /\ OthersKept(p)
            /\ Looks(p) \/ LooksAway(p) \/ \E s \in Sources : ApplySourceHealth(p, s)
  <1>1. PICK p \in Passes : PassStep(p) \/ PassStops(p)
    BY DEF Next
  <1>2. ASSUME SelectActiveSources(p)
        PROVE  OthersKept(p) /\ Looks(p)
    BY <1>2, SelectActiveSourcesShape DEF Looks, SelectActiveSources
  <1>3. ASSUME FetchSourcePayload(p)
        PROVE  OthersKept(p) /\ LooksAway(p)
    BY <1>3, FetchSourcePayloadShape DEF LooksAway, FetchSourcePayload, AtWork
  <1>4. ASSUME NEW r \in Sources \X Items, WriteDocument(p, r)
        PROVE  OthersKept(p) /\ LooksAway(p)
    BY <1>4, WriteDocumentShape DEF LooksAway, ReadingKept, WriteDocument, AtWork
  <1>5. ASSUME NEW s \in Sources, ApplySourceHealth(p, s)
        PROVE  OthersKept(p)
    BY <1>5, ApplySourceHealthShape
  <1>6. ASSUME SelectRecentCorpus(p)
        PROVE  OthersKept(p) /\ LooksAway(p)
    BY <1>6, SelectRecentCorpusShape DEF LooksAway, ReadingKept, SelectRecentCorpus, AtWork
  <1>7. ASSUME ApplyCallCeiling(p)
        PROVE  OthersKept(p) /\ LooksAway(p)
    BY <1>7, ApplyCallCeilingShape DEF LooksAway, ReadingKept, ApplyCallCeiling, AtWork
  <1>a. ASSUME PrepareModelPrompt(p)
        PROVE  OthersKept(p) /\ LooksAway(p)
    BY <1>a, PrepareModelPromptShape DEF LooksAway, ReadingKept, PrepareModelPrompt, AtWork
  <1>8. ASSUME NEW i \in Items, ExtractFindingFields(p, i)
        PROVE  OthersKept(p) /\ LooksAway(p)
    BY <1>8, ExtractFindingFieldsShape DEF LooksAway, ReadingKept, ExtractFindingFields, AtWork
  <1>9. ASSUME NEW i \in Items, LedgerModelCall(p, i)
        PROVE  OthersKept(p) /\ LooksAway(p)
    BY <1>9, LedgerModelCallShape DEF LooksAway, ReadingKept, LedgerModelCall, AtWork
  <1>10. ASSUME NEW i \in Items, WriteFinding(p, i)
         PROVE  OthersKept(p) /\ LooksAway(p)
    BY <1>10, WriteFindingShape DEF LooksAway, ReadingKept, WriteFinding, AtWork
  <1>11. ASSUME CloseRun(p) \/ PassStops(p)
         PROVE  OthersKept(p) /\ LooksAway(p)
    BY <1>11, EndShape DEF LooksAway, ReadingKept, AtWork
  <1> QED
    BY <1>1, <1>2, <1>3, <1>4, <1>5, <1>6, <1>7, <1>a, <1>8, <1>9, <1>10, <1>11 DEF PassStep

LEMMA NothingApplied ==
    ASSUME MCNext, \A q \in Passes : pass'[q].judged = pass[q].judged
    PROVE  \A s \in Sources : streak'[s] = streak[s]
  <1>1. \A q \in Passes : Applied(q) = {}
    BY DEF Applied
  <1> QED
    BY <1>1 DEF MCNext

LEMMA SequenceKept ==
    ASSUME Types, InSequence, MCNext
    PROVE  InSequence'
  <1> SUFFICES ASSUME ~ overlapped'
               PROVE  Alone' /\ InTouch' /\ CountsInARow'
    BY DEF InSequence
  <1>1. Alone /\ InTouch /\ CountsInARow
    BY DEF InSequence, MCNext
  <1>2. Alone'
    BY DEF MCNext, Alone
  <1>3. PICK p \in Passes :
            /\ OthersKept(p)
            /\ Looks(p) \/ LooksAway(p) \/ \E s \in Sources : ApplySourceHealth(p, s)
    BY StepByColumns DEF MCNext
  <1>4. ASSUME NEW q \in Passes \ {p}
        PROVE  pass'[q] = pass[q] /\ (AtWork(q)' <=> AtWork(q))
    BY <1>3 DEF OthersKept, AtWork
  <1>5. CASE Looks(p) \/ LooksAway(p)
    <2>1. sources' = sources /\ pass'[p].judged = pass[p].judged
      BY <1>5 DEF Looks, LooksAway
    <2>2. \A s \in Sources : streak'[s] = streak[s]
      BY <1>4, <2>1, NothingApplied
    <2>3. CountsInARow'
      BY <1>1, <2>1, <2>2 DEF CountsInARow
    <2>4. ASSUME NEW q \in Passes, AtWork(q)', NEW s \in (DOMAIN pass'[q].seen) \ pass'[q].judged
          PROVE  pass'[q].seen[s] = sources'[s]
      <3>1. CASE q # p
        BY <1>1, <1>4, <2>1, <2>4, <3>1 DEF InTouch
      <3>2. CASE q = p /\ Looks(p)
        BY <2>1, <2>4, <3>2 DEF Looks
      <3>3. CASE q = p /\ LooksAway(p)
        BY <1>1, <2>1, <2>4, <3>3 DEF LooksAway, InTouch
      <3> QED
        BY <1>5, <3>1, <3>2, <3>3
    <2> QED
      BY <1>2, <2>3, <2>4 DEF InTouch
  <1>6. ASSUME NEW s \in Sources, ApplySourceHealth(p, s)
        PROVE  InTouch' /\ CountsInARow'
    <2>1. /\ ReadingKept(p) /\ pass'[p].judged = pass[p].judged \cup {s}
          /\ pass[p].seen[s] \in Health
          /\ sources'[s] = Judged(pass[p].seen[s], Succeeded(p, s))
          /\ \A t \in Sources \ {s} : sources'[t] = sources[t]
      BY <1>6, ApplySourceHealthShape
    <2>2. AtWork(p) /\ s \in (DOMAIN pass[p].seen) \ pass[p].judged
      BY <1>6 DEF ApplySourceHealth, AtWork
    <2>3. pass[p].seen[s] = sources[s]
      BY <1>1, <2>2 DEF InTouch
    <2>4. Applied(p) = {s} /\ \A q \in Passes \ {p} : Applied(q) = {}
      BY <1>4, <2>1, <2>2 DEF Applied
    <2>5. \A q \in Passes \ {p} : ~ AtWork(q)'
      BY <1>1, <1>4, <2>2 DEF Alone
    <2>6. ASSUME NEW q \in Passes, AtWork(q)', NEW t \in (DOMAIN pass'[q].seen) \ pass'[q].judged
          PROVE  pass'[q].seen[t] = sources'[t]
      <3>1. q = p
        BY <2>5, <2>6
      <3>2. t \in (DOMAIN pass[p].seen) \ pass[p].judged /\ t # s
        BY <2>1, <2>6, <3>1 DEF ReadingKept
      <3>3. t \in Sources
        <4>1. pass[p].seen \in Columns
          BY DEF Types, Held
        <4> QED
          BY <3>2, <4>1, ColumnsOf
      <3>4. pass[p].seen[t] = sources[t]
        BY <1>1, <2>2, <3>2 DEF InTouch
      <3> QED
        BY <2>1, <3>1, <3>2, <3>3, <3>4 DEF ReadingKept
    <2>7. streak'[s] = IF Succeeded(p, s) THEN 0 ELSE streak[s] + 1
      BY <2>4 DEF MCNext
    <2>8. \A t \in Sources \ {s} : streak'[t] = streak[t]
      BY <2>4 DEF MCNext
    <2>9. Succeeded(p, s) \in BOOLEAN
      BY DEF Succeeded
    <2>10. /\ sources'[s].failures = IF Succeeded(p, s) THEN 0 ELSE sources[s].failures + 1
           /\ sources'[s].flagged <=> sources[s].flagged \/ sources'[s].failures >= Threshold
      BY <2>1, <2>3, <2>9, JudgedIsHealth
    <2>11. sources'[s].failures = streak'[s] /\ (streak'[s] >= Threshold => sources'[s].flagged)
      BY <1>1, <2>7, <2>10 DEF CountsInARow
    <2>12. CountsInARow'
      BY <1>1, <2>1, <2>8, <2>11 DEF CountsInARow
    <2> QED
      BY <2>6, <2>12 DEF InTouch
  <1> QED
    BY <1>2, <1>3, <1>5, <1>6

\* Where passes over the sources follow one another, the counter is the number of
\* failures in a row, and a flag that number calls for is up.  (Judge Source Health and
\* Apply Source Health, over columns Select Active Sources read at the start.)
THEOREM FailuresInARowAreCounted == MCSpec => []SequentialPassesCountEveryFailure
  <1>1. MCInit => Types /\ InSequence
    <2> SUFFICES ASSUME MCInit PROVE Types /\ InSequence
      OBVIOUS
    <2>1. Types
      BY InitTypes DEF MCInit
    <2>2. \A p \in Passes : pass[p].at = "Select Active Sources"
      BY FreshIsHeld DEF MCInit, Init
    <2>3. \A p \in Passes : ~ AtWork(p)
      BY <2>2 DEF AtWork
    <2>4. \A s \in Sources : sources[s].failures = 0 /\ streak[s] = 0
      BY DEF MCInit, Init, NeverFetched
    <2>5. CountsInARow
      BY <2>4 DEF CountsInARow
    <2> QED
      BY <2>1, <2>3, <2>5 DEF InSequence, Alone, InTouch
  <1>2. Types /\ InSequence /\ [MCNext]_MCvars => (Types /\ InSequence)'
    <2> SUFFICES ASSUME Types, InSequence, [MCNext]_MCvars
                 PROVE  Types' /\ InSequence'
      OBVIOUS
    <2>1. CASE MCNext
      BY <2>1, NextTypes, SequenceKept DEF MCNext
    <2>2. CASE UNCHANGED MCvars
      <3>1. UNCHANGED vars /\ UNCHANGED <<streak, overlapped>>
        BY <2>2 DEF MCvars
      <3>2. Types'
        BY <3>1, NextTypes
      <3>3. InSequence'
        BY <3>1 DEF InSequence, Alone, InTouch, CountsInARow, AtWork, vars
      <3> QED
        BY <3>2, <3>3
    <2> QED
      BY <2>1, <2>2
  <1>3. InSequence => SequentialPassesCountEveryFailure
    BY DEF InSequence, CountsInARow, SequentialPassesCountEveryFailure
  <1> QED
    BY <1>1, <1>2, <1>3, PTL DEF MCSpec
=============================================================================
