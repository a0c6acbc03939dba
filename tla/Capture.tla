------------------------------ MODULE Capture ------------------------------
(***************************************************************************)
(* The capture pass (ar-capture): a client posts a page, the request is    *)
(* stored before anything reads it, and the row is then judged, read       *)
(* under the parser config of its source, promoted to the key of its       *)
(* content, and filed.  Every request is an execution of its own, so       *)
(* requests interleave with each other and with an ingest pass, and two    *)
(* statements that race are settled by the unique key on documents.hash:   *)
(* a statement looks things up in the snapshot it began under, and its     *)
(* write is checked against what has been committed since.                 *)
(*                                                                         *)
(* A document's id is its place in "documents".  A body stands for one     *)
(* posted payload, and its attributes for what the code reads from it.     *)
(***************************************************************************)
EXTENDS SourceHealth, Sequences, FiniteSets

CONSTANTS
    Requests,
    Bodies,         \* what may be posted, all of it naming one source
    Accepted,       \* the bodies whose envelope the contract accepts
    Envelope,       \* an accepted body rearranged: the note and the record
    Configs,        \* the parser configs the source may be given
    Contents,
    Pulled,         \* the contents an ingest pass may come upon
    Unreadable,
    Reading,        \* what a config makes of a body: a content, or Unreadable
    Conforming,     \* the bodies whose reading the source contract accepts
    Declared        \* the bodies whose reading the domain contract accepts

ASSUME CaptureAssumption ==
    /\ Accepted \subseteq Bodies
    /\ Unreadable \notin Contents
    /\ Pulled \subseteq Contents
    /\ Reading \in [Configs -> [Bodies -> Contents \cup {Unreadable}]]
    \* What is read is the record, so bodies of one envelope are read alike.
    /\ DOMAIN Envelope = Accepted
    /\ \A a, b \in Accepted :
        Envelope[a] = Envelope[b] => \A g \in Configs : Reading[g][a] = Reading[g][b]

VARIABLES
    source,         \* the health columns of the source
    config,         \* its parser config
    documents,      \* [key, raw, status, note], the note being its parse_error
    findings,       \* <<request, document>>
    runs,           \* the status of the row each request leaves, or "none"
    request         \* what each request holds between its nodes

vars == <<source, config, documents, findings, runs, request>>

NoRow == 0
Pending(b) == <<"pending-capture", b>>
Content(c) == <<"content", c>>

\* The rows of a set of documents that stand under a key.
RowsUnder(k) == {d \in DOMAIN documents : documents[d].key = k}
RowUnder(k) == IF RowsUnder(k) = {} THEN NoRow ELSE CHOOSE d \in RowsUnder(k) : TRUE

\* Before the next statement, while one is running, or at an end.
Stages == {"Load Domain Context",
           "Store Raw Capture", "storing", "Record Capture Provenance",
           "Promote Capture Document", "promoting", "Write Capture Finding",
           "Apply Capture Health", "Close Capture Run"}
Ended == {"closed", "stopped", "raised"}

Fresh(b) == [at       |-> "Load Domain Context",
             body     |-> b,
             seen     |-> NeverFetched,     \* the counters read at the start
             config   |-> config,           \* the parser config read with them
             found    |-> NoRow,            \* what the running statement looked up
             document |-> NoRow,
             promoted |-> FALSE]

Init ==
    /\ source = NeverFetched
    /\ config \in Configs
    /\ documents = <<>>
    /\ findings = {}
    /\ runs = [r \in Requests |-> "none"]
    /\ \E posted \in [Requests -> Bodies] : request = [r \in Requests |-> Fresh(posted[r])]
-----------------------------------------------------------------------------
Only(r, held) == request' = [request EXCEPT ![r] = held]

Read(r) == Reading[request[r].config][request[r].body]

LoadDomainContext(r) ==
    /\ request[r].at = "Load Domain Context"
    /\ Only(r, [request[r] EXCEPT
            !.at = "Store Raw Capture", !.seen = source, !.config = config])
    /\ UNCHANGED <<source, config, documents, findings, runs>>

\* The statement begins, and looks for a row this body already stands in.
BeginStore(r) ==
    /\ request[r].at = "Store Raw Capture"
    /\ Only(r, [request[r] EXCEPT
            !.at = "storing", !.found = RowUnder(Pending(request[r].body))])
    /\ UNCHANGED <<source, config, documents, findings, runs>>

\* It inserts, or conflicts with a row and answers what it had looked up: no
\* row at all, where that row was committed after the statement began.
StoreRawCapture(r) ==
    LET key == Pending(request[r].body)
        new == RowsUnder(key) = {}
    IN  /\ request[r].at = "storing"
        /\ documents' = IF new
                        THEN Append(documents, [key |-> key, raw |-> request[r].body,
                                                status |-> "failed", note |-> "unjudged"])
                        ELSE documents
        /\ Only(r, [request[r] EXCEPT
                !.at = "Record Capture Provenance",
                !.document = IF new THEN Len(documents) + 1 ELSE request[r].found])
        /\ UNCHANGED <<source, config, findings, runs>>

\* Mutant: writes what came of the envelope over the row, nothing of a refused one.
RecordWithoutCoalesce(r, row) ==
    IF request[r].body \in Accepted
    THEN [row EXCEPT !.raw = Envelope[request[r].body], !.note = "accepted"]
    ELSE [row EXCEPT !.raw = "null", !.note = "refused"]

\* An accepted envelope replaces the posted body by its note and its record, the
\* five members of the contract and nothing else that was posted beside them; a
\* refused one leaves it as it was posted.
Provenance(r, row) ==
    IF request[r].body \in Accepted
    THEN [row EXCEPT !.raw = Envelope[request[r].body], !.note = "accepted"]
    ELSE [row EXCEPT !.note = "refused"]

\* The envelope is judged, and the row says what came of it.
RecordCaptureProvenance(r) ==
    LET d == request[r].document
    IN  /\ request[r].at = "Record Capture Provenance"
        /\ documents' = IF d = NoRow THEN documents
                        ELSE [documents EXCEPT ![d] = Provenance(r, @)]
        /\ Only(r, [request[r] EXCEPT !.at = "Promote Capture Document"])
        /\ UNCHANGED <<source, config, findings, runs>>

\* There is something to extract from where a row holds an accepted envelope.
HasRecord(r) == request[r].document # NoRow /\ request[r].body \in Accepted

ParsedOk(r) ==
    HasRecord(r) /\ Read(r) # Unreadable /\ request[r].body \in Conforming

\* The statement begins, and looks for another row holding the same reading.
BeginPromotion(r) ==
    /\ request[r].at = "Promote Capture Document"
    /\ Only(r, [request[r] EXCEPT
            !.at = "promoting",
            !.found = IF HasRecord(r) /\ Read(r) # Unreadable
                         /\ RowUnder(Content(Read(r))) # request[r].document
                      THEN RowUnder(Content(Read(r))) ELSE NoRow])
    /\ UNCHANGED <<source, config, documents, findings, runs>>

\* Mutant: promotes only what its contract accepts.
MovesIfConforming(r) == ParsedOk(r) /\ request[r].found = NoRow

\* The row is given the key of its content: it was read, and no other holds it.
Moves(r) == HasRecord(r) /\ Read(r) # Unreadable /\ request[r].found = NoRow

\* Mutant: a repeat takes the payload of the row it repeats.
AccountOverTheRaw(r, row) ==
    [row EXCEPT !.status = "failed",
                !.raw = IF request[r].found = NoRow THEN @
                        ELSE documents[request[r].found].raw]

\* A row that was not promoted says why.
Account(r, row) ==
    [row EXCEPT !.status = "failed",
                !.note = IF Read(r) = Unreadable THEN "unreadable" ELSE "repeat"]

\* The row is promoted or gives an account of itself; one whose envelope was
\* refused is left as it was judged.  The unique key refuses a promotion that
\* came too late, and the pass dies.
PromoteCaptureDocument(r) ==
    LET d     == request[r].document
        taken == RowUnder(Content(Read(r))) \notin {NoRow, d}
    IN  /\ request[r].at = "promoting"
        /\ IF Moves(r) /\ taken
           THEN Only(r, [request[r] EXCEPT !.at = "raised"]) /\ UNCHANGED documents
           ELSE /\ Only(r, [request[r] EXCEPT
                        !.at = "Write Capture Finding", !.promoted = Moves(r)])
                /\ documents' =
                    IF ~ HasRecord(r) THEN documents
                    ELSE [documents EXCEPT ![d] =
                            IF Moves(r)
                            THEN [@ EXCEPT !.key = Content(Read(r)),
                                           !.status = IF ParsedOk(r) THEN "ok" ELSE "failed",
                                           !.note = IF ParsedOk(r) THEN "none" ELSE "diverges"]
                            ELSE Account(r, @)]
        /\ UNCHANGED <<source, config, findings, runs>>

\* Mutant: files a repeat as well.
WriteRepeatFinding(r) ==
    /\ request[r].at = "Write Capture Finding"
    /\ findings' = IF HasRecord(r) /\ request[r].body \in Declared
                   THEN findings \cup {<<r, request[r].document>>} ELSE findings
    /\ Only(r, [request[r] EXCEPT !.at = "Apply Capture Health"])
    /\ UNCHANGED <<source, config, documents, runs>>

WriteCaptureFinding(r) ==
    /\ request[r].at = "Write Capture Finding"
    /\ findings' = IF request[r].promoted /\ request[r].body \in Declared
                   THEN findings \cup {<<r, request[r].document>>} ELSE findings
    /\ Only(r, [request[r] EXCEPT !.at = "Apply Capture Health"])
    /\ UNCHANGED <<source, config, documents, runs>>

\* A capture is one reading of its source, counted from the columns it loaded.
ApplyCaptureHealth(r) ==
    /\ request[r].at = "Apply Capture Health"
    /\ source' = Judged(request[r].seen, ParsedOk(r))
    /\ Only(r, [request[r] EXCEPT !.at = "Close Capture Run"])
    /\ UNCHANGED <<config, documents, findings, runs>>

\* Mutant: takes a capture that promoted nothing for a failed one.
CloseRepeatAsFailed(r) ==
    /\ request[r].at = "Close Capture Run"
    /\ runs' = [runs EXCEPT ![r] = IF request[r].promoted THEN "ok" ELSE "failed"]
    /\ Only(r, [request[r] EXCEPT !.at = "closed"])
    /\ UNCHANGED <<source, config, documents, findings>>

\* The row is written once, already closed; scoring may have failed before it.
CloseCaptureRun(r) ==
    /\ request[r].at = "Close Capture Run"
    /\ \E scoringFailed \in BOOLEAN :
        runs' = [runs EXCEPT ![r] =
            IF request[r].document = NoRow \/ (~ ParsedOk(r) /\ ~ request[r].promoted)
            THEN "failed"
            ELSE IF ~ ParsedOk(r) \/ scoringFailed THEN "partial" ELSE "ok"]
    /\ Only(r, [request[r] EXCEPT !.at = "closed"])
    /\ UNCHANGED <<source, config, documents, findings>>

\* A statement is refused or the instance goes down; the client may post again,
\* which is another request.
RequestStops(r) ==
    /\ request[r].at \in Stages
    /\ Only(r, [request[r] EXCEPT !.at = "stopped"])
    /\ UNCHANGED <<source, config, documents, findings, runs>>

RequestStep(r) ==
    \/ LoadDomainContext(r)
    \/ BeginStore(r) \/ StoreRawCapture(r) \/ RecordCaptureProvenance(r)
    \/ BeginPromotion(r) \/ PromoteCaptureDocument(r) \/ WriteCaptureFinding(r)
    \/ ApplyCaptureHealth(r) \/ CloseCaptureRun(r)

\* Write Documents in ar-ingest: the same item, reached by a pull source.
IngestWrites(c) ==
    /\ RowsUnder(Content(c)) = {}
    /\ documents' = Append(documents, [key |-> Content(c), raw |-> c,
                                       status |-> "ok", note |-> "none"])
    /\ UNCHANGED <<source, config, findings, runs, request>>

\* A proposal is applied to the source.
ConfigChanges ==
    /\ config' \in Configs \ {config}
    /\ UNCHANGED <<source, documents, findings, runs, request>>

Next ==
    \/ \E r \in Requests : RequestStep(r) \/ RequestStops(r)
    \/ \E c \in Pulled : IngestWrites(c)
    \/ ConfigChanges

Spec == Init /\ [][Next]_vars
-----------------------------------------------------------------------------
TypeOK ==
    /\ source \in Health
    /\ config \in Configs
    /\ \A d \in DOMAIN documents :
        documents[d] \in [key    : {Pending(b) : b \in Bodies} \cup {Content(c) : c \in Contents},
                          raw    : Bodies \cup Contents \cup {Envelope[b] : b \in Accepted},
                          status : {"ok", "failed"},
                          note   : {"none", "unjudged", "accepted", "refused",
                                    "unreadable", "repeat", "diverges"}]
    /\ findings \subseteq Requests \X DOMAIN documents
    /\ runs \in [Requests -> {"none", "ok", "partial", "failed"}]
    /\ request \in [Requests -> [at       : Stages \cup Ended,
                                 body     : Bodies,
                                 seen     : Health,
                                 config   : Configs,
                                 found    : {NoRow} \cup DOMAIN documents,
                                 document : {NoRow} \cup DOMAIN documents,
                                 promoted : BOOLEAN]]

\* What a row still has of a posted body: the whole of it, or its envelope.
Holds(raw, b) == raw = b \/ (b \in Accepted /\ raw = Envelope[b])

IsStored(r) ==
    request[r].at \notin {"Load Domain Context", "Store Raw Capture", "storing", "stopped"}

\* No payload is lost: whatever became of a request after it was stored, and
\* whoever else wrote to its row, the material it posted is in that row, as it
\* came or as its envelope; and in some row where it lost the race for one.
StoredCaptureIsKept ==
    \A r \in Requests :
        IsStored(r) => \E d \in DOMAIN documents :
                        /\ Holds(documents[d].raw, request[r].body)
                        /\ request[r].document \in {NoRow, d}

\* "Nothing is lost by the move": from what the row of a request holds it can be
\* told what was posted.  Two bodies that differ in a member the contract does
\* not name are accepted, and are one envelope once they are recorded.
NothingIsLostByTheMove ==
    \A r \in Requests :
        IsStored(r) /\ request[r].document # NoRow
            => {b \in Bodies : Holds(documents[request[r].document].raw, b)} = {request[r].body}

\* Another request shared the row q promoted, and promoted it as something else.
ReadAgain(q) ==
    \E r \in Requests :
        /\ request[r].document = request[q].document
        /\ request[r].promoted /\ Read(r) # Read(q)

RereadAsAnother(c) ==
    \E q \in Requests : request[q].promoted /\ Read(q) = c /\ ReadAgain(q)

\* A capture that was read and ran to its end is in the corpus under its content,
\* in this request's row or another's, and so is one the unique key refused to
\* promote, which loses its account of itself and no material; only a request
\* that shared the row and had loaded another config can have taken it away.
EndedCaptureIsHeld ==
    \A r \in Requests :
        request[r].at \in {"closed", "raised"} /\ HasRecord(r) /\ Read(r) # Unreadable
            => RowUnder(Content(Read(r))) # NoRow \/ RereadAsAnother(Read(r))

\* A good capture is reported failed only where it raced another request for
\* the same row, which is the one that stored it.
OnlyARaceFailsAGoodCapture ==
    \A r \in Requests :
        /\ runs[r] = "failed"
        /\ request[r].body \in Accepted \cap Conforming
        /\ Read(r) # Unreadable
        => /\ request[r].document = NoRow
           /\ \E q \in Requests \ {r} : request[q].body = request[r].body
                                         /\ request[q].document # NoRow
=============================================================================
