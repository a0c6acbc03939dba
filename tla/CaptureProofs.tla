--------------------------- MODULE CaptureProofs ----------------------------
(***************************************************************************)
(* Proofs about Capture and its history in MCCapture, for every set of     *)
(* requests, bodies, configs and contents.                                 *)
(*                                                                         *)
(* The argument: a provisional key names the body its row was made of and  *)
(* is never given twice, so that all who come to hold a row posted the     *)
(* same; the key of a content was given to a row by a request that still   *)
(* holds it, and only another of its holders can take it away.             *)
(***************************************************************************)
EXTENDS MCCapture, TLAPS

USE CaptureAssumption, ThresholdAssumption

-----------------------------------------------------------------------------
(* What a request holds.                                                   *)

Places == Stages \cup Ended

Held == [at : Places, body : Bodies, seen : Health, config : Configs,
         found : Nat, document : Nat, promoted : BOOLEAN]

\* The ways a node writes its row: the place alone, or with what the node read,
\* looked up or settled.
AtPlace(x, a) == [x EXCEPT !.at = a]
Loaded(x, a, s, c) == [x EXCEPT !.at = a, !.seen = s, !.config = c]
Began(x, a, f) == [x EXCEPT !.at = a, !.found = f]
Stored(x, a, d) == [x EXCEPT !.at = a, !.document = d]
Settled(x, a, p) == [x EXCEPT !.at = a, !.promoted = p]

LEMMA RowMoves ==
    ASSUME NEW x \in Held, NEW a \in Places
    PROVE  /\ AtPlace(x, a) \in Held
           /\ AtPlace(x, a).at = a
           /\ AtPlace(x, a).body = x.body
           /\ AtPlace(x, a).config = x.config
           /\ AtPlace(x, a).found = x.found
           /\ AtPlace(x, a).document = x.document
           /\ AtPlace(x, a).promoted = x.promoted
  BY DEF Held, AtPlace

LEMMA RowLoads ==
    ASSUME NEW x \in Held, NEW a \in Places, NEW s \in Health, NEW c \in Configs
    PROVE  /\ Loaded(x, a, s, c) \in Held
           /\ Loaded(x, a, s, c).at = a
           /\ Loaded(x, a, s, c).body = x.body
           /\ Loaded(x, a, s, c).config = c
           /\ Loaded(x, a, s, c).found = x.found
           /\ Loaded(x, a, s, c).document = x.document
           /\ Loaded(x, a, s, c).promoted = x.promoted
  <1> DEFINE y == Loaded(x, a, s, c)
  <1>1. /\ y.at = a /\ y.body = x.body /\ y.config = c /\ y.found = x.found
        /\ y.document = x.document /\ y.promoted = x.promoted /\ y.seen = s
    BY DEF Held, Loaded
  <1>2. /\ DOMAIN y = {"at", "body", "seen", "config", "found", "document", "promoted"}
        /\ y = [i \in DOMAIN y |-> y[i]]
    BY DEF Held, Loaded
  <1>3. /\ x.body \in Bodies /\ x.found \in Nat /\ x.document \in Nat /\ x.promoted \in BOOLEAN
    BY DEF Held
  <1> HIDE DEF y
  <1>4. y = [at |-> a, body |-> x.body, seen |-> s, config |-> c, found |-> x.found,
             document |-> x.document, promoted |-> x.promoted]
    BY <1>1, <1>2
  <1>5. y \in Held
    BY <1>3, <1>4 DEF Held
  <1> QED
    BY <1>1, <1>5 DEF y

LEMMA RowBegins ==
    ASSUME NEW x \in Held, NEW a \in Places, NEW f \in Nat
    PROVE  /\ Began(x, a, f) \in Held
           /\ Began(x, a, f).at = a
           /\ Began(x, a, f).body = x.body
           /\ Began(x, a, f).config = x.config
           /\ Began(x, a, f).found = f
           /\ Began(x, a, f).document = x.document
           /\ Began(x, a, f).promoted = x.promoted
  <1> DEFINE y == Began(x, a, f)
  <1>1. /\ y.at = a /\ y.body = x.body /\ y.config = x.config /\ y.found = f
        /\ y.document = x.document /\ y.promoted = x.promoted /\ y.seen = x.seen
    BY DEF Held, Began
  <1>2. /\ DOMAIN y = {"at", "body", "seen", "config", "found", "document", "promoted"}
        /\ y = [i \in DOMAIN y |-> y[i]]
    BY DEF Held, Began
  <1>3. /\ x.body \in Bodies /\ x.seen \in Health /\ x.config \in Configs
        /\ x.document \in Nat /\ x.promoted \in BOOLEAN
    BY DEF Held
  <1> HIDE DEF y
  <1>4. y = [at |-> a, body |-> x.body, seen |-> x.seen, config |-> x.config, found |-> f,
             document |-> x.document, promoted |-> x.promoted]
    BY <1>1, <1>2
  <1>5. y \in Held
    BY <1>3, <1>4 DEF Held
  <1> QED
    BY <1>1, <1>5 DEF y

LEMMA RowStores ==
    ASSUME NEW x \in Held, NEW a \in Places, NEW d \in Nat
    PROVE  /\ Stored(x, a, d) \in Held
           /\ Stored(x, a, d).at = a
           /\ Stored(x, a, d).body = x.body
           /\ Stored(x, a, d).config = x.config
           /\ Stored(x, a, d).found = x.found
           /\ Stored(x, a, d).document = d
           /\ Stored(x, a, d).promoted = x.promoted
  <1> DEFINE y == Stored(x, a, d)
  <1>1. /\ y.at = a /\ y.body = x.body /\ y.config = x.config /\ y.found = x.found
        /\ y.document = d /\ y.promoted = x.promoted /\ y.seen = x.seen
    BY DEF Held, Stored
  <1>2. /\ DOMAIN y = {"at", "body", "seen", "config", "found", "document", "promoted"}
        /\ y = [i \in DOMAIN y |-> y[i]]
    BY DEF Held, Stored
  <1>3. /\ x.body \in Bodies /\ x.seen \in Health /\ x.config \in Configs
        /\ x.found \in Nat /\ x.promoted \in BOOLEAN
    BY DEF Held
  <1> HIDE DEF y
  <1>4. y = [at |-> a, body |-> x.body, seen |-> x.seen, config |-> x.config, found |-> x.found,
             document |-> d, promoted |-> x.promoted]
    BY <1>1, <1>2
  <1>5. y \in Held
    BY <1>3, <1>4 DEF Held
  <1> QED
    BY <1>1, <1>5 DEF y

LEMMA RowSettles ==
    ASSUME NEW x \in Held, NEW a \in Places, NEW p \in BOOLEAN
    PROVE  /\ Settled(x, a, p) \in Held
           /\ Settled(x, a, p).at = a
           /\ Settled(x, a, p).body = x.body
           /\ Settled(x, a, p).config = x.config
           /\ Settled(x, a, p).found = x.found
           /\ Settled(x, a, p).document = x.document
           /\ Settled(x, a, p).promoted = p
  <1> DEFINE y == Settled(x, a, p)
  <1>1. /\ y.at = a /\ y.body = x.body /\ y.config = x.config /\ y.found = x.found
        /\ y.document = x.document /\ y.promoted = p /\ y.seen = x.seen
    BY DEF Held, Settled
  <1>2. /\ DOMAIN y = {"at", "body", "seen", "config", "found", "document", "promoted"}
        /\ y = [i \in DOMAIN y |-> y[i]]
    BY DEF Held, Settled
  <1>3. /\ x.body \in Bodies /\ x.seen \in Health /\ x.config \in Configs
        /\ x.found \in Nat /\ x.document \in Nat
    BY DEF Held
  <1> HIDE DEF y
  <1>4. y = [at |-> a, body |-> x.body, seen |-> x.seen, config |-> x.config, found |-> x.found,
             document |-> x.document, promoted |-> p]
    BY <1>1, <1>2
  <1>5. y \in Held
    BY <1>3, <1>4 DEF Held
  <1> QED
    BY <1>1, <1>5 DEF y

-----------------------------------------------------------------------------
(* The corpus.                                                             *)

Keys == {Pending(b) : b \in Bodies} \cup {Content(c) : c \in Contents}
Notes == {"none", "unjudged", "accepted", "refused", "unreadable", "repeat", "diverges"}

Envelopes == {Envelope[b] : b \in Accepted}

DocRow == [key : Keys, raw : Bodies \cup Contents \cup Envelopes, status : {"ok", "failed"},
           note : Notes]

LEMMA NewDocument ==
    /\ \A b \in Bodies :
        [key |-> Pending(b), raw |-> b, status |-> "failed", note |-> "unjudged"] \in DocRow
    /\ \A c \in Contents :
        [key |-> Content(c), raw |-> c, status |-> "ok", note |-> "none"] \in DocRow
  BY DEF DocRow, Notes, Keys

\* A provisional key names its body, that of a content its content, and none is
\* both.
LEMMA KeysAreApart ==
    /\ \A a, b : Pending(a) = Pending(b) => a = b
    /\ \A c, e : Content(c) = Content(e) => c = e
    /\ \A b, c : Pending(b) # Content(c)
  BY DEF Pending, Content

\* What looking a key up answers.
LEMMA LookedUp ==
    ASSUME documents \in Seq(DocRow), NEW k
    PROVE  /\ RowUnder(k) \in {NoRow} \cup DOMAIN documents
           /\ RowUnder(k) # NoRow =>
                RowUnder(k) \in DOMAIN documents /\ documents[RowUnder(k)].key = k
           /\ RowUnder(k) = NoRow => \A d \in DOMAIN documents : documents[d].key # k
           /\ RowsUnder(k) = {} <=> RowUnder(k) = NoRow
  <1>1. \A d \in DOMAIN documents : d # NoRow /\ d \in Nat
    BY DEF NoRow
  <1>2. CASE RowsUnder(k) = {}
    BY <1>2 DEF RowUnder, RowsUnder
  <1>3. CASE RowsUnder(k) # {}
    <2>1. RowUnder(k) \in RowsUnder(k)
      BY <1>3 DEF RowUnder
    <2> QED
      BY <1>1, <1>3, <2>1 DEF RowsUnder
  <1> QED
    BY <1>2, <1>3

LEMMA JudgedIsHealth ==
    ASSUME NEW h \in Health, NEW b \in BOOLEAN
    PROVE  Judged(h, b) \in Health
  <1> DEFINE n == IF b THEN 0 ELSE h.failures + 1
             f == h.flagged \/ n >= Threshold
  <1>1. n \in Nat /\ f \in BOOLEAN
    BY DEF Health
  <1>2. Judged(h, b) = [failures |-> n, flagged |-> f]
    BY Zenon DEF Judged
  <1> HIDE DEF n, f
  <1> QED
    BY <1>1, <1>2 DEF Health

-----------------------------------------------------------------------------
(* The types, and what each action does to what the invariants speak of.   *)

Types ==
    /\ source \in Health
    /\ config \in Configs
    /\ documents \in Seq(DocRow)
    /\ findings \subseteq Requests \X DOMAIN documents
    /\ runs \in [Requests -> {"none", "ok", "partial", "failed"}]
    /\ request \in [Requests -> Held]
    /\ \A q \in Requests : /\ request[q].found \in {NoRow} \cup DOMAIN documents
                           /\ request[q].document \in {NoRow} \cup DOMAIN documents

OthersKept(r) == \A q \in Requests \ {r} : request'[q] = request[q]

\* What the invariants ask of a row.
SameRows ==
    /\ DOMAIN documents' = DOMAIN documents
    /\ \A d \in DOMAIN documents : documents'[d].key = documents[d].key

SameRaws == \A d \in DOMAIN documents : documents'[d].raw = documents[d].raw

NewRow(k, w) ==
    LET new == Len(documents) + 1
    IN  /\ new \notin DOMAIN documents /\ new # NoRow
        /\ DOMAIN documents' = DOMAIN documents \cup {new}
        /\ \A d \in DOMAIN documents : documents'[d] = documents[d]
        /\ documents'[new].key = k /\ documents'[new].raw = w

\* What a step of r leaves of the request.
SameClaim(r) ==
    /\ request'[r].body = request[r].body
    /\ request'[r].document = request[r].document
    /\ request'[r].promoted = request[r].promoted

Moving(r, from, to) == request[r].at = from /\ request'[r].at = to

\* A step that neither stores nor promotes.
Advances(r) ==
    /\ OthersKept(r)
    /\ SameRows
    /\ SameClaim(r)
    /\ \/ Moving(r, "Load Domain Context", "Store Raw Capture")
       \/ /\ request'[r].config = request[r].config
          /\ \/ /\ Moving(r, "Store Raw Capture", "storing")
                /\ request'[r].found = RowUnder(Pending(request[r].body))
             \/ Moving(r, "Record Capture Provenance", "Promote Capture Document")
             \/ /\ Moving(r, "Promote Capture Document", "promoting")
                /\ request'[r].found \in {NoRow, RowUnder(Content(Read(r)))}
             \/ Moving(r, "Write Capture Finding", "Apply Capture Health")
             \/ Moving(r, "Apply Capture Health", "Close Capture Run")
             \/ Moving(r, "Close Capture Run", "closed")
             \/ request[r].at \in Stages /\ request'[r].at = "stopped"

Stores(r) ==
    LET key == Pending(request[r].body)
    IN  /\ OthersKept(r)
        /\ Moving(r, "storing", "Record Capture Provenance")
        /\ request'[r].body = request[r].body
        /\ request'[r].config = request[r].config
        /\ request'[r].promoted = request[r].promoted
        /\ \/ /\ RowUnder(key) = NoRow
              /\ NewRow(key, request[r].body)
              /\ request'[r].document = Len(documents) + 1
           \/ /\ RowUnder(key) # NoRow
              /\ SameRows
              /\ request'[r].document = request[r].found

\* A promotion that came too late, one that moved the row, and one that did not.
Promotes(r) ==
    LET d == request[r].document
        c == Read(r)
    IN  /\ OthersKept(r)
        /\ request[r].at = "promoting"
        /\ request'[r].body = request[r].body
        /\ request'[r].config = request[r].config
        /\ request'[r].document = d
        /\ \/ /\ request'[r].at = "raised"
              /\ request'[r].promoted = request[r].promoted
              /\ RowUnder(Content(c)) # NoRow
              /\ SameRows /\ SameRaws
           \/ /\ request'[r].at = "Write Capture Finding"
              /\ request'[r].promoted = TRUE
              /\ HasRecord(r) /\ c # Unreadable
              /\ RowUnder(Content(c)) \in {NoRow, d}
              /\ DOMAIN documents' = DOMAIN documents
              /\ documents'[d].key = Content(c) /\ documents'[d].raw = documents[d].raw
              /\ \A e \in DOMAIN documents \ {d} : documents'[e] = documents[e]
           \/ /\ request'[r].at = "Write Capture Finding"
              /\ request'[r].promoted = FALSE
              /\ HasRecord(r) /\ c # Unreadable => request[r].found # NoRow
              /\ SameRows /\ SameRaws

LEMMA InitTypes == Init => Types
  <1> SUFFICES ASSUME Init PROVE Types
    OBVIOUS
  <1>1. PICK posted \in [Requests -> Bodies] : request = [r \in Requests |-> Fresh(posted[r])]
    BY DEF Init
  <1>2. NeverFetched \in Health /\ config \in Configs /\ "Load Domain Context" \in Places
    BY DEF Init, NeverFetched, Health, Places, Stages
  <1>3. ASSUME NEW b \in Bodies
        PROVE  Fresh(b) \in Held
    BY <1>2 DEF Fresh, Held, NoRow
  <1>4. request \in [Requests -> Held]
    BY <1>1, <1>3
  <1>5. \A q \in Requests : request[q].found = NoRow /\ request[q].document = NoRow
    BY <1>1 DEF Fresh
  <1>6. documents \in Seq(DocRow) /\ findings = {}
    BY DEF Init
  <1>7. runs \in [Requests -> {"none", "ok", "partial", "failed"}]
    BY DEF Init
  <1> QED
    BY <1>2, <1>4, <1>5, <1>6, <1>7 DEF Init, Types

\* What a step that writes one request does to the others.
LEMMA OneRequest ==
    ASSUME request \in [Requests -> Held], NEW r \in Requests, NEW h \in Held, Only(r, h)
    PROVE  /\ request' \in [Requests -> Held]
           /\ request'[r] = h
           /\ OthersKept(r)
  BY DEF Only, OthersKept

\* The types after a step of r, given what it did.
LEMMA TypesAfter ==
    ASSUME Types, NEW r \in Requests, NEW h \in Held, Only(r, h),
           source' \in Health, config' \in Configs, documents' \in Seq(DocRow),
           DOMAIN documents \subseteq DOMAIN documents',
           findings' \subseteq Requests \X DOMAIN documents',
           runs' \in [Requests -> {"none", "ok", "partial", "failed"}],
           h.found \in {NoRow} \cup DOMAIN documents',
           h.document \in {NoRow} \cup DOMAIN documents'
    PROVE  /\ Types'
           /\ request'[r] = h
           /\ OthersKept(r)
  <1>1. /\ request' \in [Requests -> Held]
        /\ request'[r] = h
        /\ OthersKept(r)
    BY OneRequest DEF Types
  <1>2. ASSUME NEW q \in Requests
        PROVE  /\ request'[q].found \in {NoRow} \cup DOMAIN documents'
               /\ request'[q].document \in {NoRow} \cup DOMAIN documents'
    <2>1. CASE q = r
      BY <1>1, <2>1
    <2>2. CASE q # r
      <3>1. request'[q] = request[q]
        BY <1>1, <2>2 DEF OthersKept
      <3> QED
        BY <3>1 DEF Types
    <2> QED
      BY <2>1, <2>2
  <1> QED
    BY <1>1, <1>2 DEF Types

\* The same of a step that writes nothing but its request.
LEMMA TypesKept ==
    ASSUME Types, NEW r \in Requests, NEW h \in Held, Only(r, h),
           UNCHANGED <<source, config, documents, findings, runs>>,
           h.found \in {NoRow} \cup DOMAIN documents,
           h.document \in {NoRow} \cup DOMAIN documents
    PROVE  /\ Types'
           /\ request'[r] = h
           /\ OthersKept(r)
           /\ SameRows
  <1>1. /\ source' \in Health /\ config' \in Configs /\ documents' \in Seq(DocRow)
        /\ DOMAIN documents \subseteq DOMAIN documents'
        /\ findings' \subseteq Requests \X DOMAIN documents'
        /\ runs' \in [Requests -> {"none", "ok", "partial", "failed"}]
    BY DEF Types
  <1>2. SameRows
    BY DEF SameRows
  <1>3. /\ h.found \in {NoRow} \cup DOMAIN documents'
        /\ h.document \in {NoRow} \cup DOMAIN documents'
    OBVIOUS
  <1> QED
    BY <1>1, <1>2, <1>3, TypesAfter

LEMMA ReadIsContent ==
    ASSUME Types, NEW r \in Requests
    PROVE  /\ Read(r) \in Contents \cup {Unreadable}
           /\ Read(r) # Unreadable => Content(Read(r)) \in Keys
           /\ Pending(request[r].body) \in Keys
  <1>1. request[r].config \in Configs /\ request[r].body \in Bodies
    BY DEF Types, Held
  <1>2. Reading[request[r].config] \in [Bodies -> Contents \cup {Unreadable}]
    BY <1>1 DEF CaptureAssumption
  <1>3. Read(r) \in Contents \cup {Unreadable}
    BY <1>1, <1>2 DEF Read
  <1> QED
    BY <1>1, <1>3 DEF Keys

-----------------------------------------------------------------------------
(* Each action.                                                            *)

LEMMA LoadEffect ==
    ASSUME Types, NEW r \in Requests, LoadDomainContext(r)
    PROVE  Types' /\ Advances(r)
  <1> DEFINE x == request[r]
             next == "Store Raw Capture"
             y == Loaded(x, next, source, config)
  <1>1. x \in Held /\ next \in Places /\ source \in Health /\ config \in Configs
    BY DEF Types, Places, Stages
  <1> HIDE DEF next
  <1>2. /\ y \in Held
        /\ y.at = next /\ y.body = x.body /\ y.config = config /\ y.found = x.found
        /\ y.document = x.document /\ y.promoted = x.promoted
    BY <1>1, RowLoads
  <1>3. Only(r, y) /\ UNCHANGED <<source, config, documents, findings, runs>>
    BY DEF LoadDomainContext, Loaded, next
  <1>4. /\ x.found \in {NoRow} \cup DOMAIN documents
        /\ x.document \in {NoRow} \cup DOMAIN documents
    BY DEF Types
  <1>5. x.at = "Load Domain Context"
    BY DEF LoadDomainContext
  <1> HIDE DEF y
  <1>6. Types' /\ request'[r] = y /\ OthersKept(r) /\ SameRows
    BY <1>2, <1>3, <1>4, TypesKept
  <1> QED
    BY <1>2, <1>5, <1>6 DEF Advances, SameClaim, Moving, next

LEMMA BeginStoreEffect ==
    ASSUME Types, NEW r \in Requests, BeginStore(r)
    PROVE  Types' /\ Advances(r)
  <1> DEFINE x == request[r]
             f == RowUnder(Pending(x.body))
             y == Began(x, "storing", f)
  <1>1. x \in Held /\ "storing" \in Places /\ f \in {NoRow} \cup DOMAIN documents
    BY LookedUp DEF Types, Places, Stages
  <1>2. f \in Nat
    BY <1>1 DEF NoRow, Types
  <1>3. x.document \in {NoRow} \cup DOMAIN documents
    BY DEF Types
  <1>4. x.at = "Store Raw Capture" /\ Only(r, y)
        /\ UNCHANGED <<source, config, documents, findings, runs>>
    BY DEF BeginStore, Began
  <1> HIDE DEF f
  <1>5. /\ y \in Held
        /\ y.at = "storing" /\ y.body = x.body /\ y.config = x.config /\ y.found = f
        /\ y.document = x.document /\ y.promoted = x.promoted
    BY <1>1, <1>2, RowBegins
  <1> HIDE DEF y
  <1>6. Types' /\ request'[r] = y /\ OthersKept(r) /\ SameRows
    BY <1>1, <1>3, <1>4, <1>5, TypesKept
  <1> QED
    BY <1>4, <1>5, <1>6 DEF Advances, SameClaim, Moving, f

LEMMA BeginPromotionEffect ==
    ASSUME Types, NEW r \in Requests, BeginPromotion(r)
    PROVE  Types' /\ Advances(r)
  <1> DEFINE x == request[r]
             f == IF HasRecord(r) /\ Read(r) # Unreadable
                     /\ RowUnder(Content(Read(r))) # x.document
                  THEN RowUnder(Content(Read(r))) ELSE NoRow
             y == Began(x, "promoting", f)
  <1>1. x \in Held /\ "promoting" \in Places
    BY DEF Types, Places, Stages
  <1>2. RowUnder(Content(Read(r))) \in {NoRow} \cup DOMAIN documents
    BY LookedUp DEF Types
  <1>3. f \in {NoRow} \cup DOMAIN documents /\ f \in {NoRow, RowUnder(Content(Read(r)))}
    BY <1>2
  <1>4. f \in Nat
    BY <1>3 DEF NoRow, Types
  <1>5. x.document \in {NoRow} \cup DOMAIN documents
    BY DEF Types
  <1>6. x.at = "Promote Capture Document" /\ Only(r, y)
        /\ UNCHANGED <<source, config, documents, findings, runs>>
    BY DEF BeginPromotion, Began
  <1> HIDE DEF f
  <1>7. /\ y \in Held
        /\ y.at = "promoting" /\ y.body = x.body /\ y.config = x.config /\ y.found = f
        /\ y.document = x.document /\ y.promoted = x.promoted
    BY <1>1, <1>4, RowBegins
  <1> HIDE DEF y
  <1>8. Types' /\ request'[r] = y /\ OthersKept(r) /\ SameRows
    BY <1>3, <1>5, <1>6, <1>7, TypesKept
  <1> QED
    BY <1>3, <1>6, <1>7, <1>8 DEF Advances, SameClaim, Moving

\* The new row of a statement that inserts one.
LEMMA Appended ==
    ASSUME Types, NEW row \in DocRow, documents' = Append(documents, row)
    PROVE  /\ documents' \in Seq(DocRow)
           /\ DOMAIN documents \subseteq DOMAIN documents'
           /\ NewRow(row.key, row.raw)
           /\ Len(documents) + 1 \in DOMAIN documents' \cap Nat
  <1>1. documents \in Seq(DocRow) /\ Len(documents) \in Nat
    BY DEF Types
  <1>2. documents' \in Seq(DocRow) /\ Len(documents') = Len(documents) + 1
    BY <1>1
  <1>3. /\ DOMAIN documents' = 1..(Len(documents) + 1)
        /\ DOMAIN documents = 1..Len(documents)
    BY <1>1, <1>2
  <1>4. /\ \A d \in DOMAIN documents : documents'[d] = documents[d]
        /\ documents'[Len(documents) + 1] = row
    BY <1>1
  <1>5. DOMAIN documents' = DOMAIN documents \cup {Len(documents) + 1}
    BY <1>1, <1>3
  <1>6. Len(documents) + 1 \notin DOMAIN documents /\ Len(documents) + 1 # NoRow
    BY <1>1, <1>3 DEF NoRow
  <1> QED
    BY <1>1, <1>2, <1>3, <1>4, <1>5, <1>6 DEF NewRow

LEMMA StoreEffect ==
    ASSUME Types, NEW r \in Requests, StoreRawCapture(r)
    PROVE  Types' /\ Stores(r)
  <1> DEFINE x == request[r]
             key == Pending(x.body)
             new == RowsUnder(key) = {}
             row == [key |-> key, raw |-> x.body, status |-> "failed", note |-> "unjudged"]
             d == IF new THEN Len(documents) + 1 ELSE x.found
             next == "Record Capture Provenance"
             y == Stored(x, next, d)
  <1>1. x \in Held /\ next \in Places /\ x.at = "storing"
    BY DEF Types, Places, Stages, StoreRawCapture
  <1>2. row \in DocRow
    <2>1. x.body \in Bodies
      BY <1>1 DEF Held
    <2> QED
      BY <2>1, NewDocument, Zenon
  <1>3. x.found \in {NoRow} \cup DOMAIN documents /\ Len(documents) \in Nat /\ x.found \in Nat
    <2>1. x.found \in Nat
      BY <1>1 DEF Held
    <2>2. x.found \in {NoRow} \cup DOMAIN documents
      BY DEF Types
    <2>3. Len(documents) \in Nat
      BY DEF Types
    <2> QED
      BY <2>1, <2>2, <2>3
  <1>4. d \in Nat
    BY <1>3
  <1>5. /\ documents' = IF new THEN Append(documents, row) ELSE documents
        /\ Only(r, y)
        /\ UNCHANGED <<source, config, findings, runs>>
    BY DEF StoreRawCapture, Stored, next
  <1>6. new <=> RowUnder(key) = NoRow
    BY LookedUp DEF Types
  <1>7. row.key = key /\ row.raw = x.body
    OBVIOUS
  <1> HIDE DEF d, row, next
  <1>8. /\ y \in Held
        /\ y.at = next /\ y.body = x.body /\ y.config = x.config
        /\ y.found = x.found /\ y.document = d /\ y.promoted = x.promoted
    BY <1>1, <1>4, RowStores
  <1> HIDE DEF y
  <1>9. /\ source' \in Health /\ config' \in Configs
        /\ runs' \in [Requests -> {"none", "ok", "partial", "failed"}]
    BY <1>5 DEF Types
  <1>10. CASE new
    <2>1. documents' = Append(documents, row) /\ d = Len(documents) + 1
      BY <1>5, <1>10 DEF d
    <2>2. /\ documents' \in Seq(DocRow)
          /\ DOMAIN documents \subseteq DOMAIN documents'
          /\ NewRow(key, x.body)
          /\ d \in DOMAIN documents'
      BY <1>2, <1>7, <2>1, Appended
    <2>3. /\ y.found \in {NoRow} \cup DOMAIN documents'
          /\ y.document \in {NoRow} \cup DOMAIN documents'
          /\ findings' \subseteq Requests \X DOMAIN documents'
      BY <1>3, <1>5, <1>8, <2>2 DEF Types
    <2>4. Types' /\ request'[r] = y /\ OthersKept(r)
      BY <1>5, <1>8, <1>9, <2>2, <2>3, TypesAfter
    <2> QED
      BY <1>1, <1>6, <1>8, <1>10, <2>1, <2>2, <2>4 DEF Stores, Moving, next
  <1>11. CASE ~ new
    <2>1. UNCHANGED documents /\ d = x.found
      BY <1>5, <1>11 DEF d
    <2>2. UNCHANGED <<source, config, documents, findings, runs>>
      BY <1>5, <2>1
    <2>3. /\ y.found \in {NoRow} \cup DOMAIN documents
          /\ y.document \in {NoRow} \cup DOMAIN documents
      BY <1>3, <1>8, <2>1
    <2>4. Types' /\ request'[r] = y /\ OthersKept(r) /\ SameRows
      BY <1>5, <1>8, <2>2, <2>3, TypesKept
    <2> QED
      BY <1>1, <1>6, <1>8, <1>11, <2>1, <2>4 DEF Stores, Moving, next
  <1> QED
    BY <1>10, <1>11

\* A row written over.
LEMMA Rewritten ==
    ASSUME Types, NEW d \in DOMAIN documents, NEW row \in DocRow,
           documents' = [documents EXCEPT ![d] = row]
    PROVE  /\ documents' \in Seq(DocRow)
           /\ DOMAIN documents' = DOMAIN documents
           /\ documents'[d] = row
           /\ \A e \in DOMAIN documents \ {d} : documents'[e] = documents[e]
  BY DEF Types

LEMMA RewrittenAlike ==
    ASSUME Types, NEW d \in DOMAIN documents, NEW row \in DocRow,
           documents' = [documents EXCEPT ![d] = row],
           row.key = documents[d].key
    PROVE  documents' \in Seq(DocRow) /\ SameRows
  <1>1. /\ documents' \in Seq(DocRow)
        /\ DOMAIN documents' = DOMAIN documents
        /\ documents'[d] = row
        /\ \A e \in DOMAIN documents \ {d} : documents'[e] = documents[e]
    BY Rewritten
  <1> QED
    BY <1>1 DEF SameRows

Noted(row, n) == [row EXCEPT !.note = n]
Recorded(row, w, n) == [row EXCEPT !.raw = w, !.note = n]
Ruled(row, st, n) == [row EXCEPT !.status = st, !.note = n]
Rekeyed(row, k, st, n) == [row EXCEPT !.key = k, !.status = st, !.note = n]

LEMMA RowNoted ==
    ASSUME NEW row \in DocRow, NEW n \in Notes
    PROVE  /\ Noted(row, n) \in DocRow
           /\ Noted(row, n).key = row.key /\ Noted(row, n).raw = row.raw
  BY DEF DocRow, Noted

LEMMA RowRecorded ==
    ASSUME NEW row \in DocRow, NEW w \in Envelopes, NEW n \in Notes
    PROVE  /\ Recorded(row, w, n) \in DocRow
           /\ Recorded(row, w, n).key = row.key /\ Recorded(row, w, n).raw = w
  <1> DEFINE y == Recorded(row, w, n)
  <1>1. y.key = row.key /\ y.raw = w /\ y.status = row.status /\ y.note = n
    BY DEF DocRow, Recorded
  <1>2. /\ DOMAIN y = {"key", "raw", "status", "note"}
        /\ y = [i \in DOMAIN y |-> y[i]]
    BY DEF DocRow, Recorded
  <1>3. row.key \in Keys /\ row.status \in {"ok", "failed"}
    BY DEF DocRow
  <1> HIDE DEF y
  <1>4. y = [key |-> row.key, raw |-> w, status |-> row.status, note |-> n]
    BY <1>1, <1>2
  <1>5. y \in DocRow
    BY <1>3, <1>4 DEF DocRow
  <1> QED
    BY <1>1, <1>5 DEF y

LEMMA RowRuled ==
    ASSUME NEW row \in DocRow, NEW st \in {"ok", "failed"}, NEW n \in Notes
    PROVE  /\ Ruled(row, st, n) \in DocRow
           /\ Ruled(row, st, n).key = row.key /\ Ruled(row, st, n).raw = row.raw
  <1> DEFINE y == Ruled(row, st, n)
  <1>1. y.key = row.key /\ y.raw = row.raw /\ y.status = st /\ y.note = n
    BY DEF DocRow, Ruled
  <1>2. /\ DOMAIN y = {"key", "raw", "status", "note"}
        /\ y = [i \in DOMAIN y |-> y[i]]
    BY DEF DocRow, Ruled
  <1>3. row.key \in Keys /\ row.raw \in Bodies \cup Contents \cup Envelopes
    BY DEF DocRow
  <1> HIDE DEF y
  <1>4. y = [key |-> row.key, raw |-> row.raw, status |-> st, note |-> n]
    BY <1>1, <1>2
  <1>5. y \in DocRow
    BY <1>3, <1>4 DEF DocRow
  <1> QED
    BY <1>1, <1>5 DEF y

LEMMA RowRekeyed ==
    ASSUME NEW row \in DocRow, NEW k \in Keys, NEW st \in {"ok", "failed"}, NEW n \in Notes
    PROVE  /\ Rekeyed(row, k, st, n) \in DocRow
           /\ Rekeyed(row, k, st, n).key = k /\ Rekeyed(row, k, st, n).raw = row.raw
  <1> DEFINE y == Rekeyed(row, k, st, n)
  <1>1. y.key = k /\ y.raw = row.raw /\ y.status = st /\ y.note = n
    BY DEF DocRow, Rekeyed
  <1>2. /\ DOMAIN y = {"key", "raw", "status", "note"}
        /\ y = [i \in DOMAIN y |-> y[i]]
    BY DEF DocRow, Rekeyed
  <1>3. row.raw \in Bodies \cup Contents \cup Envelopes
    BY DEF DocRow
  <1> HIDE DEF y
  <1>4. y = [key |-> k, raw |-> row.raw, status |-> st, note |-> n]
    BY <1>1, <1>2
  <1>5. y \in DocRow
    BY <1>3, <1>4 DEF DocRow
  <1> QED
    BY <1>1, <1>5 DEF y

\* What is recorded of a row keeps its key, and its material but for an accepted
\* envelope, which replaces it.
LEMMA ProvenanceRules ==
    ASSUME NEW r \in Requests, NEW row \in DocRow
    PROVE  /\ Provenance(r, row) \in DocRow
           /\ Provenance(r, row).key = row.key
           /\ \/ Provenance(r, row).raw = row.raw
              \/ /\ request[r].body \in Accepted
                 /\ Provenance(r, row).raw = Envelope[request[r].body]
  <1>1. CASE request[r].body \in Accepted
    <2>1. PICK w \in Envelopes : w = Envelope[request[r].body]
      BY <1>1 DEF Envelopes
    <2>2. PICK n \in Notes : n = "accepted"
      BY DEF Notes
    <2>3. Provenance(r, row) = Recorded(row, w, n)
      BY <1>1, <2>1, <2>2, Zenon DEF Provenance, Recorded
    <2> QED
      BY <1>1, <2>1, <2>3, RowRecorded
  <1>2. CASE request[r].body \notin Accepted
    <2>1. PICK n \in Notes : n = "refused"
      BY DEF Notes
    <2>2. Provenance(r, row) = Noted(row, n)
      BY <1>2, <2>1, Zenon DEF Provenance, Noted
    <2> QED
      BY <2>2, RowNoted
  <1> QED
    BY <1>1, <1>2

LEMMA RecordEffect ==
    ASSUME Types, NEW r \in Requests, RecordCaptureProvenance(r)
    PROVE  Types' /\ Advances(r)
  <1> DEFINE x == request[r]
             d == x.document
             row == Provenance(r, documents[d])
             next == "Promote Capture Document"
             y == AtPlace(x, next)
  <1>1. x \in Held /\ next \in Places /\ x.at = "Record Capture Provenance"
    BY DEF Types, Places, Stages, RecordCaptureProvenance
  <1>2. /\ x.found \in {NoRow} \cup DOMAIN documents
        /\ d \in {NoRow} \cup DOMAIN documents
    BY DEF Types
  <1>3. /\ Only(r, y)
        /\ UNCHANGED <<source, config, findings, runs>>
        /\ documents' = IF d = NoRow THEN documents ELSE [documents EXCEPT ![d] = row]
    BY DEF RecordCaptureProvenance, AtPlace
  <1>4. d # NoRow => /\ d \in DOMAIN documents /\ row \in DocRow
                     /\ row.key = documents[d].key
    <2> SUFFICES ASSUME d # NoRow
                 PROVE  d \in DOMAIN documents /\ row \in DocRow /\ row.key = documents[d].key
      OBVIOUS
    <2>1. d \in DOMAIN documents /\ documents[d] \in DocRow
      BY <1>2 DEF Types
    <2> QED
      BY <2>1, ProvenanceRules
  <1> HIDE DEF row, next
  <1>5. /\ y \in Held /\ y.at = next /\ y.body = x.body /\ y.config = x.config /\ y.found = x.found
        /\ y.document = x.document /\ y.promoted = x.promoted
    BY <1>1, RowMoves
  <1> HIDE DEF y
  <1>6. documents' \in Seq(DocRow) /\ SameRows
    <2>1. CASE d = NoRow
      BY <1>3, <2>1 DEF Types, SameRows
    <2>2. CASE d # NoRow
      <3>1. documents' = [documents EXCEPT ![d] = row]
        BY <1>3, <2>2
      <3> QED
        BY <1>4, <2>2, <3>1, RewrittenAlike
    <2> QED
      BY <2>1, <2>2
  <1>7. DOMAIN documents' = DOMAIN documents
    BY <1>6 DEF SameRows
  <1>8. /\ source' \in Health /\ config' \in Configs
        /\ runs' \in [Requests -> {"none", "ok", "partial", "failed"}]
        /\ findings' \subseteq Requests \X DOMAIN documents'
    BY <1>3, <1>7 DEF Types
  <1>9. Types' /\ request'[r] = y /\ OthersKept(r)
    BY <1>2, <1>3, <1>5, <1>6, <1>7, <1>8, TypesAfter
  <1> QED
    BY <1>1, <1>5, <1>6, <1>9 DEF Advances, SameClaim, Moving, next

\* The account of a row keeps its key and its payload.
LEMMA AccountRules ==
    ASSUME NEW r \in Requests, NEW row \in DocRow
    PROVE  /\ Account(r, row) \in DocRow
           /\ Account(r, row).key = row.key /\ Account(r, row).raw = row.raw
  <1>1. PICK st \in {"ok", "failed"} : st = "failed"
    OBVIOUS
  <1>2. PICK n \in Notes : n = IF Read(r) = Unreadable THEN "unreadable" ELSE "repeat"
    BY DEF Notes
  <1>3. Account(r, row) = Ruled(row, st, n)
    BY <1>1, <1>2, Zenon DEF Account, Ruled
  <1> QED
    BY <1>3, RowRuled

LEMMA PromoteEffect ==
    ASSUME Types, NEW r \in Requests, PromoteCaptureDocument(r)
    PROVE  Types' /\ Promotes(r)
  <1> DEFINE x == request[r]
             d == x.document
             c == Read(r)
             taken == RowUnder(Content(c)) \notin {NoRow, d}
  <1>1. x \in Held /\ x.at = "promoting"
    BY DEF Types, PromoteCaptureDocument
  <1>2. /\ x.found \in {NoRow} \cup DOMAIN documents
        /\ d \in {NoRow} \cup DOMAIN documents
    BY DEF Types
  <1>3. UNCHANGED <<source, config, findings, runs>>
    BY DEF PromoteCaptureDocument
  <1>4. CASE Moves(r) /\ taken
    <2> DEFINE next == "raised"
               y == AtPlace(x, next)
    <2>1. Only(r, y) /\ UNCHANGED documents
      BY <1>4 DEF PromoteCaptureDocument, AtPlace
    <2>2. next \in Places
      BY DEF Places, Ended
    <2> HIDE DEF next
    <2>3. /\ y \in Held /\ y.at = next /\ y.body = x.body /\ y.config = x.config
          /\ y.found = x.found /\ y.document = x.document /\ y.promoted = x.promoted
      BY <1>1, <2>2, RowMoves
    <2> HIDE DEF y
    <2>4. UNCHANGED <<source, config, documents, findings, runs>>
      BY <1>3, <2>1
    <2>5. Types' /\ request'[r] = y /\ OthersKept(r) /\ SameRows
      BY <1>2, <2>1, <2>3, <2>4, TypesKept
    <2> QED
      BY <1>1, <1>4, <2>1, <2>3, <2>5 DEF Promotes, SameRaws, next
  <1>5. CASE ~ (Moves(r) /\ taken)
    <2> DEFINE next == "Write Capture Finding"
               y == Settled(x, next, Moves(r))
               row == IF Moves(r)
                      THEN Rekeyed(documents[d], Content(c),
                                   IF ParsedOk(r) THEN "ok" ELSE "failed",
                                   IF ParsedOk(r) THEN "none" ELSE "diverges")
                      ELSE Account(r, documents[d])
    <2>1. Only(r, y)
      BY <1>5 DEF PromoteCaptureDocument, Settled
    <2>2. next \in Places /\ Moves(r) \in BOOLEAN
      BY DEF Places, Stages, Moves, HasRecord
    <2> HIDE DEF next
    <2>3. /\ y \in Held /\ y.at = next /\ y.body = x.body /\ y.config = x.config
          /\ y.found = x.found /\ y.document = x.document /\ y.promoted = Moves(r)
      BY <1>1, <2>2, RowSettles
    <2> HIDE DEF y
    <2>4. CASE ~ HasRecord(r)
      <3>1. UNCHANGED documents /\ ~ Moves(r)
        BY <1>5, <2>4 DEF PromoteCaptureDocument, Moves
      <3>2. UNCHANGED <<source, config, documents, findings, runs>>
        BY <1>3, <3>1
      <3>3. Types' /\ request'[r] = y /\ OthersKept(r) /\ SameRows
        BY <1>2, <2>1, <2>3, <3>2, TypesKept
      <3>4. Moves(r) = FALSE
        BY <2>2, <3>1
      <3> QED
        BY <1>1, <2>3, <2>4, <3>1, <3>3, <3>4 DEF Promotes, SameRaws, next
    <2>5. CASE HasRecord(r)
      <3>1. d \in DOMAIN documents /\ documents[d] \in DocRow
        BY <1>2, <2>5 DEF Types, HasRecord
      <3>2. documents' = [documents EXCEPT ![d] = row]
        BY <1>5, <2>5 DEF PromoteCaptureDocument, Rekeyed
      <3>3. /\ row \in DocRow /\ row.raw = documents[d].raw
            /\ row.key = IF Moves(r) THEN Content(c) ELSE documents[d].key
        <4>1. CASE Moves(r)
          <5>1. Content(c) \in Keys
            BY <4>1, ReadIsContent DEF Moves
          <5>2. PICK st \in {"ok", "failed"} : st = IF ParsedOk(r) THEN "ok" ELSE "failed"
            OBVIOUS
          <5>3. PICK n \in Notes : n = IF ParsedOk(r) THEN "none" ELSE "diverges"
            BY DEF Notes
          <5>4. row = Rekeyed(documents[d], Content(c), st, n)
            BY <4>1, <5>2, <5>3
          <5> HIDE DEF row, c, d
          <5> QED
            BY <3>1, <4>1, <5>1, <5>4, RowRekeyed
        <4>2. CASE ~ Moves(r)
          <5>1. row = Account(r, documents[d])
            BY <4>2
          <5> HIDE DEF row, d
          <5> QED
            BY <3>1, <4>2, <5>1, AccountRules
        <4> QED
          BY <4>1, <4>2
      <3> HIDE DEF row
      <3>4. /\ documents' \in Seq(DocRow)
            /\ DOMAIN documents' = DOMAIN documents
            /\ documents'[d] = row
            /\ \A e \in DOMAIN documents \ {d} : documents'[e] = documents[e]
        BY <3>1, <3>2, <3>3, Rewritten
      <3>5. /\ source' \in Health /\ config' \in Configs
            /\ runs' \in [Requests -> {"none", "ok", "partial", "failed"}]
            /\ findings' \subseteq Requests \X DOMAIN documents'
        BY <1>3, <3>4 DEF Types
      <3>6. Types' /\ request'[r] = y /\ OthersKept(r)
        BY <1>2, <2>1, <2>3, <3>4, <3>5, TypesAfter
      <3>7. CASE Moves(r)
        <4>1. ~ taken /\ HasRecord(r) /\ c # Unreadable
          BY <1>5, <3>7 DEF Moves
        <4> QED
          BY <1>1, <2>3, <3>3, <3>4, <3>6, <3>7, <4>1 DEF Promotes, next
      <3>8. CASE ~ Moves(r)
        <4>1. SameRows /\ SameRaws
          BY <3>3, <3>4, <3>8 DEF SameRows, SameRaws
        <4>2. HasRecord(r) /\ c # Unreadable => x.found # NoRow
          BY <3>8 DEF Moves
        <4>3. Moves(r) = FALSE
          BY <2>2, <3>8
        <4> QED
          BY <1>1, <2>3, <3>6, <4>1, <4>2, <4>3 DEF Promotes, next
      <3> QED
        BY <3>7, <3>8
    <2> QED
      BY <2>4, <2>5
  <1> QED
    BY <1>4, <1>5

LEMMA FindingEffect ==
    ASSUME Types, NEW r \in Requests, WriteCaptureFinding(r),
           request[r].promoted => request[r].document # NoRow
    PROVE  Types' /\ Advances(r)
  <1> DEFINE x == request[r]
             next == "Apply Capture Health"
             y == AtPlace(x, next)
  <1>1. x \in Held /\ next \in Places /\ x.at = "Write Capture Finding"
    BY DEF Types, Places, Stages, WriteCaptureFinding
  <1>2. /\ x.found \in {NoRow} \cup DOMAIN documents
        /\ x.document \in {NoRow} \cup DOMAIN documents
    BY DEF Types
  <1>3. Only(r, y) /\ UNCHANGED <<source, config, documents, runs>>
    BY DEF WriteCaptureFinding, AtPlace
  <1> HIDE DEF next
  <1>4. /\ y \in Held /\ y.at = next /\ y.body = x.body /\ y.config = x.config /\ y.found = x.found
        /\ y.document = x.document /\ y.promoted = x.promoted
    BY <1>1, RowMoves
  <1> HIDE DEF y
  <1>5. findings' \subseteq Requests \X DOMAIN documents'
    <2>1. CASE request[r].promoted
      <3>1. findings' \subseteq findings \cup {<<r, x.document>>}
        BY DEF WriteCaptureFinding
      <3> QED
        BY <1>2, <1>3, <2>1, <3>1 DEF Types
    <2>2. CASE ~ request[r].promoted
      <3>1. findings' = findings
        BY <2>2 DEF WriteCaptureFinding
      <3> QED
        BY <1>3, <3>1 DEF Types
    <2> QED
      BY <2>1, <2>2
  <1>6. Types' /\ request'[r] = y /\ OthersKept(r)
    BY <1>2, <1>3, <1>4, <1>5, TypesAfter DEF Types
  <1> QED
    BY <1>1, <1>3, <1>4, <1>6 DEF Advances, SameClaim, SameRows, Moving, next

LEMMA HealthEffect ==
    ASSUME Types, NEW r \in Requests, ApplyCaptureHealth(r)
    PROVE  Types' /\ Advances(r)
  <1> DEFINE x == request[r]
             next == "Close Capture Run"
             y == AtPlace(x, next)
  <1>1. x \in Held /\ next \in Places /\ x.at = "Apply Capture Health"
    BY DEF Types, Places, Stages, ApplyCaptureHealth
  <1>2. /\ x.found \in {NoRow} \cup DOMAIN documents
        /\ x.document \in {NoRow} \cup DOMAIN documents
    BY DEF Types
  <1>3. Only(r, y) /\ UNCHANGED <<config, documents, findings, runs>>
    BY DEF ApplyCaptureHealth, AtPlace
  <1> HIDE DEF next
  <1>4. /\ y \in Held /\ y.at = next /\ y.body = x.body /\ y.config = x.config /\ y.found = x.found
        /\ y.document = x.document /\ y.promoted = x.promoted
    BY <1>1, RowMoves
  <1> HIDE DEF y
  <1>5. source' \in Health
    <2>1. x.seen \in Health /\ ParsedOk(r) \in BOOLEAN
      BY <1>1 DEF Held, ParsedOk, HasRecord
    <2> QED
      BY <2>1, JudgedIsHealth DEF ApplyCaptureHealth
  <1>6. Types' /\ request'[r] = y /\ OthersKept(r)
    BY <1>2, <1>3, <1>4, <1>5, TypesAfter DEF Types
  <1> QED
    BY <1>1, <1>3, <1>4, <1>6 DEF Advances, SameClaim, SameRows, Moving, next

LEMMA CloseEffect ==
    ASSUME Types, NEW r \in Requests, CloseCaptureRun(r)
    PROVE  Types' /\ Advances(r)
  <1> DEFINE x == request[r]
             next == "closed"
             y == AtPlace(x, next)
  <1>1. x \in Held /\ next \in Places /\ x.at = "Close Capture Run"
    BY DEF Types, Places, Ended, CloseCaptureRun
  <1>2. /\ x.found \in {NoRow} \cup DOMAIN documents
        /\ x.document \in {NoRow} \cup DOMAIN documents
    BY DEF Types
  <1>3. Only(r, y) /\ UNCHANGED <<source, config, documents, findings>>
    BY DEF CloseCaptureRun, AtPlace
  <1> HIDE DEF next
  <1>4. /\ y \in Held /\ y.at = next /\ y.body = x.body /\ y.config = x.config /\ y.found = x.found
        /\ y.document = x.document /\ y.promoted = x.promoted
    BY <1>1, RowMoves
  <1> HIDE DEF y
  <1>5. runs' \in [Requests -> {"none", "ok", "partial", "failed"}]
    BY DEF CloseCaptureRun, Types
  <1>6. Types' /\ request'[r] = y /\ OthersKept(r)
    BY <1>2, <1>3, <1>4, <1>5, TypesAfter DEF Types
  <1> QED
    BY <1>1, <1>3, <1>4, <1>6 DEF Advances, SameClaim, SameRows, Moving, next

LEMMA StopEffect ==
    ASSUME Types, NEW r \in Requests, RequestStops(r)
    PROVE  Types' /\ Advances(r)
  <1> DEFINE x == request[r]
             next == "stopped"
             y == AtPlace(x, next)
  <1>1. x \in Held /\ next \in Places /\ x.at \in Stages
    BY DEF Types, Places, Ended, RequestStops
  <1>2. /\ x.found \in {NoRow} \cup DOMAIN documents
        /\ x.document \in {NoRow} \cup DOMAIN documents
    BY DEF Types
  <1>3. Only(r, y) /\ UNCHANGED <<source, config, documents, findings, runs>>
    BY DEF RequestStops, AtPlace
  <1> HIDE DEF next
  <1>4. /\ y \in Held /\ y.at = next /\ y.body = x.body /\ y.config = x.config /\ y.found = x.found
        /\ y.document = x.document /\ y.promoted = x.promoted
    BY <1>1, RowMoves
  <1> HIDE DEF y
  <1>5. Types' /\ request'[r] = y /\ OthersKept(r) /\ SameRows
    BY <1>2, <1>3, <1>4, TypesKept
  <1> QED
    BY <1>1, <1>4, <1>5 DEF Advances, SameClaim, Moving, next

LEMMA PullEffect ==
    ASSUME Types, NEW c \in Pulled, IngestWrites(c)
    PROVE  Types' /\ RowUnder(Content(c)) = NoRow /\ NewRow(Content(c), c)
  <1> DEFINE row == [key |-> Content(c), raw |-> c, status |-> "ok", note |-> "none"]
  <1>1. row \in DocRow /\ row.key = Content(c) /\ row.raw = c
    BY NewDocument
  <1>2. documents' = Append(documents, row) /\ UNCHANGED <<source, config, findings, runs, request>>
    BY DEF IngestWrites
  <1> HIDE DEF row
  <1>3. /\ documents' \in Seq(DocRow)
        /\ DOMAIN documents \subseteq DOMAIN documents'
        /\ NewRow(Content(c), c)
    BY <1>1, <1>2, Appended
  <1>4. Types'
    BY <1>2, <1>3 DEF Types
  <1>5. RowUnder(Content(c)) = NoRow
    BY LookedUp DEF IngestWrites, Types
  <1> QED
    BY <1>3, <1>4, <1>5

\* Every step is one of these.
Steps ==
    \/ \E r \in Requests : Advances(r) \/ Stores(r) \/ Promotes(r)
    \/ \E c \in Pulled : /\ RowUnder(Content(c)) = NoRow
                         /\ NewRow(Content(c), c) /\ UNCHANGED request
    \/ SameRows /\ UNCHANGED request

\* What a step adds to the findings, and says of a run.
Reports ==
    /\ findings' \subseteq findings \cup
            {<<r, request[r].document>> :
                r \in {q \in Requests : request[q].promoted}}
    /\ \A r \in Requests :
        \/ runs'[r] = runs[r]
        \/ /\ request'[r].at = "closed"
           /\ runs'[r] = "failed" => request[r].document = NoRow \/ ~ ParsedOk(r)

LEMMA StepsAreSteps ==
    ASSUME Types, \A r \in Requests : request[r].promoted => request[r].document # NoRow,
           [Next]_vars
    PROVE  Types' /\ Steps
  <1>1. CASE UNCHANGED vars
    BY <1>1 DEF vars, Types, Steps, SameRows
  <1>2. ASSUME NEW r \in Requests, RequestStep(r) \/ RequestStops(r)
        PROVE  Types' /\ (Advances(r) \/ Stores(r) \/ Promotes(r))
    BY <1>2, LoadEffect, BeginStoreEffect, StoreEffect, RecordEffect, BeginPromotionEffect,
       PromoteEffect, FindingEffect, HealthEffect, CloseEffect, StopEffect, Zenon
       DEF RequestStep
  <1>3. ASSUME NEW c \in Pulled, IngestWrites(c)
        PROVE  Types' /\ RowUnder(Content(c)) = NoRow /\ NewRow(Content(c), c) /\ UNCHANGED request
    BY <1>3, PullEffect DEF IngestWrites
  <1>4. CASE ConfigChanges
    BY <1>4 DEF ConfigChanges, Types, Steps, SameRows
  <1> QED
    BY <1>1, <1>2, <1>3, <1>4, Zenon DEF Next, Steps

LEMMA StepsReport ==
    ASSUME Types, [Next]_vars
    PROVE  Reports
  <1>1. CASE UNCHANGED <<findings, runs>>
    BY <1>1 DEF Reports
  <1>2. ASSUME NEW r \in Requests, WriteCaptureFinding(r)
        PROVE  Reports
    <2>1. findings' \subseteq findings \cup
                {<<q, request[q].document>> : q \in {p \in Requests : request[p].promoted}}
      BY <1>2 DEF WriteCaptureFinding
    <2>2. UNCHANGED runs
      BY <1>2 DEF WriteCaptureFinding
    <2> QED
      BY <2>1, <2>2 DEF Reports
  <1>3. ASSUME NEW r \in Requests, CloseCaptureRun(r)
        PROVE  Reports
    <2>1. request'[r].at = "closed" /\ UNCHANGED findings
      <3>1. request' = [request EXCEPT ![r] = AtPlace(request[r], "closed")]
        BY <1>3 DEF CloseCaptureRun, Only, AtPlace
      <3>2. request[r] \in Held /\ "closed" \in Places
        BY DEF Types, Places, Ended
      <3>3. AtPlace(request[r], "closed").at = "closed"
        BY <3>2, RowMoves, Zenon
      <3>4. request'[r] = AtPlace(request[r], "closed")
        BY <3>1 DEF Types
      <3> QED
        BY <1>3, <3>3, <3>4 DEF CloseCaptureRun
    <2>2. PICK scoringFailed \in BOOLEAN :
            runs' = [runs EXCEPT ![r] =
                IF request[r].document = NoRow \/ (~ ParsedOk(r) /\ ~ request[r].promoted)
                THEN "failed"
                ELSE IF ~ ParsedOk(r) \/ scoringFailed THEN "partial" ELSE "ok"]
      BY <1>3 DEF CloseCaptureRun
    <2>3. /\ \A q \in Requests \ {r} : runs'[q] = runs[q]
          /\ runs'[r] = "failed" => request[r].document = NoRow \/ ~ ParsedOk(r)
      BY <2>2 DEF Types
    <2> QED
      BY <2>1, <2>3 DEF Reports
  <1>4. CASE UNCHANGED vars
    BY <1>1, <1>4 DEF vars
  <1>5. ASSUME NEW r \in Requests, RequestStep(r)
        PROVE  Reports
    BY <1>1, <1>2, <1>3, <1>5 DEF RequestStep, LoadDomainContext, BeginStore, StoreRawCapture,
       RecordCaptureProvenance, BeginPromotion, PromoteCaptureDocument, ApplyCaptureHealth
  <1>6. ASSUME NEW r \in Requests, RequestStops(r)
        PROVE  Reports
    BY <1>1, <1>6 DEF RequestStops
  <1>7. ASSUME NEW c \in Pulled, IngestWrites(c)
        PROVE  Reports
    BY <1>1, <1>7 DEF IngestWrites
  <1>8. CASE ConfigChanges
    BY <1>1, <1>8 DEF ConfigChanges
  <1> QED
    BY <1>4, <1>5, <1>6, <1>7, <1>8, Zenon DEF Next

\* What is written over the material of a row: the envelope of one that holds it.
RawWrites ==
    \A d \in DOMAIN documents :
        \/ documents'[d].raw = documents[d].raw
        \/ \E r \in Requests : /\ request[r].document = d /\ request[r].body \in Accepted
                               /\ documents'[d].raw = Envelope[request[r].body]

LEMMA StepsWriteRaws ==
    ASSUME Types, [Next]_vars
    PROVE  RawWrites
  <1>1. CASE UNCHANGED documents
    BY <1>1 DEF RawWrites
  <1>2. ASSUME NEW row \in DocRow, documents' = Append(documents, row)
        PROVE  RawWrites
    <2>1. NewRow(row.key, row.raw)
      BY <1>2, Appended
    <2> QED
      BY <2>1 DEF NewRow, RawWrites
  <1>3. ASSUME NEW r \in Requests, StoreRawCapture(r)
        PROVE  RawWrites
    <2> DEFINE row == [key |-> Pending(request[r].body), raw |-> request[r].body,
                       status |-> "failed", note |-> "unjudged"]
    <2>1. documents' \in {documents, Append(documents, row)}
      BY <1>3 DEF StoreRawCapture
    <2>2. request[r].body \in Bodies
      BY DEF Types, Held
    <2>3. row \in DocRow
      BY <2>2, NewDocument, Zenon
    <2> HIDE DEF row
    <2> QED
      BY <1>1, <1>2, <2>1, <2>3
  <1>4. ASSUME NEW r \in Requests, RecordCaptureProvenance(r)
        PROVE  RawWrites
    <2> DEFINE d == request[r].document
               row == Provenance(r, documents[d])
    <2>1. documents' = IF d = NoRow THEN documents ELSE [documents EXCEPT ![d] = row]
      BY <1>4 DEF RecordCaptureProvenance
    <2>2. CASE d # NoRow
      <3>1. d \in DOMAIN documents /\ documents[d] \in DocRow
        BY <2>2 DEF Types
      <3>2. /\ row \in DocRow
            /\ \/ row.raw = documents[d].raw
               \/ /\ request[r].body \in Accepted
                  /\ row.raw = Envelope[request[r].body]
        BY <3>1, ProvenanceRules
      <3>3. documents' = [documents EXCEPT ![d] = row]
        BY <2>1, <2>2
      <3> HIDE DEF row
      <3>4. /\ documents'[d] = row
            /\ \A e \in DOMAIN documents \ {d} : documents'[e] = documents[e]
        BY <3>1, <3>2, <3>3, Rewritten
      <3> QED
        BY <3>2, <3>4 DEF RawWrites
    <2> QED
      BY <1>1, <2>1, <2>2
  <1>5. ASSUME NEW r \in Requests, PromoteCaptureDocument(r)
        PROVE  RawWrites
    <2>1. Promotes(r)
      BY <1>5, PromoteEffect
    <2>2. SameRaws
      <3> SUFFICES ASSUME NEW d \in DOMAIN documents
                   PROVE  documents'[d].raw = documents[d].raw
        BY DEF SameRaws
      <3> QED
        BY <2>1 DEF Promotes, SameRaws
    <2> QED
      BY <2>2 DEF RawWrites, SameRaws
  <1>6. ASSUME NEW c \in Pulled, IngestWrites(c)
        PROVE  RawWrites
    <2>1. NewRow(Content(c), c)
      BY <1>6, PullEffect
    <2> QED
      BY <2>1 DEF NewRow, RawWrites
  <1>7. ASSUME NEW r \in Requests, RequestStep(r)
        PROVE  RawWrites
    BY <1>1, <1>3, <1>4, <1>5, <1>7 DEF RequestStep, LoadDomainContext, BeginStore,
       BeginPromotion, WriteCaptureFinding, ApplyCaptureHealth, CloseCaptureRun
  <1>8. ASSUME NEW r \in Requests, RequestStops(r)
        PROVE  RawWrites
    BY <1>1, <1>8 DEF RequestStops
  <1>9. CASE ConfigChanges
    BY <1>1, <1>9 DEF ConfigChanges
  <1>10. CASE UNCHANGED vars
    BY <1>1, <1>10 DEF vars
  <1> QED
    BY <1>6, <1>7, <1>8, <1>9, <1>10, Zenon DEF Next

-----------------------------------------------------------------------------
(* What a request holds at each place, and keeps.                          *)

Unstored == {"Load Domain Context", "Store Raw Capture", "storing"}
Filing == {"Write Capture Finding", "Apply Capture Health", "Close Capture Run", "closed"}

\* A request holds a row only once it has stored, has promoted it only where
\* there was a reading, and closes its run last.
Claims(r) ==
    /\ request[r].document # NoRow => request[r].at \notin Unstored
    /\ request[r].promoted => /\ request[r].at \in Filing \cup {"stopped"}
                              /\ HasRecord(r) /\ Read(r) # Unreadable
    /\ runs[r] # "none" => request[r].at = "closed"
    /\ runs[r] = "failed" => request[r].document = NoRow \/ ~ ParsedOk(r)

Holdings ==
    /\ \A r \in Requests : Claims(r)
    /\ \A f \in findings : request[f[1]].promoted /\ f[2] = request[f[1]].document

\* A row and a promotion are held for good, with the reading they rest on.
Keeps(q) ==
    /\ request'[q].body = request[q].body
    /\ request[q].document # NoRow => /\ request'[q].document = request[q].document
                                      /\ request'[q].config = request[q].config
    /\ request[q].promoted => request'[q].promoted
    /\ request[q].at \in Ended => request'[q] = request[q]

LEMMA PlacesApart ==
    /\ \A a \in Unstored : a \notin Filing \cup Ended
    /\ Stages \cap Ended = {}
    /\ "promoting" \notin Filing \cup Ended \cup Unstored
    /\ "Record Capture Provenance" \notin Unstored
  BY DEF Unstored, Filing, Ended, Stages

LEMMA ClaimsLast ==
    ASSUME Types, Holdings, Steps
    PROVE  \A q \in Requests : Keeps(q)
  <1> SUFFICES ASSUME NEW q \in Requests
               PROVE  Keeps(q)
    OBVIOUS
  <1>1. CASE request'[q] = request[q]
    BY <1>1 DEF Keeps
  <1>2. Claims(q)
    BY DEF Holdings
  <1>3. ASSUME NEW r \in Requests, Advances(r)
        PROVE  Keeps(q)
    <2>1. CASE q # r
      BY <1>1, <1>3, <2>1 DEF Advances, OthersKept
    <2>2. CASE q = r
      <3>1. request[q].at \notin Ended
        BY <1>3, <2>2 DEF Advances, Moving, Stages, Ended
      <3>2. request'[q].config = request[q].config \/ request[q].document = NoRow
        BY <1>2, <1>3, <2>2 DEF Advances, Moving, Claims, Unstored
      <3> QED
        BY <1>3, <2>2, <3>1, <3>2 DEF Advances, SameClaim, Keeps
    <2> QED
      BY <2>1, <2>2
  <1>4. ASSUME NEW r \in Requests, Stores(r)
        PROVE  Keeps(q)
    <2>1. CASE q # r
      BY <1>1, <1>4, <2>1 DEF Stores, OthersKept
    <2>2. CASE q = r
      <3>1. request[q].at = "storing" /\ request[q].at \notin Ended
        BY <1>4, <2>2 DEF Stores, Moving, Ended
      <3>2. request[q].document = NoRow
        BY <1>2, <3>1 DEF Claims, Unstored
      <3> QED
        BY <1>4, <2>2, <3>1, <3>2 DEF Stores, Keeps
    <2> QED
      BY <2>1, <2>2
  <1>5. ASSUME NEW r \in Requests, Promotes(r)
        PROVE  Keeps(q)
    <2>1. CASE q # r
      BY <1>1, <1>5, <2>1 DEF Promotes, OthersKept
    <2>2. CASE q = r
      <3>1. request[q].at = "promoting" /\ request[q].at \notin Ended
        BY <1>5, <2>2 DEF Promotes, Ended
      <3>2. ~ request[q].promoted
        BY <1>2, <3>1 DEF Claims, Filing
      <3> QED
        BY <1>5, <2>2, <3>1, <3>2 DEF Promotes, Keeps
    <2> QED
      BY <2>1, <2>2
  <1> QED
    BY <1>1, <1>3, <1>4, <1>5 DEF Steps

LEMMA OneMoves ==
    ASSUME Steps, NEW q \in Requests
    PROVE  request'[q] = request[q] \/ Advances(q) \/ Stores(q) \/ Promotes(q)
  <1>1. ASSUME NEW r \in Requests, Advances(r) \/ Stores(r) \/ Promotes(r), q # r
        PROVE  request'[q] = request[q]
    BY <1>1 DEF Advances, Stores, Promotes, OthersKept
  <1>2. CASE UNCHANGED request
    BY <1>2
  <1> QED
    BY <1>1, <1>2, Zenon DEF Steps

\* So a record and its reading last.
LEMMA ReadingLasts ==
    ASSUME NEW q \in Requests, Keeps(q)
    PROVE  /\ HasRecord(q) => HasRecord(q)' /\ Read(q)' = Read(q)
           /\ request[q].document # NoRow => Read(q)' = Read(q) /\ (ParsedOk(q)' <=> ParsedOk(q))
  BY DEF Keeps, HasRecord, Read, ParsedOk

LEMMA ClaimsHold ==
    ASSUME Types, Holdings, Types', Steps, Reports
    PROVE  Holdings'
  <1>1. ASSUME NEW q \in Requests
        PROVE  Claims(q)'
    <2>1. Claims(q) /\ Keeps(q)
      BY ClaimsLast DEF Holdings
    <2>2. /\ request'[q].document # NoRow => request'[q].at \notin Unstored
          /\ request'[q].promoted => /\ request'[q].at \in Filing \cup {"stopped"}
                                     /\ HasRecord(q)' /\ Read(q)' # Unreadable
      <3>1. CASE request'[q] = request[q]
        BY <2>1, <3>1 DEF Claims, HasRecord, Read
      <3>2. ASSUME NEW r \in Requests, Advances(r), q = r
            PROVE  /\ request'[q].document # NoRow => request'[q].at \notin Unstored
                   /\ request'[q].promoted => /\ request'[q].at \in Filing \cup {"stopped"}
                                              /\ HasRecord(q)' /\ Read(q)' # Unreadable
        <4>1. request'[q].document # NoRow => request'[q].at \notin Unstored
          BY <2>1, <3>2 DEF Advances, SameClaim, Moving, Claims, Unstored
        <4>2. request'[q].promoted => /\ request[q].promoted /\ HasRecord(q)
                                      /\ request'[q].at \in Filing \cup {"stopped"}
          BY <2>1, <3>2 DEF Advances, SameClaim, Moving, Claims, Filing
        <4>3. request'[q].promoted => HasRecord(q)' /\ Read(q)' # Unreadable
          BY <2>1, <4>2, ReadingLasts DEF Claims
        <4> QED
          BY <4>1, <4>2, <4>3
      <3>3. ASSUME NEW r \in Requests, Stores(r), q = r
            PROVE  /\ request'[q].document # NoRow => request'[q].at \notin Unstored
                   /\ ~ request'[q].promoted
        <4>1. ~ request[q].promoted
          BY <2>1, <3>3 DEF Stores, Moving, Claims, Filing
        <4> QED
          BY <3>3, <4>1 DEF Stores, Moving, Unstored
      <3>4. ASSUME NEW r \in Requests, Promotes(r), q = r
            PROVE  /\ request'[q].document # NoRow => request'[q].at \notin Unstored
                   /\ request'[q].promoted => /\ request'[q].at \in Filing \cup {"stopped"}
                                              /\ HasRecord(q)' /\ Read(q)' # Unreadable
        <4>1. ~ request[q].promoted
          BY <2>1, <3>4 DEF Promotes, Claims, Filing
        <4>2. request'[q].promoted => /\ request'[q].at = "Write Capture Finding"
                                      /\ HasRecord(q) /\ Read(q) # Unreadable
          BY <3>4, <4>1 DEF Promotes
        <4>3. request'[q].at \notin Unstored
          BY <3>4 DEF Promotes, Unstored
        <4> QED
          BY <2>1, <4>2, <4>3, ReadingLasts DEF Filing
      <3>5. \/ request'[q] = request[q]
            \/ Advances(q) \/ Stores(q) \/ Promotes(q)
        BY OneMoves
      <3> QED
        BY <3>1, <3>2, <3>3, <3>4, <3>5
    <2>3. CASE runs'[q] = runs[q]
      <3>1. runs[q] # "none" => request'[q] = request[q]
        BY <2>1 DEF Claims, Keeps, Ended
      <3> QED
        BY <2>1, <2>2, <2>3, <3>1 DEF Claims, ParsedOk, HasRecord, Read
    <2>4. CASE /\ request'[q].at = "closed"
               /\ runs'[q] = "failed" => request[q].document = NoRow \/ ~ ParsedOk(q)
      <3>1. request'[q].document = request[q].document
        <4>1. CASE Stores(q)
          BY <2>4, <4>1 DEF Stores, Moving
        <4>2. \/ request'[q] = request[q]
              \/ Advances(q) \/ Stores(q) \/ Promotes(q)
          BY OneMoves
        <4> QED
          BY <4>1, <4>2 DEF Advances, SameClaim, Promotes
      <3>2. runs'[q] = "failed" => request'[q].document = NoRow \/ ~ ParsedOk(q)'
        BY <2>1, <2>4, <3>1, ReadingLasts
      <3> QED
        BY <2>2, <2>4, <3>2 DEF Claims
    <2> QED
      BY <2>3, <2>4 DEF Reports
  <1>2. ASSUME NEW f \in findings'
        PROVE  request'[f[1]].promoted /\ f[2] = request'[f[1]].document
    <2>1. PICK r \in Requests :
            request[r].promoted /\ f[1] = r /\ f[2] = request[r].document
      <3>1. CASE f \in findings
        <4>1. f[1] \in Requests
          BY <3>1 DEF Types
        <4> QED
          BY <3>1, <4>1 DEF Holdings
      <3>2. CASE f \notin findings
        BY <3>2 DEF Reports
      <3> QED
        BY <3>1, <3>2
    <2>2. Claims(r) /\ Keeps(r)
      BY ClaimsLast DEF Holdings
    <2> QED
      BY <2>1, <2>2 DEF Claims, Keeps, HasRecord
  <1> QED
    BY <1>1, <1>2 DEF Holdings

-----------------------------------------------------------------------------
(* The keys of the corpus.                                                 *)

UniqueKeys ==
    \A x, y \in DOMAIN documents : documents[x].key = documents[y].key => x = y

\* A row still under a provisional key is held by a request that posted its body.
PendingRows ==
    \A x \in DOMAIN documents, b \in Bodies :
        documents[x].key = Pending(b) =>
            \E q \in Requests : request[q].body = b /\ request[q].document = x

\* A row under a content was promoted there by a request that holds it, or was
\* pulled in, and then no request holds it or is about to.
ContentRows ==
    \A x \in DOMAIN documents, c \in Contents :
        documents[x].key = Content(c) =>
            \/ \E p \in Requests :
                /\ request[p].document = x /\ request[p].promoted /\ Read(p) = c
            \/ \A q \in Requests :
                /\ request[q].document # x
                /\ request[q].at = "storing" => request[q].found # x

\* A promoted row stays under a content, its own unless it was read again.
PromotedRows ==
    \A q \in Requests : request[q].promoted =>
        /\ \E c \in Contents : documents[request[q].document].key = Content(c)
        /\ documents[request[q].document].key = Content(Read(q)) \/ ReadAgain(q)

Corpus == UniqueKeys /\ PendingRows /\ ContentRows /\ PromotedRows

\* The promotion that moves a row.
MovesRow(r) ==
    LET d == request[r].document
        c == Read(r)
    IN  /\ request[r].at = "promoting"
        /\ HasRecord(r) /\ c # Unreadable
        /\ request'[r].promoted
        /\ RowUnder(Content(c)) \in {NoRow, d}
        /\ DOMAIN documents' = DOMAIN documents
        /\ documents'[d].key = Content(c) /\ documents'[d].raw = documents[d].raw
        /\ \A e \in DOMAIN documents \ {d} : documents'[e] = documents[e]

LEMMA CorpusSteps ==
    ASSUME Types, Steps
    PROVE  \/ SameRows
           \/ \E r \in Requests : /\ Stores(r)
                                  /\ RowUnder(Pending(request[r].body)) = NoRow
                                  /\ NewRow(Pending(request[r].body), request[r].body)
                                  /\ request'[r].document = Len(documents) + 1
           \/ \E c \in Pulled : /\ RowUnder(Content(c)) = NoRow
                                /\ NewRow(Content(c), c) /\ UNCHANGED request
           \/ \E r \in Requests : Promotes(r) /\ MovesRow(r)
  <1>1. ASSUME NEW r \in Requests, Stores(r)
        PROVE  \/ SameRows
               \/ /\ RowUnder(Pending(request[r].body)) = NoRow
                  /\ NewRow(Pending(request[r].body), request[r].body)
                  /\ request'[r].document = Len(documents) + 1
    BY <1>1, Zenon DEF Stores
  <1>2. ASSUME NEW r \in Requests, Promotes(r)
        PROVE  SameRows \/ MovesRow(r)
    BY <1>2, Zenon DEF Promotes, MovesRow
  <1>3. ASSUME NEW r \in Requests, Advances(r)
        PROVE  SameRows
    BY <1>3 DEF Advances
  <1> QED
    BY <1>1, <1>2, <1>3, Zenon DEF Steps

\* A statement that begins finds a row under the provisional key, or none.
LEMMA FoundPending ==
    ASSUME Types, Holdings, Steps, NEW q \in Requests,
           request'[q].at = "storing", request[q].at # "storing"
    PROVE  request'[q].found = RowUnder(Pending(request[q].body))
  <1>1. request'[q] = request[q] \/ Advances(q) \/ Stores(q) \/ Promotes(q)
    BY OneMoves
  <1>2. CASE Advances(q)
    BY <1>2 DEF Advances, Moving
  <1> QED
    BY <1>1, <1>2 DEF Stores, Promotes, Moving

LEMMA HeldInCorpus ==
    ASSUME Types, Holdings, NEW q \in Requests, request[q].promoted
    PROVE  /\ request[q].document \in DOMAIN documents /\ request[q].document # NoRow
           /\ HasRecord(q) /\ Read(q) \in Contents
  <1>1. HasRecord(q) /\ Read(q) # Unreadable
    BY DEF Holdings, Claims
  <1> QED
    BY <1>1, ReadIsContent DEF HasRecord, Types

LEMMA ReadAgainLasts ==
    ASSUME Types, Holdings, Steps, NEW q \in Requests, request[q].promoted, ReadAgain(q)
    PROVE  ReadAgain(q)'
  <1>1. PICK r \in Requests : /\ request[r].document = request[q].document
                              /\ request[r].promoted /\ Read(r) # Read(q)
    BY DEF ReadAgain
  <1>2. Keeps(q) /\ Keeps(r)
    BY ClaimsLast
  <1>3. Read(q)' = Read(q) /\ Read(r)' = Read(r)
    BY <1>1, <1>2, HeldInCorpus, ReadingLasts
  <1>4. request'[r].document = request'[q].document /\ request'[r].promoted
    BY <1>1, <1>2, HeldInCorpus DEF Keeps
  <1> QED
    BY <1>1, <1>3, <1>4 DEF ReadAgain

LEMMA KeysStayUnique ==
    ASSUME Types, Types', Holdings, Steps, UniqueKeys
    PROVE  UniqueKeys'
  <1>1. CASE SameRows
    BY <1>1 DEF SameRows, UniqueKeys
  <1>2. ASSUME NEW k, NEW w, NewRow(k, w), RowUnder(k) = NoRow
        PROVE  UniqueKeys'
    <2>1. \A d \in DOMAIN documents : documents[d].key # k
      BY <1>2, LookedUp DEF Types
    <2> QED
      BY <1>2, <2>1 DEF NewRow, UniqueKeys
  <1>3. ASSUME NEW r \in Requests, MovesRow(r)
        PROVE  UniqueKeys'
    <2>1. request[r].document \in DOMAIN documents
      BY <1>3 DEF MovesRow, HasRecord, Types
    <2>2. \A e \in DOMAIN documents \ {request[r].document} :
            documents[e].key # Content(Read(r))
      <3>1. CASE RowUnder(Content(Read(r))) = NoRow
        BY <3>1, LookedUp DEF Types
      <3>2. CASE RowUnder(Content(Read(r))) # NoRow
        <4>1. /\ RowUnder(Content(Read(r))) = request[r].document
              /\ documents[request[r].document].key = Content(Read(r))
          BY <1>3, <3>2, LookedUp DEF Types, MovesRow
        <4> QED
          BY <2>1, <4>1 DEF UniqueKeys
      <3> QED
        BY <3>1, <3>2
    <2> QED
      BY <1>3, <2>1, <2>2 DEF MovesRow, UniqueKeys
  <1> QED
    BY <1>1, <1>2, <1>3, CorpusSteps

LEMMA PendingStays ==
    ASSUME Types, Types', Holdings, Steps, PendingRows
    PROVE  PendingRows'
  <1> SUFFICES ASSUME NEW x \in DOMAIN documents', NEW b \in Bodies,
                      documents'[x].key = Pending(b)
               PROVE  \E q \in Requests : request'[q].body = b /\ request'[q].document = x
    BY DEF PendingRows
  <1>1. ASSUME x \in DOMAIN documents, documents'[x].key = documents[x].key
        PROVE  \E q \in Requests : request'[q].body = b /\ request'[q].document = x
    <2>1. documents[x].key = Pending(b)
      BY <1>1
    <2>2. PICK q \in Requests : request[q].body = b /\ request[q].document = x
      BY <1>1, <2>1, Zenon DEF PendingRows
    <2>3. Keeps(q) /\ x # NoRow
      BY <1>1, ClaimsLast DEF Types, NoRow
    <2> QED
      BY <2>2, <2>3 DEF Keeps
  <1>2. CASE SameRows
    BY <1>1, <1>2 DEF SameRows
  <1>3. ASSUME NEW r \in Requests, Stores(r),
               NewRow(Pending(request[r].body), request[r].body),
               request'[r].document = Len(documents) + 1
        PROVE  \E q \in Requests : request'[q].body = b /\ request'[q].document = x
    <2>1. CASE x \in DOMAIN documents
      BY <1>1, <1>3, <2>1 DEF NewRow
    <2>2. CASE x \notin DOMAIN documents
      <3>1. /\ x = Len(documents) + 1
            /\ documents'[x].key = Pending(request[r].body)
        BY <1>3, <2>2 DEF NewRow
      <3>2. request[r].body = b
        BY <3>1, KeysAreApart
      <3>3. request'[r].body = b /\ request'[r].document = x
        BY <1>3, <3>1, <3>2 DEF Stores
      <3> QED
        BY <3>3
    <2> QED
      BY <2>1, <2>2
  <1>4. ASSUME NEW c \in Pulled, NewRow(Content(c), c)
        PROVE  \E q \in Requests : request'[q].body = b /\ request'[q].document = x
    <2>1. x \in DOMAIN documents
      BY <1>4, KeysAreApart DEF NewRow
    <2> QED
      BY <1>1, <1>4, <2>1 DEF NewRow
  <1>5. ASSUME NEW r \in Requests, MovesRow(r)
        PROVE  \E q \in Requests : request'[q].body = b /\ request'[q].document = x
    <2>1. x \in DOMAIN documents \ {request[r].document}
      BY <1>5, KeysAreApart DEF MovesRow
    <2> QED
      BY <1>1, <1>5, <2>1 DEF MovesRow
  <1> QED
    BY <1>2, <1>3, <1>4, <1>5, CorpusSteps

LEMMA ContentStays ==
    ASSUME Types, Types', Holdings, Steps, ContentRows
    PROVE  ContentRows'
  <1> SUFFICES ASSUME NEW x \in DOMAIN documents', NEW c \in Contents,
                      documents'[x].key = Content(c)
               PROVE  \/ \E p \in Requests :
                            /\ request'[p].document = x /\ request'[p].promoted
                            /\ Read(p)' = c
                      \/ \A q \in Requests :
                            /\ request'[q].document # x
                            /\ request'[q].at = "storing" => request'[q].found # x
    BY DEF ContentRows
  <1> DEFINE Owned == \E p \in Requests : /\ request'[p].document = x /\ request'[p].promoted
                                          /\ Read(p)' = c
             Unheld == \A q \in Requests :
                            /\ request'[q].document # x
                            /\ request'[q].at = "storing" => request'[q].found # x
  <1>1. ASSUME x \in DOMAIN documents, documents'[x].key = documents[x].key
        PROVE  Owned \/ Unheld
    <2>1. CASE \E p \in Requests :
                /\ request[p].document = x /\ request[p].promoted /\ Read(p) = c
      <3>1. PICK p \in Requests :
                request[p].document = x /\ request[p].promoted /\ Read(p) = c
        BY <2>1
      <3>2. Keeps(p) /\ request[p].document # NoRow
        BY <3>1, ClaimsLast, HeldInCorpus
      <3>3. /\ request'[p].document = x /\ request'[p].promoted /\ Read(p)' = c
        BY <3>1, <3>2, ReadingLasts DEF Keeps
      <3> QED
        BY <3>3
    <2>2. CASE \A q \in Requests :
                /\ request[q].document # x
                /\ request[q].at = "storing" => request[q].found # x
      <3> SUFFICES ASSUME NEW q \in Requests
                   PROVE  /\ request'[q].document # x
                          /\ request'[q].at = "storing" => request'[q].found # x
        OBVIOUS
      <3>1. request'[q].document # x
        <4>1. CASE Stores(q)
          BY <1>1, <2>2, <4>1 DEF Stores, NewRow, Moving
        <4>2. CASE request'[q].document = request[q].document
          BY <2>2, <4>2
        <4> QED
          BY <4>1, <4>2, OneMoves DEF Advances, SameClaim, Promotes
      <3>2. ASSUME request'[q].at = "storing"
            PROVE  request'[q].found # x
        <4>1. CASE request[q].at = "storing"
          <5>1. request'[q] = request[q]
            BY <3>2, <4>1, OneMoves DEF Advances, Stores, Promotes, Moving
          <5> QED
            BY <2>2, <4>1, <5>1
        <4>2. CASE request[q].at # "storing"
          <5>1. request'[q].found = RowUnder(Pending(request[q].body))
            BY <3>2, <4>2, FoundPending
          <5>2. documents[x].key # Pending(request[q].body) /\ x # NoRow
            <6>1. documents[x].key = Content(c)
              BY <1>1
            <6>2. x # NoRow
              BY <1>1 DEF Types, NoRow
            <6> QED
              BY <6>1, <6>2, KeysAreApart
          <5> QED
            BY <5>1, <5>2, LookedUp DEF Types
        <4> QED
          BY <4>1, <4>2
      <3> QED
        BY <3>1, <3>2
    <2>3. documents[x].key = Content(c)
      BY <1>1
    <2> QED
      BY <1>1, <2>1, <2>2, <2>3, Zenon DEF ContentRows
  <1>2. ASSUME SameRows
        PROVE  Owned \/ Unheld
    BY <1>1, <1>2 DEF SameRows
  <1>3. ASSUME NEW r \in Requests, NewRow(Pending(request[r].body), request[r].body)
        PROVE  Owned \/ Unheld
    <2>1. x \in DOMAIN documents
      BY <1>3, KeysAreApart DEF NewRow
    <2> QED
      BY <1>1, <1>3, <2>1 DEF NewRow
  <1>4. ASSUME NEW e \in Pulled, NewRow(Content(e), e), UNCHANGED request
        PROVE  Owned \/ Unheld
    <2>1. CASE x \in DOMAIN documents
      BY <1>1, <1>4, <2>1 DEF NewRow
    <2>2. CASE x \notin DOMAIN documents
      <3>1. x # NoRow
        BY <1>4, <2>2 DEF NewRow
      <3> QED
        BY <1>4, <2>2, <3>1 DEF Types
    <2> QED
      BY <2>1, <2>2
  <1>5. ASSUME NEW r \in Requests, Promotes(r), MovesRow(r)
        PROVE  Owned \/ Unheld
    <2>1. CASE x = request[r].document
      <3>1. documents'[x].key = Content(Read(r))
        BY <1>5, <2>1 DEF MovesRow
      <3>2. Read(r) = c
        BY <3>1, KeysAreApart
      <3>3. Keeps(r) /\ HasRecord(r)
        BY <1>5, ClaimsLast DEF MovesRow
      <3>4. Read(r)' = c
        BY <3>2, <3>3, ReadingLasts
      <3>5. request'[r].document = x /\ request'[r].promoted
        BY <1>5, <2>1 DEF MovesRow, Promotes
      <3> QED
        BY <3>4, <3>5
    <2>2. CASE x # request[r].document
      <3>1. x \in DOMAIN documents /\ documents'[x] = documents[x]
        BY <1>5, <2>2 DEF MovesRow
      <3> QED
        BY <1>1, <3>1
    <2> QED
      BY <2>1, <2>2
  <1> HIDE DEF Owned, Unheld
  <1>6. Owned \/ Unheld
    <2>1. \/ SameRows
          \/ \E r \in Requests : NewRow(Pending(request[r].body), request[r].body)
          \/ \E e \in Pulled : NewRow(Content(e), e) /\ UNCHANGED request
          \/ \E r \in Requests : Promotes(r) /\ MovesRow(r)
      BY CorpusSteps
    <2>2. CASE \E r \in Requests : NewRow(Pending(request[r].body), request[r].body)
      BY <1>3, <2>2
    <2>3. CASE \E e \in Pulled : NewRow(Content(e), e) /\ UNCHANGED request
      BY <1>4, <2>3
    <2>4. CASE \E r \in Requests : Promotes(r) /\ MovesRow(r)
      BY <1>5, <2>4
    <2> QED
      BY <1>2, <2>1, <2>2, <2>3, <2>4
  <1> QED
    BY <1>6 DEF Owned, Unheld

LEMMA PromotedStays ==
    ASSUME Types, Types', Holdings, Steps, PromotedRows
    PROVE  PromotedRows'
  <1> SUFFICES ASSUME NEW q \in Requests, request'[q].promoted
               PROVE  /\ \E c \in Contents : documents'[request'[q].document].key = Content(c)
                      /\ \/ documents'[request'[q].document].key = Content(Read(q)')
                         \/ ReadAgain(q)'
    BY DEF PromotedRows
  <1>1. CASE request[q].promoted
    <2> DEFINE d == request[q].document
    <2>1. /\ d \in DOMAIN documents /\ d # NoRow /\ HasRecord(q) /\ Read(q) \in Contents
          /\ Keeps(q)
      BY <1>1, HeldInCorpus, ClaimsLast
    <2>2. request'[q].document = d /\ Read(q)' = Read(q)
      BY <2>1, ReadingLasts DEF Keeps
    <2>3. /\ \E c \in Contents : documents[d].key = Content(c)
          /\ documents[d].key = Content(Read(q)) \/ ReadAgain(q)
      BY <1>1 DEF PromotedRows
    <2> HIDE DEF d
    <2>4. ReadAgain(q) => ReadAgain(q)'
      BY <1>1, ReadAgainLasts
    <2>5. CASE documents'[d].key = documents[d].key
      BY <2>2, <2>3, <2>4, <2>5
    <2>6. ASSUME NEW r \in Requests, Promotes(r), MovesRow(r), request[r].document = d
          PROVE  /\ \E c \in Contents : documents'[d].key = Content(c)
                 /\ documents'[d].key = Content(Read(q)) \/ ReadAgain(q)'
      <3>1. documents'[d].key = Content(Read(r)) /\ Read(r) \in Contents
        BY <2>6, ReadIsContent DEF MovesRow
      <3>2. Keeps(r) /\ HasRecord(r)
        BY <2>6, ClaimsLast DEF MovesRow
      <3>3. Read(r)' = Read(r)
        BY <3>2, ReadingLasts
      <3>4. request'[r].document = d /\ request'[r].promoted
        BY <2>6 DEF Promotes, MovesRow
      <3>5. Read(r) # Read(q) => ReadAgain(q)'
        BY <2>2, <3>3, <3>4 DEF ReadAgain
      <3> QED
        BY <3>1, <3>5
    <2>7. \/ documents'[d].key = documents[d].key
          \/ \E r \in Requests : Promotes(r) /\ MovesRow(r) /\ request[r].document = d
      BY <2>1, CorpusSteps DEF SameRows, NewRow, MovesRow
    <2> QED
      BY <2>2, <2>5, <2>6, <2>7
  <1>2. CASE ~ request[q].promoted
    <2>1. Promotes(q) /\ MovesRow(q)
      <3>1. Promotes(q)
        BY <1>2, OneMoves DEF Advances, SameClaim, Stores
      <3> QED
        BY <1>2, <3>1, Zenon DEF Promotes, MovesRow
    <2>2. /\ documents'[request[q].document].key = Content(Read(q))
          /\ request'[q].document = request[q].document
          /\ HasRecord(q) /\ Read(q) # Unreadable
      BY <2>1 DEF MovesRow, Promotes
    <2>3. Keeps(q) /\ Read(q) \in Contents
      BY <2>2, ClaimsLast, ReadIsContent
    <2>4. Read(q)' = Read(q)
      BY <2>2, <2>3, ReadingLasts
    <2> QED
      BY <2>2, <2>3, <2>4
  <1> QED
    BY <1>1, <1>2

-----------------------------------------------------------------------------
(* The material of a row.                                                  *)

\* A request holds a row, or is about to, having found it.
HeldBy(q, x) ==
    /\ x # NoRow
    /\ request[q].document = x \/ (request[q].at = "storing" /\ request[q].found = x)

PendingMaterial ==
    \A x \in DOMAIN documents, b \in Bodies :
        documents[x].key = Pending(b) =>
            /\ Holds(documents[x].raw, b)
            /\ \A q \in Requests : HeldBy(q, x) => request[q].body = b

\* All who hold a row posted the same, and it is in the row.
HeldMaterial ==
    \A q \in Requests, x \in DOMAIN documents : HeldBy(q, x) =>
        /\ Holds(documents[x].raw, request[q].body)
        /\ \A r \in Requests : HeldBy(r, x) => request[r].body = request[q].body

Material == PendingMaterial /\ HeldMaterial

\* Who holds a row, or posted what its provisional key names.
Tied(q, x) == HeldBy(q, x) \/ documents[x].key = Pending(request[q].body)

LEMMA HeldRowsExist ==
    ASSUME Types, NEW q \in Requests, NEW x, HeldBy(q, x)
    PROVE  x \in DOMAIN documents
  BY DEF Types, HeldBy

LEMMA TiedAgree ==
    ASSUME Types, Material, NEW x \in DOMAIN documents, NEW q \in Requests, Tied(q, x)
    PROVE  /\ Holds(documents[x].raw, request[q].body)
           /\ \A r \in Requests : Tied(r, x) => request[r].body = request[q].body
  <1>1. \A r \in Requests : request[r].body \in Bodies
    BY DEF Types, Held
  <1>2. CASE documents[x].key = Pending(request[q].body)
    <2>1. /\ Holds(documents[x].raw, request[q].body)
          /\ \A r \in Requests : HeldBy(r, x) => request[r].body = request[q].body
      BY <1>1, <1>2, Zenon DEF Material, PendingMaterial
    <2>2. ASSUME NEW r \in Requests, documents[x].key = Pending(request[r].body)
          PROVE  request[r].body = request[q].body
      BY <1>2, <2>2, KeysAreApart, Zenon
    <2> QED
      BY <2>1, <2>2 DEF Tied
  <1>3. CASE HeldBy(q, x)
    <2>1. /\ Holds(documents[x].raw, request[q].body)
          /\ \A r \in Requests : HeldBy(r, x) => request[r].body = request[q].body
      BY <1>3, Zenon DEF Material, HeldMaterial
    <2>2. ASSUME NEW r \in Requests, documents[x].key = Pending(request[r].body)
          PROVE  request[r].body = request[q].body
      BY <1>1, <1>3, <2>2, Zenon DEF Material, PendingMaterial
    <2> QED
      BY <2>1, <2>2 DEF Tied
  <1> QED
    BY <1>2, <1>3 DEF Tied

\* What is written over a row is the envelope of what it holds already.
LEMMA TiedKeep ==
    ASSUME Types, Material, RawWrites, NEW x \in DOMAIN documents, NEW q \in Requests,
           Tied(q, x)
    PROVE  Holds(documents'[x].raw, request[q].body)
  <1>1. CASE documents'[x].raw = documents[x].raw
    BY <1>1, TiedAgree
  <1>2. ASSUME NEW r \in Requests, request[r].document = x, request[r].body \in Accepted,
               documents'[x].raw = Envelope[request[r].body]
        PROVE  Holds(documents'[x].raw, request[q].body)
    <2>1. x # NoRow
      BY DEF Types, NoRow
    <2>2. Tied(r, x)
      BY <1>2, <2>1 DEF Tied, HeldBy
    <2>3. request[r].body = request[q].body
      BY <2>2, TiedAgree
    <2> QED
      BY <1>2, <2>3 DEF Holds
  <1> QED
    BY <1>1, <1>2 DEF RawWrites

\* Who holds a row of the corpus after a step was tied to it; who holds a new one
\* has just stored it.
LEMMA HoldersAfter ==
    ASSUME Types, Types', Holdings, Steps, NEW q \in Requests, NEW x, HeldBy(q, x)'
    PROVE  \/ x \in DOMAIN documents /\ Tied(q, x)
           \/ /\ x \notin DOMAIN documents
              /\ Stores(q) /\ NewRow(Pending(request[q].body), request[q].body)
  <1>1. CASE HeldBy(q, x)
    BY <1>1, HeldRowsExist DEF Tied
  <1>2. CASE ~ HeldBy(q, x)
    <2>1. x # NoRow
      BY DEF HeldBy
    <2>2. CASE request'[q].document = x /\ request[q].document # x
      <3>1. Stores(q)
        BY <2>2, OneMoves DEF Advances, SameClaim, Promotes
      <3>2. CASE request'[q].document = request[q].found
        BY <1>2, <2>1, <2>2, <3>1, <3>2 DEF Stores, Moving, HeldBy
      <3>3. CASE request'[q].document # request[q].found
        BY <2>2, <3>1, <3>3 DEF Stores, NewRow
      <3> QED
        BY <3>2, <3>3
    <2>3. CASE request'[q].at = "storing" /\ request'[q].found = x
      <3>1. request[q].at # "storing"
        <4>1. CASE request'[q] = request[q]
          BY <1>2, <2>1, <2>3, <4>1 DEF HeldBy
        <4> QED
          BY <2>3, <4>1, OneMoves DEF Advances, Stores, Promotes, Moving
      <3>2. x = RowUnder(Pending(request[q].body))
        BY <2>3, <3>1, FoundPending
      <3>3. x \in DOMAIN documents /\ documents[x].key = Pending(request[q].body)
        BY <2>1, <3>2, LookedUp DEF Types
      <3> QED
        BY <3>3 DEF Tied
    <2> QED
      BY <1>2, <2>1, <2>2, <2>3 DEF HeldBy
  <1> QED
    BY <1>1, <1>2

\* So a new row is held by the one that stored it.
LEMMA NewRowsHeld ==
    ASSUME Types, Types', Holdings, Steps, NEW q \in Requests, NEW r \in Requests, NEW x,
           x \notin DOMAIN documents, HeldBy(q, x)', HeldBy(r, x)'
    PROVE  q = r
  <1>1. Stores(q) /\ Stores(r)
    BY HoldersAfter
  <1> QED
    BY <1>1 DEF Stores, OthersKept, Moving

LEMMA HeldMaterialStays ==
    ASSUME Types, Types', Holdings, Steps, RawWrites, Material
    PROVE  HeldMaterial'
  <1> SUFFICES ASSUME NEW q \in Requests, NEW x \in DOMAIN documents', HeldBy(q, x)'
               PROVE  /\ Holds(documents'[x].raw, request'[q].body)
                      /\ \A r \in Requests : HeldBy(r, x)' => request'[r].body = request'[q].body
    BY DEF HeldMaterial, Holds
  <1>1. \A r \in Requests : request'[r].body = request[r].body
    BY ClaimsLast DEF Keeps
  <1>2. CASE x \in DOMAIN documents
    <2>1. \A r \in Requests : HeldBy(r, x)' => Tied(r, x)
      BY <1>2, HoldersAfter
    <2>2. Holds(documents'[x].raw, request[q].body)
      BY <1>2, <2>1, TiedKeep
    <2>3. \A r \in Requests : HeldBy(r, x)' => request[r].body = request[q].body
      BY <1>2, <2>1, TiedAgree
    <2> QED
      BY <1>1, <2>2, <2>3
  <1>3. CASE x \notin DOMAIN documents
    <2>1. NewRow(Pending(request[q].body), request[q].body)
      BY <1>3, HoldersAfter
    <2>2. documents'[x].raw = request[q].body
      BY <1>3, <2>1 DEF NewRow
    <2>3. \A r \in Requests : HeldBy(r, x)' => r = q
      BY <1>3, NewRowsHeld
    <2> QED
      BY <1>1, <2>2, <2>3 DEF Holds
  <1> QED
    BY <1>2, <1>3

LEMMA PendingMaterialStays ==
    ASSUME Types, Types', Holdings, Steps, RawWrites, PendingRows, Material
    PROVE  PendingMaterial'
  <1> SUFFICES ASSUME NEW x \in DOMAIN documents', NEW b \in Bodies,
                      documents'[x].key = Pending(b)
               PROVE  /\ Holds(documents'[x].raw, b)
                      /\ \A q \in Requests : HeldBy(q, x)' => request'[q].body = b
    BY DEF PendingMaterial, Holds
  <1>1. \A r \in Requests : request'[r].body = request[r].body
    BY ClaimsLast DEF Keeps
  <1>2. CASE x \in DOMAIN documents
    <2>1. documents[x].key = Pending(b)
      <3>1. ASSUME NEW r \in Requests, MovesRow(r)
            PROVE  documents'[x].key = documents[x].key
        <4>1. x # request[r].document
          <5>1. documents'[request[r].document].key = Content(Read(r))
            BY <3>1, Zenon DEF MovesRow
          <5>2. Pending(b) # Content(Read(r))
            BY KeysAreApart
          <5> QED
            BY <5>1, <5>2
        <4> QED
          BY <1>2, <3>1, <4>1 DEF MovesRow
      <3>2. documents'[x].key = documents[x].key
        BY <1>2, <3>1, CorpusSteps DEF SameRows, NewRow
      <3> QED
        BY <3>2
    <2>2. PICK p \in Requests : request[p].body = b
      BY <1>2, <2>1 DEF PendingRows
    <2>3. Tied(p, x)
      BY <2>1, <2>2 DEF Tied
    <2>4. Holds(documents'[x].raw, b)
      BY <1>2, <2>2, <2>3, TiedKeep
    <2>5. \A q \in Requests : HeldBy(q, x)' => request[q].body = b
      BY <1>2, <2>2, <2>3, HoldersAfter, TiedAgree
    <2> QED
      BY <1>1, <2>4, <2>5
  <1>3. CASE x \notin DOMAIN documents
    <2>1. PICK r \in Requests : /\ NewRow(Pending(request[r].body), request[r].body)
                                /\ documents'[x].key = Pending(request[r].body)
      <3>1. ~ SameRows /\ \A r \in Requests : ~ MovesRow(r)
        BY <1>3 DEF SameRows, MovesRow
      <3>2. ASSUME NEW c \in Pulled, NewRow(Content(c), c)
            PROVE  FALSE
        <4>1. documents'[x].key = Content(c)
          BY <1>3, <3>2 DEF NewRow
        <4> QED
          BY <4>1, KeysAreApart, Zenon
      <3>3. PICK r \in Requests : NewRow(Pending(request[r].body), request[r].body)
        BY <3>1, <3>2, CorpusSteps, Zenon
      <3>4. documents'[x].key = Pending(request[r].body)
        BY <1>3, <3>3 DEF NewRow
      <3> QED
        BY <3>3, <3>4
    <2>2. request[r].body = b
      BY <2>1, KeysAreApart
    <2>3. Holds(documents'[x].raw, b)
      BY <1>3, <2>1, <2>2 DEF NewRow, Holds
    <2>4. ASSUME NEW q \in Requests, HeldBy(q, x)'
          PROVE  request[q].body = b
      <3>1. NewRow(Pending(request[q].body), request[q].body)
        BY <1>3, <2>4, HoldersAfter
      <3>2. documents'[x].key = Pending(request[q].body)
        BY <1>3, <3>1 DEF NewRow
      <3> QED
        BY <3>2, KeysAreApart
    <2> QED
      BY <1>1, <2>3, <2>4
  <1> QED
    BY <1>2, <1>3

-----------------------------------------------------------------------------
(* What becomes of a reading, and of a request that holds no row.          *)

Standing(c) == \E d \in DOMAIN documents : documents[d].key = Content(c)

\* Once read, and found or promoted, a reading stands in the corpus, but for the
\* row that was read again.
ReadingsStand ==
    \A r \in Requests : \A c \in Contents :
        /\ HasRecord(r) /\ Read(r) = c
        /\ \/ request[r].at = "promoting" /\ request[r].found # NoRow
           \/ request[r].at \in Filing \cup {"raised"}
        => Standing(c) \/ RereadAsAnother(c)

\* A request that went on without a row raced another, which holds it.
RacersStored ==
    \A r \in Requests : request[r].at \notin Unstored \cup {"stopped"} =>
        \/ request[r].document # NoRow
        \/ \E q \in Requests \ {r} : request[q].body = request[r].body
                                     /\ request[q].document # NoRow

CaptureInv == Types /\ Holdings /\ Corpus /\ Material /\ ReadingsStand /\ RacersStored

LEMMA RacersStay ==
    ASSUME Types, Types', Holdings, Steps, PendingRows, RacersStored
    PROVE  RacersStored'
  <1> SUFFICES ASSUME NEW r \in Requests, request'[r].at \notin Unstored \cup {"stopped"},
                      request'[r].document = NoRow
               PROVE  \E q \in Requests \ {r} : request'[q].body = request'[r].body
                                                /\ request'[q].document # NoRow
    BY DEF RacersStored
  <1>1. request'[r].body = request[r].body /\ request[r].document = NoRow
    BY ClaimsLast DEF Keeps
  <1>2. ASSUME NEW q \in Requests \ {r}, request[q].body = request[r].body,
               request[q].document # NoRow
        PROVE  request'[q].body = request'[r].body /\ request'[q].document # NoRow
    BY <1>1, <1>2, ClaimsLast DEF Keeps
  <1>3. CASE request[r].at \notin Unstored \cup {"stopped"}
    BY <1>1, <1>2, <1>3 DEF RacersStored
  <1>4. CASE request[r].at \in Unstored \cup {"stopped"}
    <2>1. Stores(r)
      <3>1. "stopped" \in Ended
        BY DEF Ended
      <3>2. request'[r] # request[r]
        BY <1>4
      <3>3. request[r].at # "stopped"
        BY <3>1, <3>2, ClaimsLast DEF Keeps
      <3> QED
        BY <1>4, <3>2, <3>3, OneMoves DEF Advances, Promotes, Moving, Unstored
    <2>2. RowUnder(Pending(request[r].body)) # NoRow
      <3> SUFFICES ASSUME RowUnder(Pending(request[r].body)) = NoRow
                   PROVE  FALSE
        OBVIOUS
      <3>1. /\ NewRow(Pending(request[r].body), request[r].body)
            /\ request'[r].document = Len(documents) + 1
        BY <2>1 DEF Stores
      <3> QED
        BY <3>1 DEF NewRow
    <2>3. PICK d \in DOMAIN documents : documents[d].key = Pending(request[r].body)
      BY <2>2, LookedUp DEF Types
    <2>4. request[r].body \in Bodies
      BY DEF Types, Held
    <2>5. PICK q \in Requests : request[q].body = request[r].body /\ request[q].document = d
      BY <2>3, <2>4, Zenon DEF PendingRows
    <2>6. d # NoRow /\ q # r
      BY <1>1, <2>5 DEF Types, NoRow
    <2> QED
      BY <1>2, <2>5, <2>6
  <1> QED
    BY <1>3, <1>4

LEMMA RereadLasts ==
    ASSUME Types, Holdings, Steps, NEW c, RereadAsAnother(c)
    PROVE  RereadAsAnother(c)'
  <1>1. PICK q \in Requests : request[q].promoted /\ Read(q) = c /\ ReadAgain(q)
    BY DEF RereadAsAnother
  <1>2. ReadAgain(q)' /\ Keeps(q) /\ HasRecord(q)
    BY <1>1, ReadAgainLasts, ClaimsLast, HeldInCorpus
  <1>3. request'[q].promoted /\ Read(q)' = c
    BY <1>1, <1>2, ReadingLasts DEF Keeps
  <1> QED
    BY <1>2, <1>3 DEF RereadAsAnother

\* A content leaves the corpus only with a row that is read again.
LEMMA StandingLasts ==
    ASSUME Types, Types', Holdings, Steps, Corpus, NEW c \in Contents,
           Standing(c) \/ RereadAsAnother(c)
    PROVE  Standing(c)' \/ RereadAsAnother(c)'
  <1>1. CASE RereadAsAnother(c)
    BY <1>1, RereadLasts
  <1>2. CASE Standing(c)
    <2>1. PICK x \in DOMAIN documents : documents[x].key = Content(c)
      BY <1>2 DEF Standing
    <2>2. CASE x \in DOMAIN documents' /\ documents'[x].key = documents[x].key
      BY <2>1, <2>2 DEF Standing
    <2>3. ASSUME NEW r \in Requests, Promotes(r), MovesRow(r), request[r].document = x,
                 Read(r) # c
          PROVE  RereadAsAnother(c)'
      <3>1. PICK p \in Requests :
                request[p].document = x /\ request[p].promoted /\ Read(p) = c
        <4>1. \/ \E p \in Requests :
                    /\ request[p].document = x /\ request[p].promoted /\ Read(p) = c
              \/ \A q \in Requests : request[q].document # x
          BY <2>1, Zenon DEF Corpus, ContentRows
        <4> QED
          BY <2>3, <4>1
      <3>2. Keeps(p) /\ Keeps(r) /\ HasRecord(p) /\ HasRecord(r)
        BY <2>3, <3>1, ClaimsLast, HeldInCorpus DEF MovesRow
      <3>3. /\ request'[p].document = x /\ request'[p].promoted /\ Read(p)' = c
            /\ request'[r].document = x /\ request'[r].promoted /\ Read(r)' # c
        BY <2>3, <3>1, <3>2, ReadingLasts DEF Keeps, HasRecord, MovesRow
      <3>4. ReadAgain(p)'
        BY <3>3 DEF ReadAgain
      <3> QED
        BY <3>3, <3>4 DEF RereadAsAnother
    <2>4. ASSUME NEW r \in Requests, MovesRow(r), request[r].document = x, Read(r) = c
          PROVE  x \in DOMAIN documents' /\ documents'[x].key = documents[x].key
      BY <2>1, <2>4 DEF MovesRow
    <2>5. \/ x \in DOMAIN documents' /\ documents'[x].key = documents[x].key
          \/ \E r \in Requests : Promotes(r) /\ MovesRow(r) /\ request[r].document = x
      BY CorpusSteps DEF SameRows, NewRow, MovesRow
    <2> QED
      BY <2>2, <2>3, <2>4, <2>5
  <1> QED
    BY <1>1, <1>2

LEMMA ReadingsStay ==
    ASSUME Types, Types', Holdings, Steps, Corpus, ReadingsStand
    PROVE  ReadingsStand'
  <1> SUFFICES ASSUME NEW r \in Requests, NEW c \in Contents,
                      HasRecord(r)', Read(r)' = c,
                      \/ request'[r].at = "promoting" /\ request'[r].found # NoRow
                      \/ request'[r].at \in Filing \cup {"raised"}
               PROVE  Standing(c)' \/ RereadAsAnother(c)'
    BY DEF ReadingsStand
  <1>1. CASE HasRecord(r) /\ Read(r) = c /\ (Standing(c) \/ RereadAsAnother(c))
    BY <1>1, StandingLasts
  <1>2. CASE request'[r] = request[r]
    <2>1. HasRecord(r) /\ Read(r) = c
      BY <1>2 DEF HasRecord, Read
    <2>2. Standing(c) \/ RereadAsAnother(c)
      BY <1>2, <2>1 DEF ReadingsStand
    <2> QED
      BY <1>1, <2>1, <2>2
  <1>3. CASE Advances(r)
    <2>1. HasRecord(r)
      BY <1>3 DEF Advances, SameClaim, HasRecord
    <2>2. Read(r) = c
      BY <2>1, ClaimsLast, ReadingLasts
    <2>3. CASE request[r].at \in Filing
      BY <1>1, <2>1, <2>2, <2>3 DEF ReadingsStand
    <2>4. CASE request[r].at = "Promote Capture Document"
      <3>1. request'[r].at = "promoting" \/ request'[r].at = "stopped"
        BY <1>3, <2>4 DEF Advances, Moving
      <3>2. request'[r].at = "promoting" /\ request'[r].found # NoRow
        BY <3>1 DEF Filing
      <3>3. request'[r].found \in {NoRow, RowUnder(Content(Read(r)))}
        BY <1>3, <2>4, <3>2 DEF Advances, Moving
      <3>4. RowUnder(Content(c)) # NoRow
        BY <2>2, <3>2, <3>3
      <3>5. Standing(c)
        BY <3>4, LookedUp DEF Standing, Types
      <3> QED
        BY <1>1, <2>1, <2>2, <3>5
    <2> QED
      BY <1>3, <2>3, <2>4 DEF Advances, Moving, Filing
  <1>4. CASE Stores(r)
    BY <1>4 DEF Stores, Moving, Filing
  <1>5. CASE Promotes(r)
    <2>1. HasRecord(r) /\ request[r].at = "promoting"
      BY <1>5 DEF Promotes, HasRecord
    <2>2. Read(r) = c
      BY <2>1, ClaimsLast, ReadingLasts
    <2>3. CASE RowUnder(Content(c)) # NoRow
      <3>1. Standing(c)
        BY <2>3, LookedUp DEF Standing, Types
      <3> QED
        BY <1>1, <2>1, <2>2, <3>1
    <2>4. CASE request[r].found # NoRow
      BY <1>1, <2>1, <2>2, <2>4 DEF ReadingsStand
    <2>5. CASE MovesRow(r)
      <3>1. /\ documents'[request[r].document].key = Content(c)
            /\ request[r].document \in DOMAIN documents'
        BY <2>1, <2>2, <2>5 DEF MovesRow, HasRecord, Types
      <3> QED
        BY <3>1 DEF Standing
    <2>6. c # Unreadable
      BY DEF CaptureAssumption
    <2>7. RowUnder(Content(c)) # NoRow \/ request[r].found # NoRow \/ MovesRow(r)
      BY <1>5, <2>1, <2>2, <2>6, Zenon DEF Promotes, MovesRow
    <2> QED
      BY <2>3, <2>4, <2>5, <2>7
  <1> QED
    BY <1>2, <1>3, <1>4, <1>5, OneMoves

LEMMA InitInv == Init => CaptureInv
  <1> SUFFICES ASSUME Init PROVE CaptureInv
    OBVIOUS
  <1>1. Types
    BY InitTypes
  <1>2. PICK posted \in [Requests -> Bodies] : request = [r \in Requests |-> Fresh(posted[r])]
    BY DEF Init
  <1>3. \A r \in Requests : /\ request[r].at = "Load Domain Context"
                            /\ request[r].document = NoRow /\ request[r].promoted = FALSE
    BY <1>2 DEF Fresh
  <1>4. documents = <<>> /\ findings = {} /\ \A r \in Requests : runs[r] = "none"
    BY DEF Init
  <1>5. \A r \in Requests : request[r].at \in Unstored
                            /\ request[r].at \notin Filing \cup {"promoting", "raised"}
    BY <1>3 DEF Unstored, Filing
  <1>6. Holdings
    BY <1>3, <1>4 DEF Holdings, Claims
  <1>7. Corpus
    <2>1. DOMAIN documents = {}
      BY <1>4
    <2>2. UniqueKeys /\ PendingRows /\ ContentRows
      BY <2>1 DEF UniqueKeys, PendingRows, ContentRows
    <2>3. PromotedRows
      BY <1>3 DEF PromotedRows
    <2> QED
      BY <2>2, <2>3 DEF Corpus
  <1>8. Material
    <2>1. DOMAIN documents = {}
      BY <1>4
    <2> QED
      BY <2>1 DEF Material, PendingMaterial, HeldMaterial
  <1>9. ReadingsStand /\ RacersStored
    BY <1>5, Zenon DEF ReadingsStand, RacersStored
  <1> QED
    BY <1>1, <1>6, <1>7, <1>8, <1>9 DEF CaptureInv

LEMMA InvStep ==
    ASSUME CaptureInv, [Next]_vars
    PROVE  CaptureInv' /\ Steps
  <1>1. Types /\ Holdings /\ Corpus /\ Material /\ ReadingsStand /\ RacersStored
    BY DEF CaptureInv
  <1>2. \A r \in Requests : request[r].promoted => request[r].document # NoRow
    BY <1>1, HeldInCorpus
  <1>3. Types' /\ Steps /\ Reports /\ RawWrites
    BY <1>1, <1>2, StepsAreSteps, StepsReport, StepsWriteRaws
  <1>4. Holdings'
    BY <1>1, <1>3, ClaimsHold
  <1>5. UniqueKeys /\ PendingRows /\ ContentRows /\ PromotedRows
    BY <1>1 DEF Corpus
  <1>6. Corpus'
    BY <1>1, <1>3, <1>5, KeysStayUnique, PendingStays, ContentStays, PromotedStays DEF Corpus
  <1>7. Material'
    BY <1>1, <1>3, <1>5, HeldMaterialStays, PendingMaterialStays DEF Material
  <1>8. ReadingsStand' /\ RacersStored'
    BY <1>1, <1>3, <1>5, ReadingsStay, RacersStay
  <1> QED
    BY <1>3, <1>4, <1>6, <1>7, <1>8 DEF CaptureInv

LEMMA Invariance == Spec => []CaptureInv
  <1>1. Init => CaptureInv
    BY InitInv
  <1>2. CaptureInv /\ [Next]_vars => CaptureInv'
    BY InvStep
  <1> QED
    BY <1>1, <1>2, PTL DEF Spec

-----------------------------------------------------------------------------
\* The types of the corpus, of the requests and of the runs, and every row a
\* request or a finding names is in the corpus.
THEOREM CaptureTypes == Spec => []TypeOK
  <1>1. CaptureInv => TypeOK
    <2> SUFFICES ASSUME CaptureInv PROVE TypeOK
      OBVIOUS
    <2>1. Types
      BY DEF CaptureInv
    <2>2. \A d \in DOMAIN documents : documents[d] \in DocRow
      BY <2>1 DEF Types
    <2>3. request \in [Requests -> [at       : Stages \cup Ended,
                                    body     : Bodies,
                                    seen     : Health,
                                    config   : Configs,
                                    found    : {NoRow} \cup DOMAIN documents,
                                    document : {NoRow} \cup DOMAIN documents,
                                    promoted : BOOLEAN]]
      BY <2>1 DEF Types, Held, Places
    <2> QED
      BY <2>1, <2>2, <2>3 DEF TypeOK, Types, DocRow, Keys, Notes, Envelopes
  <1> QED
    BY <1>1, Invariance, PTL

\* What a request has stored is never lost, whatever other requests, pull passes
\* and crashes do to its row: the row goes on holding it, whole until its envelope
\* is judged and as its envelope after (ar-capture, Store Raw Capture and Record
\* Capture Provenance).
THEOREM NoPayloadIsLost == Spec => []StoredCaptureIsKept
  <1>1. CaptureInv => StoredCaptureIsKept
    <2> SUFFICES ASSUME CaptureInv, NEW r \in Requests, IsStored(r)
                 PROVE  \E d \in DOMAIN documents : /\ Holds(documents[d].raw, request[r].body)
                                                    /\ request[r].document \in {NoRow, d}
      BY DEF StoredCaptureIsKept
    <2>1. Types /\ HeldMaterial /\ RacersStored
      BY DEF CaptureInv, Material
    <2>2. ASSUME NEW q \in Requests, request[q].document # NoRow
          PROVE  /\ request[q].document \in DOMAIN documents
                 /\ Holds(documents[request[q].document].raw, request[q].body)
      <3>1. HeldBy(q, request[q].document)
        BY <2>2 DEF HeldBy
      <3>2. request[q].document \in DOMAIN documents
        BY <2>1, <3>1, HeldRowsExist
      <3> QED
        BY <2>1, <3>1, <3>2, Zenon DEF HeldMaterial
    <2>3. CASE request[r].document # NoRow
      BY <2>2, <2>3
    <2>4. CASE request[r].document = NoRow
      <3>1. request[r].at \notin Unstored \cup {"stopped"}
        BY DEF IsStored, Unstored
      <3>2. PICK q \in Requests \ {r} : request[q].body = request[r].body
                                        /\ request[q].document # NoRow
        BY <2>1, <2>4, <3>1 DEF RacersStored
      <3> QED
        BY <2>2, <2>4, <3>2
    <2> QED
      BY <2>3, <2>4
  <1> QED
    BY <1>1, Invariance, PTL

\* A capture that was read and ran to its end, or was refused by the unique key,
\* is in the corpus under its content, unless its row was read again.
THEOREM EndedCapturesAreHeld == Spec => []EndedCaptureIsHeld
  <1>1. CaptureInv => EndedCaptureIsHeld
    <2> SUFFICES ASSUME CaptureInv, NEW r \in Requests,
                        request[r].at \in {"closed", "raised"}, HasRecord(r), Read(r) # Unreadable
                 PROVE  RowUnder(Content(Read(r))) # NoRow \/ RereadAsAnother(Read(r))
      BY DEF EndedCaptureIsHeld
    <2>1. Types /\ ReadingsStand
      BY DEF CaptureInv
    <2>2. PICK c \in Contents : c = Read(r)
      BY <2>1, ReadIsContent
    <2>3. request[r].at \in Filing \cup {"raised"}
      BY DEF Filing
    <2>4. Standing(c) \/ RereadAsAnother(c)
      BY <2>1, <2>2, <2>3, Zenon DEF ReadingsStand
    <2>5. Standing(c) => RowUnder(Content(c)) # NoRow
      BY <2>1, LookedUp DEF Standing, Types
    <2> QED
      BY <2>2, <2>4, <2>5
  <1> QED
    BY <1>1, Invariance, PTL

\* A run of a good capture says failed only where the request lost a race for its
\* row to another request that posted the same and holds it.
THEOREM OnlyRacesFailGoodCaptures == Spec => []OnlyARaceFailsAGoodCapture
  <1>1. CaptureInv => OnlyARaceFailsAGoodCapture
    <2> SUFFICES ASSUME CaptureInv, NEW r \in Requests,
                        runs[r] = "failed",
                        request[r].body \in Accepted \cap Conforming,
                        Read(r) # Unreadable
                 PROVE  /\ request[r].document = NoRow
                        /\ \E q \in Requests \ {r} : request[q].body = request[r].body
                                                     /\ request[q].document # NoRow
      BY DEF OnlyARaceFailsAGoodCapture
    <2>1. Claims(r) /\ RacersStored
      BY DEF CaptureInv, Holdings
    <2>2. request[r].document = NoRow /\ request[r].at = "closed"
      BY <2>1 DEF Claims, ParsedOk, HasRecord
    <2>3. request[r].at \notin Unstored \cup {"stopped"}
      BY <2>2 DEF Unstored
    <2> QED
      BY <2>1, <2>2, <2>3 DEF RacersStored
  <1> QED
    BY <1>1, Invariance, PTL

-----------------------------------------------------------------------------
(* Requests that follow one another.                                       *)

\* A request that began after q had ended does not hold the row q promoted, and
\* has promoted the same content only where that row was read again.
Follows(q, r) ==
    /\ request[q].at \in Ended
    /\ request[r].at # "Load Domain Context"
    /\ request[q].promoted =>
        /\ request[r].document # request[q].document
        /\ request[r].at = "storing" => request[r].found # request[q].document
        /\ request[r].promoted /\ Read(q) = Read(r) => ReadAgain(q)

Followed ==
    /\ before \subseteq Requests \X Requests
    /\ \A q, r \in Requests : <<q, r>> \in before => Follows(q, r)

LEMMA StillFollows ==
    ASSUME CaptureInv, CaptureInv', Steps, NEW q \in Requests, NEW r \in Requests, Follows(q, r)
    PROVE  Follows(q, r)'
  <1>1. Types /\ Types' /\ Holdings /\ UniqueKeys /\ PromotedRows
    BY DEF CaptureInv, Corpus
  <1>2. Keeps(q) /\ Keeps(r)
    BY <1>1, ClaimsLast
  <1>3. request'[q] = request[q]
    BY <1>2 DEF Follows, Keeps
  <1>4. request[r].at # "Load Domain Context"
    BY DEF Follows
  <1>5. request'[r].at # "Load Domain Context"
    BY <1>4, OneMoves DEF Advances, Stores, Promotes, Moving
  <1>6. ASSUME request[q].promoted
        PROVE  /\ request'[r].document # request[q].document
               /\ request'[r].at = "storing" => request'[r].found # request[q].document
               /\ request'[r].promoted /\ Read(q)' = Read(r)' => ReadAgain(q)'
    <2> DEFINE d == request[q].document
    <2>1. /\ d \in DOMAIN documents /\ d # NoRow /\ HasRecord(q) /\ Read(q) \in Contents
      BY <1>1, <1>6, HeldInCorpus
    <2>2. Read(q)' = Read(q)
      BY <1>3 DEF Read
    <2>3. /\ request[r].document # d
          /\ request[r].at = "storing" => request[r].found # d
          /\ request[r].promoted /\ Read(q) = Read(r) => ReadAgain(q)
      BY <1>6 DEF Follows
    <2>4. /\ \E c \in Contents : documents[d].key = Content(c)
          /\ documents[d].key = Content(Read(q)) \/ ReadAgain(q)
      BY <1>1, <1>6 DEF PromotedRows
    <2> HIDE DEF d
    <2>5. request'[r].document # d
      <3>1. CASE Stores(r)
        BY <2>1, <2>3, <3>1 DEF Stores, NewRow, Moving
      <3>2. CASE request'[r].document = request[r].document
        BY <2>3, <3>2
      <3> QED
        BY <3>1, <3>2, OneMoves DEF Advances, SameClaim, Promotes
    <2>6. ASSUME request'[r].at = "storing"
          PROVE  request'[r].found # d
      <3>1. CASE request[r].at = "storing"
        <4>1. request'[r] = request[r]
          BY <2>6, <3>1, OneMoves DEF Advances, Stores, Promotes, Moving
        <4> QED
          BY <2>3, <3>1, <4>1
      <3>2. CASE request[r].at # "storing"
        <4>1. request'[r].found = RowUnder(Pending(request[r].body))
          BY <1>1, <2>6, <3>2, FoundPending
        <4>2. documents[d].key # Pending(request[r].body)
          BY <2>4, KeysAreApart
        <4> QED
          BY <1>1, <2>1, <4>1, <4>2, LookedUp DEF Types
      <3> QED
        BY <3>1, <3>2
    <2>7. ASSUME request'[r].promoted, Read(q)' = Read(r)'
          PROVE  ReadAgain(q)'
      <3>1. SUFFICES ReadAgain(q)
        BY <1>1, <1>6, ReadAgainLasts
      <3>2. CASE request[r].promoted
        <4>1. Read(r)' = Read(r)
          BY <1>1, <1>2, <3>2, HeldInCorpus, ReadingLasts
        <4> QED
          BY <2>2, <2>3, <2>7, <3>2, <4>1
      <3>3. CASE ~ request[r].promoted
        <4>1. Promotes(r)
          BY <2>7, <3>3, OneMoves DEF Advances, SameClaim, Stores
        <4>2. /\ HasRecord(r)
              /\ RowUnder(Content(Read(r))) \in {NoRow, request[r].document}
          BY <2>7, <3>3, <4>1 DEF Promotes
        <4>3. Read(r) = Read(q)
          BY <1>2, <2>2, <2>7, <4>2, ReadingLasts
        <4>4. documents[d].key # Content(Read(q))
          <5> SUFFICES ASSUME documents[d].key = Content(Read(q))
                       PROVE  FALSE
            OBVIOUS
          <5>1. /\ RowUnder(Content(Read(q))) # NoRow
                /\ RowUnder(Content(Read(q))) \in DOMAIN documents
                /\ documents[RowUnder(Content(Read(q)))].key = Content(Read(q))
            BY <1>1, <2>1, LookedUp DEF Types
          <5>2. RowUnder(Content(Read(q))) = d
            BY <1>1, <2>1, <5>1 DEF UniqueKeys
          <5> QED
            BY <2>3, <4>2, <4>3, <5>1, <5>2
        <4> QED
          BY <2>4, <4>4
      <3> QED
        BY <3>2, <3>3
    <2> QED
      BY <2>5, <2>6, <2>7 DEF d
  <1> QED
    BY <1>3, <1>5, <1>6 DEF Follows

LEMMA BeginsToFollow ==
    ASSUME CaptureInv, Steps, NEW q \in Requests, NEW r \in Requests,
           request[q].at \in Ended, request[r].at = "Load Domain Context",
           request'[r].at = "Store Raw Capture"
    PROVE  Follows(q, r)'
  <1>1. Types /\ Holdings /\ Keeps(q)
    BY ClaimsLast DEF CaptureInv
  <1>2. request'[q] = request[q]
    BY <1>1 DEF Keeps
  <1>3. request[r].document = NoRow /\ ~ request[r].promoted
    BY <1>1 DEF Holdings, Claims, Unstored, Filing
  <1>4. request'[r].document = NoRow /\ ~ request'[r].promoted
    BY <1>3, OneMoves DEF Advances, SameClaim, Stores, Promotes, Moving
  <1>5. request[q].promoted => request[q].document # NoRow
    BY <1>1, HeldInCorpus
  <1> QED
    BY <1>2, <1>4, <1>5 DEF Follows

LEMMA FollowedStep ==
    ASSUME CaptureInv, Followed, [MCNext]_MCvars
    PROVE  CaptureInv' /\ Followed'
  <1>1. [Next]_vars
    BY DEF MCNext, MCvars
  <1>2. CaptureInv' /\ Steps
    BY <1>1, InvStep
  <1>3. before' \subseteq before \cup
            {qr \in Requests \X Requests :
                /\ request[qr[1]].at \in Ended
                /\ request[qr[2]].at = "Load Domain Context"
                /\ request'[qr[2]].at = "Store Raw Capture"}
    BY DEF MCNext, MCvars
  <1>4. before' \subseteq Requests \X Requests
    BY <1>3 DEF Followed
  <1>5. ASSUME NEW q \in Requests, NEW r \in Requests, <<q, r>> \in before'
        PROVE  Follows(q, r)'
    <2>1. CASE <<q, r>> \in before
      BY <1>2, <2>1, StillFollows DEF Followed
    <2>2. CASE <<q, r>> \notin before
      <3>1. /\ request[q].at \in Ended
            /\ request[r].at = "Load Domain Context"
            /\ request'[r].at = "Store Raw Capture"
        BY <1>3, <1>5, <2>2
      <3> QED
        BY <1>2, <3>1, BeginsToFollow
    <2> QED
      BY <2>1, <2>2
  <1> QED
    BY <1>2, <1>4, <1>5 DEF Followed

\* An item captured by requests that follow one another is filed once, whatever
\* else ran beside them, unless the row it was first filed from was read again.
THEOREM FollowersFileOnce == MCSpec => []FollowingCapturesFileOnce
  <1>1. MCInit => CaptureInv /\ Followed
    BY InitInv DEF MCInit, Followed
  <1>2. CaptureInv /\ Followed /\ [MCNext]_MCvars => (CaptureInv /\ Followed)'
    BY FollowedStep
  <1>3. CaptureInv /\ Followed => FollowingCapturesFileOnce
    <2> SUFFICES ASSUME CaptureInv, Followed, NEW f \in findings, NEW g \in findings,
                        <<f[1], g[1]>> \in before, Read(f[1]) = Read(g[1])
                 PROVE  ReadAgain(f[1])
      BY DEF FollowingCapturesFileOnce
    <2>1. PICK q \in Requests, r \in Requests : q = f[1] /\ r = g[1]
      BY DEF CaptureInv, Types
    <2>2. request[q].promoted /\ request[r].promoted
      BY <2>1 DEF CaptureInv, Holdings
    <2>3. Follows(q, r)
      BY <2>1 DEF Followed
    <2> QED
      BY <2>1, <2>2, <2>3 DEF Follows
  <1> QED
    BY <1>1, <1>2, <1>3, PTL DEF MCSpec
=============================================================================
