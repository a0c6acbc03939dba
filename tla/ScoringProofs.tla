--------------------------- MODULE ScoringProofs ----------------------------
(***************************************************************************)
(* Proofs about Scoring, for every set of passes, findings, term lists,    *)
(* statements and weightings, and every bound.                             *)
(*                                                                         *)
(* The argument: all a pass folds, it folds by the configuration it holds, *)
(* with vectors the version takes for the one it would compute itself;     *)
(* what it holds is what was in force unless the count of edits has moved; *)
(* and what it says it wrote stands for as long as the domain does.        *)
(***************************************************************************)
EXTENDS Scoring, FiniteSetTheorems, TLAPS

USE ScoringAssumption

-----------------------------------------------------------------------------
(* What a pass holds.                                                      *)

Fields == {"at", "handed", "code", "terms", "weights", "criteria", "read", "scores",
           "done", "since"}

\* The places of a pass by what it has read.
Begun == {"Load Domain Context", "Select Scoring Subjects", "Compute Feature Vectors",
          "Write Finding Scores", "Close Score Run"}
Loaded == Begun \ {"Load Domain Context"}
Selected == Loaded \ {"Select Scoring Subjects"}
Folded == Selected \ {"Compute Feature Vectors"}
Unfolded == {"Execute Workflow Trigger", "Load Domain Context", "Select Scoring Subjects",
             "Compute Feature Vectors"}

\* The findings a pass may select.
Named(x) == ToSet(x.handed) \ Foreign

\* A score folded by what the pass holds.
FoldedBy(x, s) ==
    /\ s \in Score
    /\ Comparable(s.vector, [mechanism |-> x.code, terms |-> x.terms])
    /\ s.criteria = x.criteria /\ s.weights = x.weights

Held(x) ==
    /\ DOMAIN x = Fields
    /\ x.at \in Nodes
    /\ x.handed \in Seq(Findings) /\ x.code \in Nat /\ x.since \in Nat
    /\ x.at \in Loaded => x.terms \in TermLists /\ x.weights \in Weightings
    /\ x.at \in Selected => x.criteria \in Statements
    /\ x.at = "Compute Feature Vectors" =>
        /\ DOMAIN x.read # {} /\ DOMAIN x.read \subseteq Named(x)
        /\ \A f \in DOMAIN x.read : x.read[f] \in Vector \cup {Null}
    /\ x.at \in Unfolded => DOMAIN x.scores = {}
    /\ x.at \in Folded => DOMAIN x.scores # {}
    /\ DOMAIN x.scores \subseteq Named(x)
    /\ \A f \in DOMAIN x.scores : x.scores[f] # Null => FoldedBy(x, x.scores[f])
    /\ DOMAIN x.done \subseteq DOMAIN x.scores
    /\ \A f \in DOMAIN x.done : x.done[f] \in BOOLEAN
    /\ x.at = "Close Score Run" => DOMAIN x.done = DOMAIN x.scores

Types ==
    /\ mechanism \in [{"ingest", "score"} -> Nat] /\ domain \in BOOLEAN
    /\ terms \in TermLists /\ criteria \in Statements /\ weights \in Weightings
    /\ features \in [Documents -> Vector \cup {Null}]
    /\ featurizing \in [Documents -> Vector \cup {Null}]
    /\ score \in [Findings -> Score \cup {Null}]
    /\ DOMAIN pass = Passes
    /\ \A p \in Passes : Held(pass[p])
    /\ run \in [Passes -> Statuses]
    /\ edits \in Nat /\ crashes \in Nat

OthersKept(p) == DOMAIN pass' = Passes /\ \A q \in Passes \ {p} : pass'[q] = pass[q]

LEMMA OnePass ==
    ASSUME Types, NEW p \in Passes, NEW h, Only(p, h)
    PROVE  OthersKept(p) /\ pass'[p] = h
  BY DEF Only, OthersKept, Types

\* The parts of what a pass holds that a step of another does not touch.
LEMMA HeldAfter ==
    ASSUME Types, NEW p \in Passes, OthersKept(p), Held(pass'[p])
    PROVE  \A q \in Passes : Held(pass'[q])
  BY DEF OthersKept, Types

LEMMA PlacesApart ==
    /\ Unfolded \cap Folded = {}
    /\ "ended" \notin Begun \cup Unfolded /\ "crashed" \notin Begun \cup Unfolded
    /\ Folded \subseteq Selected /\ Selected \subseteq Loaded /\ Loaded \subseteq Begun
    /\ Begun \cup Unfolded \cup {"ended", "crashed"} = Nodes
  BY DEF Unfolded, Folded, Selected, Loaded, Begun, Nodes

LEMMA InitTypes == Init => Types
  <1> SUFFICES ASSUME Init PROVE Types
    OBVIOUS
  <1>1. DOMAIN Idle = Fields
    BY DEF Idle, Fields
  <1>2. /\ Idle.at = "Execute Workflow Trigger" /\ Idle.handed = << >> /\ Idle.code = 0
        /\ Idle.scores = << >> /\ Idle.done = << >> /\ Idle.since = 0
    BY DEF Idle
  <1>3. DOMAIN << >> = {}
    OBVIOUS
  <1>4. "Execute Workflow Trigger" \in Nodes /\ "Execute Workflow Trigger" \notin Begun
    BY DEF Nodes, Begun
  <1>5. Held(Idle)
    <2>1. /\ Idle.at \notin Loaded /\ Idle.at \notin Selected /\ Idle.at \notin Folded
          /\ Idle.at # "Compute Feature Vectors" /\ Idle.at # "Close Score Run"
      BY <1>2 DEF Loaded, Selected, Folded, Begun
    <2>2. Idle.handed \in Seq(Findings)
      <3>1. << >> \in Seq(Findings)
        OBVIOUS
      <3> QED
        BY <1>2, <3>1, Zenon
    <2>3. DOMAIN Idle.scores = {} /\ DOMAIN Idle.done = {}
      BY <1>2, <1>3, Zenon
    <2>4. Idle.at \in Nodes /\ Idle.code \in Nat /\ Idle.since \in Nat
      <3>1. 0 \in Nat
        OBVIOUS
      <3> QED
        BY <1>2, <1>4, <3>1, Zenon
    <2> QED
      BY <1>1, <2>1, <2>2, <2>3, <2>4, Zenon DEF Held
  <1>6. pass = [p \in Passes |-> Idle]
    BY DEF Init
  <1>7. mechanism \in [{"ingest", "score"} -> Nat]
    BY DEF Init
  <1>8. run \in [Passes -> Statuses]
    BY DEF Init, Statuses
  <1> QED
    BY <1>5, <1>6, <1>7, <1>8 DEF Init, Types

\* A step that changes nothing but one pass.
LEMMA PassAlone ==
    ASSUME Types, NEW p \in Passes, NEW h, Only(p, h), Held(h), UNCHANGED <<config, stored, edits>>,
           crashes' \in Nat
    PROVE  Types' /\ OthersKept(p) /\ pass'[p] = h
  <1>1. OthersKept(p) /\ pass'[p] = h
    BY OnePass
  <1>2. DOMAIN pass' = Passes /\ \A q \in Passes : Held(pass'[q])
    BY <1>1, HeldAfter DEF OthersKept
  <1> QED
    BY <1>1, <1>2 DEF Types, config, stored

LEMMA TotalIs ==
    ASSUME NEW v, NEW k, NEW w
    PROVE  Total(v, k, w) = Null \/ Total(v, k, w) = [vector |-> v, criteria |-> k, weights |-> w]
  BY DEF Total

-----------------------------------------------------------------------------
(* Each action of a pass.                                                  *)

\* The parts a step leaves alone, by what it writes.
SameScores(x, y) == y.scores = x.scores /\ y.done = x.done
SameConfig(x, y) == y.code = x.code /\ y.since = x.since /\ y.terms = x.terms
                    /\ y.weights = x.weights

Moved(x, a) == [x EXCEPT !.at = a]

LEMMA RowMoves ==
    ASSUME NEW x, DOMAIN x = Fields, NEW a
    PROVE  /\ DOMAIN Moved(x, a) = Fields
           /\ Moved(x, a).at = a
           /\ Moved(x, a).handed = x.handed
           /\ Moved(x, a).code = x.code
           /\ Moved(x, a).terms = x.terms
           /\ Moved(x, a).weights = x.weights
           /\ Moved(x, a).criteria = x.criteria
           /\ Moved(x, a).read = x.read
           /\ Moved(x, a).scores = x.scores
           /\ Moved(x, a).done = x.done
           /\ Moved(x, a).since = x.since
  BY DEF Moved, Fields

Started(x, a, handed, code, since) ==
    [x EXCEPT !.at = a, !.handed = handed, !.code = code, !.since = since]

LEMMA RowStarts ==
    ASSUME NEW x, DOMAIN x = Fields, NEW a, NEW h, NEW c, NEW n
    PROVE  /\ DOMAIN Started(x, a, h, c, n) = Fields
           /\ Started(x, a, h, c, n).at = a
           /\ Started(x, a, h, c, n).handed = h
           /\ Started(x, a, h, c, n).code = c
           /\ Started(x, a, h, c, n).scores = x.scores
           /\ Started(x, a, h, c, n).done = x.done
           /\ Started(x, a, h, c, n).since = n
  BY DEF Started, Fields

WithConfig(x, a, t, w) == [x EXCEPT !.at = a, !.terms = t, !.weights = w]

LEMMA RowLoads ==
    ASSUME NEW x, DOMAIN x = Fields, NEW a, NEW t, NEW w
    PROVE  /\ DOMAIN WithConfig(x, a, t, w) = Fields
           /\ WithConfig(x, a, t, w).at = a
           /\ WithConfig(x, a, t, w).handed = x.handed
           /\ WithConfig(x, a, t, w).code = x.code
           /\ WithConfig(x, a, t, w).terms = t
           /\ WithConfig(x, a, t, w).weights = w
           /\ WithConfig(x, a, t, w).scores = x.scores
           /\ WithConfig(x, a, t, w).done = x.done
           /\ WithConfig(x, a, t, w).since = x.since
  BY DEF WithConfig, Fields

WithSubjects(x, a, k, read) ==
    [x EXCEPT !.at = a, !.criteria = k, !.read = read]

LEMMA RowSelects ==
    ASSUME NEW x, DOMAIN x = Fields, NEW a, NEW k, NEW read
    PROVE  /\ DOMAIN WithSubjects(x, a, k, read) = Fields
           /\ WithSubjects(x, a, k, read).at = a
           /\ WithSubjects(x, a, k, read).handed = x.handed
           /\ WithSubjects(x, a, k, read).code = x.code
           /\ WithSubjects(x, a, k, read).terms = x.terms
           /\ WithSubjects(x, a, k, read).weights = x.weights
           /\ WithSubjects(x, a, k, read).criteria = k
           /\ WithSubjects(x, a, k, read).read = read
           /\ WithSubjects(x, a, k, read).scores = x.scores
           /\ WithSubjects(x, a, k, read).done = x.done
           /\ WithSubjects(x, a, k, read).since = x.since
  BY DEF WithSubjects, Fields

WithScores(x, a, scores) == [x EXCEPT !.at = a, !.scores = scores]

LEMMA RowFolds ==
    ASSUME NEW x, DOMAIN x = Fields, NEW a, NEW s
    PROVE  /\ DOMAIN WithScores(x, a, s) = Fields
           /\ WithScores(x, a, s).at = a
           /\ WithScores(x, a, s).handed = x.handed
           /\ WithScores(x, a, s).code = x.code
           /\ WithScores(x, a, s).terms = x.terms
           /\ WithScores(x, a, s).weights = x.weights
           /\ WithScores(x, a, s).criteria = x.criteria
           /\ WithScores(x, a, s).scores = s
           /\ WithScores(x, a, s).done = x.done
           /\ WithScores(x, a, s).since = x.since
  BY DEF WithScores, Fields

WithDone(x, done, a) == [x EXCEPT !.done = done, !.at = a]

LEMMA RowWrites ==
    ASSUME NEW x, DOMAIN x = Fields, NEW d, NEW a
    PROVE  /\ DOMAIN WithDone(x, d, a) = Fields
           /\ WithDone(x, d, a).at = a
           /\ WithDone(x, d, a).handed = x.handed
           /\ WithDone(x, d, a).code = x.code
           /\ WithDone(x, d, a).terms = x.terms
           /\ WithDone(x, d, a).weights = x.weights
           /\ WithDone(x, d, a).criteria = x.criteria
           /\ WithDone(x, d, a).scores = x.scores
           /\ WithDone(x, d, a).done = d
           /\ WithDone(x, d, a).since = x.since
  BY DEF WithDone, Fields

\* A pass at an end keeps what it held.
LEMMA EndedIsHeld ==
    ASSUME NEW x, Held(x), NEW a \in {"ended", "crashed"}
    PROVE  Held(Moved(x, a))
  <1> DEFINE y == Moved(x, a)
  <1>1. DOMAIN x = Fields
    BY DEF Held
  <1>2. /\ DOMAIN y = Fields /\ y.at = a /\ y.handed = x.handed /\ y.code = x.code
        /\ y.terms = x.terms /\ y.weights = x.weights /\ y.criteria = x.criteria
        /\ y.read = x.read /\ y.scores = x.scores /\ y.done = x.done /\ y.since = x.since
    BY <1>1, RowMoves
  <1> HIDE DEF y
  <1>3. /\ y.at \notin Begun /\ y.at \notin Unfolded /\ y.at \in Nodes
        /\ y.at \notin Loaded /\ y.at \notin Selected /\ y.at \notin Folded
        /\ y.at # "Compute Feature Vectors" /\ y.at # "Close Score Run"
    BY <1>2 DEF Begun, Unfolded, Loaded, Selected, Folded, Nodes
  <1>4. Held(y)
    BY <1>2, <1>3 DEF Held, Named, FoldedBy
  <1> QED
    BY <1>4 DEF y

\* What a pass is left with by each of its steps, apart from its types.
Starts(p) ==
    /\ pass[p].at = "Execute Workflow Trigger"
    /\ pass'[p].at = "Load Domain Context"
    /\ pass'[p].code = mechanism.score /\ pass'[p].since = edits
    /\ SameScores(pass[p], pass'[p]) /\ DOMAIN pass'[p].done = {}

Loads(p) ==
    /\ pass[p].at = "Load Domain Context" /\ pass'[p].at = "Select Scoring Subjects"
    /\ pass'[p].code = pass[p].code /\ pass'[p].since = pass[p].since
    /\ pass'[p].terms = terms /\ pass'[p].weights = weights
    /\ SameScores(pass[p], pass'[p])

Selects(p) ==
    /\ pass[p].at = "Select Scoring Subjects" /\ pass'[p].at = "Compute Feature Vectors"
    /\ SameConfig(pass[p], pass'[p])
    /\ pass'[p].criteria = criteria
    /\ SameScores(pass[p], pass'[p])

Folds(p) ==
    /\ pass[p].at = "Compute Feature Vectors" /\ pass'[p].at = "Write Finding Scores"
    /\ SameConfig(pass[p], pass'[p])
    /\ pass'[p].criteria = pass[p].criteria
    /\ pass'[p].done = pass[p].done

WritesScore(p, f) ==
    /\ pass[p].at = "Write Finding Scores" /\ pass'[p].at \in Folded
    /\ SameConfig(pass[p], pass'[p])
    /\ pass'[p].criteria = pass[p].criteria
    /\ f \in DOMAIN pass[p].scores
    /\ DOMAIN pass'[p].done = DOMAIN pass[p].done \cup {f}
    /\ \A g \in DOMAIN pass'[p].done :
        pass'[p].done[g] = IF g = f THEN Writes(p, f) ELSE pass[p].done[g]

Ends(p) ==
    /\ pass[p].at \in Begun /\ pass'[p].at \in {"ended", "crashed"}
    /\ pass'[p].since = pass[p].since /\ pass'[p].handed = pass[p].handed
    /\ SameScores(pass[p], pass'[p])

LEMMA StartEffect ==
    ASSUME Types, NEW p \in Passes, NEW handed \in Handovers, Start(p, handed)
    PROVE  Types' /\ OthersKept(p) /\ Starts(p)
  <1> DEFINE x == pass[p]
             next == "Load Domain Context"
             y == Started(x, next, handed, mechanism.score, edits)
  <1>1. Held(x) /\ x.at = "Execute Workflow Trigger" /\ DOMAIN x = Fields
    BY DEF Types, Start, At, Held
  <1>2. Only(p, y) /\ UNCHANGED <<config, stored, edits, crashes>>
    BY DEF Start, Started
  <1>3. mechanism.score \in Nat /\ edits \in Nat /\ crashes \in Nat /\ handed \in Seq(Findings)
    BY DEF Types
  <1>0. DOMAIN x = Fields
    BY <1>1
  <1> HIDE DEF next, x
  <1>4. /\ DOMAIN y = Fields /\ y.at = next /\ y.handed = handed
        /\ y.code = mechanism.score /\ y.scores = x.scores /\ y.done = x.done /\ y.since = edits
    BY <1>0, RowStarts
  <1> HIDE DEF y
  <1> USE DEF next, x
  <1>5. x.at \in Unfolded
    BY <1>1 DEF Unfolded
  <1>6. DOMAIN y.scores = {} /\ DOMAIN y.done = {}
    BY <1>1, <1>4, <1>5 DEF Held
  <1>7. /\ y.at \in Nodes /\ y.at \notin Loaded /\ y.at \notin Selected /\ y.at \notin Folded
        /\ y.at # "Compute Feature Vectors" /\ y.at # "Close Score Run"
    BY <1>4 DEF Nodes, Loaded, Selected, Folded, Begun
  <1>8. Held(y)
    BY <1>3, <1>4, <1>6, <1>7 DEF Held
  <1>9. Types' /\ OthersKept(p) /\ pass'[p] = y
    BY <1>2, <1>3, <1>8, PassAlone
  <1> QED
    BY <1>1, <1>4, <1>6, <1>9 DEF Starts, SameScores

LEMMA LoadEffect ==
    ASSUME Types, NEW p \in Passes, LoadDomainContext(p)
    PROVE  Types' /\ OthersKept(p) /\ Loads(p)
  <1> DEFINE x == pass[p]
             next == "Select Scoring Subjects"
             y == WithConfig(x, next, terms, weights)
  <1>1. Held(x) /\ x.at = "Load Domain Context" /\ DOMAIN x = Fields
    BY DEF Types, LoadDomainContext, At, Held
  <1>2. Only(p, y) /\ UNCHANGED <<config, stored, edits, crashes>>
    BY DEF LoadDomainContext, WithConfig
  <1>3. terms \in TermLists /\ weights \in Weightings /\ crashes \in Nat
    BY DEF Types
  <1>0. DOMAIN x = Fields
    BY <1>1
  <1> HIDE DEF next, x
  <1>4. /\ DOMAIN y = Fields /\ y.at = next /\ y.handed = x.handed
        /\ y.code = x.code /\ y.terms = terms /\ y.weights = weights
        /\ y.scores = x.scores /\ y.done = x.done /\ y.since = x.since
    BY <1>0, RowLoads
  <1> HIDE DEF y
  <1> USE DEF next, x
  <1>5. x.at \in Unfolded
    BY <1>1 DEF Unfolded
  <1>6. DOMAIN y.scores = {} /\ DOMAIN y.done = {}
    BY <1>1, <1>4, <1>5 DEF Held
  <1>7. /\ y.at \in Nodes /\ y.at \notin Selected /\ y.at \notin Folded
        /\ y.at # "Compute Feature Vectors" /\ y.at # "Close Score Run"
    BY <1>4 DEF Nodes, Loaded, Selected, Folded, Begun
  <1>8. Held(y)
    BY <1>1, <1>3, <1>4, <1>6, <1>7 DEF Held
  <1>9. Types' /\ OthersKept(p) /\ pass'[p] = y
    BY <1>2, <1>3, <1>8, PassAlone
  <1> QED
    BY <1>1, <1>4, <1>9 DEF Loads, SameScores

\* A pass that comes to an end, of its own or by a crash.
LEMMA EndEffect ==
    ASSUME Types, NEW p \in Passes, NEW a \in {"ended", "crashed"}, pass[p].at \in Begun,
           Only(p, [pass[p] EXCEPT !.at = a])
    PROVE  /\ OthersKept(p) /\ Ends(p)
           /\ DOMAIN pass' = Passes /\ \A q \in Passes : Held(pass'[q])
           /\ pass'[p].at = a
  <1> DEFINE x == pass[p]
             y == Moved(x, a)
  <1>1. Held(x) /\ DOMAIN x = Fields
    BY DEF Types, Held
  <1>2. Only(p, y)
    BY DEF Moved
  <1>3. y.at = a /\ y.handed = x.handed /\ y.scores = x.scores /\ y.done = x.done
        /\ y.since = x.since
    BY <1>1, RowMoves
  <1>4. Held(y)
    BY <1>1, EndedIsHeld
  <1> HIDE DEF y
  <1>5. OthersKept(p) /\ pass'[p] = y
    BY <1>2, OnePass
  <1>6. \A q \in Passes : Held(pass'[q])
    BY <1>4, <1>5, HeldAfter
  <1> QED
    BY <1>3, <1>5, <1>6 DEF Ends, SameScores, OthersKept

LEMMA SelectEffect ==
    ASSUME Types, NEW p \in Passes, SelectScoringSubjects(p)
    PROVE  Types' /\ OthersKept(p) /\ (Selects(p) \/ Ends(p))
  <1> DEFINE x == pass[p]
             read == [f \in Subjects(p) |-> features[DocumentOf[f]]]
             next == "Compute Feature Vectors"
             y == WithSubjects(x, next, criteria, read)
  <1>1. Held(x) /\ x.at = "Select Scoring Subjects" /\ DOMAIN x = Fields
    BY DEF Types, SelectScoringSubjects, At, Held
  <1>2. UNCHANGED <<config, stored, edits, crashes>> /\ crashes \in Nat /\ criteria \in Statements
    BY DEF SelectScoringSubjects, Types
  <1>3. CASE Subjects(p) = {}
    <2>1. Only(p, [pass[p] EXCEPT !.at = "ended"]) /\ x.at \in Begun
      BY <1>1, <1>3 DEF SelectScoringSubjects, Begun
    <2>2. OthersKept(p) /\ Ends(p) /\ DOMAIN pass' = Passes /\ \A q \in Passes : Held(pass'[q])
      BY <2>1, EndEffect
    <2> QED
      BY <1>2, <2>2 DEF Types, config, stored
  <1>4. CASE Subjects(p) # {}
    <2>1. Only(p, y)
      BY <1>4 DEF SelectScoringSubjects, WithSubjects
    <2>2. Subjects(p) \subseteq Named(x)
      BY DEF Subjects, Named
    <2>3. Named(x) \subseteq Findings
      <3>1. x.handed \in Seq(Findings)
        BY <1>1 DEF Held
      <3>2. \A i \in DOMAIN x.handed : x.handed[i] \in Findings
        BY <3>1
      <3> QED
        BY <3>2, Zenon DEF Named, ToSet
    <2>4. /\ DOMAIN read # {} /\ DOMAIN read \subseteq Named(x)
          /\ \A f \in DOMAIN read : read[f] \in Vector \cup {Null}
      <3>1. ASSUME NEW f \in Subjects(p)
            PROVE  read[f] \in Vector \cup {Null}
        <4>1. DocumentOf[f] \in Documents
          BY <2>2, <2>3
        <4> QED
          BY <4>1 DEF Types
      <3>2. DOMAIN read = Subjects(p)
        OBVIOUS
      <3> QED
        BY <1>4, <2>2, <3>1, <3>2
    <2> HIDE DEF read
    <2>0. DOMAIN x = Fields
      BY <1>1
    <2> HIDE DEF next, x
    <2>5. /\ DOMAIN y = Fields /\ y.at = next /\ y.handed = x.handed
          /\ y.code = x.code /\ y.terms = x.terms /\ y.weights = x.weights
          /\ y.criteria = criteria /\ y.read = read
          /\ y.scores = x.scores /\ y.done = x.done /\ y.since = x.since
      BY <2>0, RowSelects
    <2> HIDE DEF y
    <2> USE DEF next, x
    <2>6. x.at \in Unfolded /\ x.at \in Loaded
      BY <1>1 DEF Unfolded, Loaded, Begun
    <2>7. DOMAIN y.scores = {} /\ DOMAIN y.done = {}
      BY <1>1, <2>5, <2>6 DEF Held
    <2>8. y.at \in Nodes /\ y.at \notin Folded /\ y.at # "Close Score Run"
      BY <2>5 DEF Nodes, Folded
    <2>9. x.terms \in TermLists /\ x.weights \in Weightings
      BY <1>1, <2>6 DEF Held
    <2>10. Named(y) = Named(x)
      BY <2>5 DEF Named
    <2>11. Held(y)
      BY <1>1, <1>2, <2>4, <2>5, <2>7, <2>8, <2>9, <2>10 DEF Held
    <2>12. Types' /\ OthersKept(p) /\ pass'[p] = y
      BY <1>2, <2>1, <2>11, PassAlone
    <2> QED
      BY <1>1, <2>5, <2>12 DEF Selects, SameConfig, SameScores
  <1> QED
    BY <1>3, <1>4

\* A vector a pass folds is one the version takes for the one it would compute.
LEMMA VectorIsComparable ==
    ASSUME Types, NEW p \in Passes, pass[p].at = "Compute Feature Vectors",
           NEW f \in DOMAIN pass[p].read
    PROVE  VectorFor(p, f) \in Vector /\ Comparable(VectorFor(p, f), Computed(p))
  <1>1. Held(pass[p]) /\ pass[p].at \in Loaded
    BY DEF Types, Loaded, Begun
  <1>2. pass[p].read[f] \in Vector \cup {Null} /\ pass[p].code \in Nat /\ pass[p].terms \in TermLists
    BY <1>1 DEF Held
  <1>3. Computed(p) \in Vector
    BY <1>2 DEF Computed, Vector
  <1>4. CASE Reuses(p, pass[p].read[f])
    <2>1. VectorFor(p, f) = pass[p].read[f]
      BY <1>4 DEF VectorFor
    <2> QED
      BY <1>2, <1>4, <2>1 DEF Reuses
  <1>5. CASE ~ Reuses(p, pass[p].read[f])
    <2>1. VectorFor(p, f) = Computed(p)
      BY <1>5 DEF VectorFor
    <2> QED
      BY <1>3, <2>1 DEF Comparable
  <1> QED
    BY <1>4, <1>5

LEMMA FoldEffect ==
    ASSUME Types, NEW p \in Passes, ComputeScores(p)
    PROVE  Types' /\ OthersKept(p) /\ Folds(p)
  <1> DEFINE x == pass[p]
             scores == [f \in DOMAIN x.read |-> Total(VectorFor(p, f), x.criteria, x.weights)]
             next == "Write Finding Scores"
             y == WithScores(x, next, scores)
  <1>1. Held(x) /\ x.at = "Compute Feature Vectors" /\ DOMAIN x = Fields
    BY DEF Types, ComputeScores, At, Held
  <1>2. UNCHANGED <<config, stored, edits, crashes>> /\ crashes \in Nat
    BY DEF ComputeScores, Types
  <1>3. Only(p, y)
    BY DEF ComputeScores, WithScores
  <1>4. x.at \in Loaded /\ x.at \in Selected /\ x.at \in Unfolded
    BY <1>1 DEF Loaded, Selected, Unfolded, Begun
  <1>5. x.terms \in TermLists /\ x.weights \in Weightings /\ x.criteria \in Statements
    BY <1>1, <1>4 DEF Held
  <1>6. DOMAIN scores = DOMAIN x.read
    OBVIOUS
  <1>7. ASSUME NEW f \in DOMAIN x.read, scores[f] # Null
        PROVE  FoldedBy(x, scores[f])
    <2> DEFINE v == VectorFor(p, f)
    <2>1. v \in Vector /\ Comparable(v, Computed(p))
      BY <1>1, VectorIsComparable
    <2>2. scores[f] = Total(v, x.criteria, x.weights)
      OBVIOUS
    <2> HIDE DEF v, scores
    <2>3. scores[f] = [vector |-> v, criteria |-> x.criteria, weights |-> x.weights]
      BY <1>7, <2>2, TotalIs
    <2> QED
      BY <1>5, <2>1, <2>3 DEF FoldedBy, Score, Computed
  <1> HIDE DEF scores
  <1>0. DOMAIN x = Fields
    BY <1>1
  <1> HIDE DEF next, x
  <1>8. /\ DOMAIN y = Fields /\ y.at = next /\ y.handed = x.handed
        /\ y.code = x.code /\ y.terms = x.terms /\ y.weights = x.weights
        /\ y.criteria = x.criteria
        /\ y.scores = scores /\ y.done = x.done /\ y.since = x.since
    BY <1>0, RowFolds
  <1> HIDE DEF y
  <1> USE DEF next, x
  <1>9. y.at \in Nodes /\ y.at \notin Unfolded /\ y.at # "Close Score Run"
        /\ y.at # "Compute Feature Vectors"
    BY <1>8 DEF Nodes, Unfolded
  <1>10. DOMAIN x.read # {} /\ DOMAIN x.read \subseteq Named(x) /\ DOMAIN x.done = {}
    BY <1>1, <1>4 DEF Held
  <1>11. Named(y) = Named(x) /\ \A f \in DOMAIN scores : scores[f] # Null => FoldedBy(y, scores[f])
    BY <1>6, <1>7, <1>8 DEF Named, FoldedBy
  <1>12. Held(y)
    BY <1>1, <1>5, <1>6, <1>8, <1>9, <1>10, <1>11 DEF Held
  <1>13. Types' /\ OthersKept(p) /\ pass'[p] = y
    BY <1>2, <1>3, <1>12, PassAlone
  <1> QED
    BY <1>1, <1>8, <1>13 DEF Folds, SameConfig

\* A score is written only where the domain stands, for what the pass folded.
LEMMA ScoreWritten ==
    ASSUME Types, NEW p \in Passes, NEW f \in Findings, WriteFindingScore(p, f)
    PROVE  /\ score' \in [Findings -> Score \cup {Null}]
           /\ \A g \in Findings : score[g] # Null => score'[g] # Null
           /\ Writes(p, f) => score'[f] = pass[p].scores[f] /\ FoldedBy(pass[p], score'[f])
           /\ Writes(p, f) => score'[f] # Null
  <1>1. Held(pass[p]) /\ f \in DOMAIN pass[p].scores /\ score \in [Findings -> Score \cup {Null}]
    BY DEF Types, WriteFindingScore
  <1>2. CASE Writes(p, f)
    <2>1. pass[p].scores[f] # Null /\ score' = [score EXCEPT ![f] = pass[p].scores[f]]
      BY <1>2 DEF WriteFindingScore, Writes
    <2>2. FoldedBy(pass[p], pass[p].scores[f])
      BY <1>1, <2>1 DEF Held
    <2>3. pass[p].scores[f] \in Score
      BY <2>2 DEF FoldedBy
    <2> QED
      BY <1>1, <2>1, <2>2, <2>3
  <1>3. CASE ~ Writes(p, f)
    <2>1. score' = score
      BY <1>3 DEF WriteFindingScore
    <2> QED
      BY <1>1, <1>3, <2>1
  <1> QED
    BY <1>2, <1>3

LEMMA WriteEffect ==
    ASSUME Types, NEW p \in Passes, NEW f \in Findings, WriteFindingScore(p, f)
    PROVE  Types' /\ OthersKept(p) /\ WritesScore(p, f)
  <1> DEFINE x == pass[p]
             done == [g \in DOMAIN x.done \cup {f} |->
                        IF g = f THEN Writes(p, f) ELSE x.done[g]]
             next == IF DOMAIN done = DOMAIN x.scores THEN "Close Score Run" ELSE x.at
             y == WithDone(x, done, next)
  <1>1. Held(x) /\ x.at = "Write Finding Scores" /\ DOMAIN x = Fields
    BY DEF Types, WriteFindingScore, At, Held
  <1>2. /\ UNCHANGED <<config, features, featurizing, run, edits, crashes>>
        /\ f \in DOMAIN x.scores
    BY DEF WriteFindingScore
  <1>3. Only(p, y)
    BY <1>1 DEF WriteFindingScore, WithDone
  <1>4. DOMAIN done = DOMAIN x.done \cup {f}
    OBVIOUS
  <1>5. \A g \in DOMAIN done : done[g] = IF g = f THEN Writes(p, f) ELSE x.done[g]
    OBVIOUS
  <1>6. Writes(p, f) \in BOOLEAN
    BY DEF Writes, Types
  <1>7. \A g \in DOMAIN x.done : x.done[g] \in BOOLEAN
    BY <1>1 DEF Held
  <1>8. \A g \in DOMAIN done : done[g] \in BOOLEAN
    BY <1>4, <1>5, <1>6, <1>7
  <1>9. DOMAIN done \subseteq DOMAIN x.scores
    BY <1>1, <1>2, <1>4 DEF Held
  <1>10. /\ next \in {"Write Finding Scores", "Close Score Run"}
         /\ next = "Close Score Run" => DOMAIN done = DOMAIN x.scores
    BY <1>1
  <1>0. DOMAIN x = Fields
    BY <1>1
  <1> HIDE DEF next, done, x
  <1>11. /\ DOMAIN y = Fields /\ y.at = next /\ y.handed = x.handed
         /\ y.code = x.code /\ y.terms = x.terms /\ y.weights = x.weights
         /\ y.criteria = x.criteria
         /\ y.scores = x.scores /\ y.done = done /\ y.since = x.since
    BY <1>0, RowWrites
  <1> HIDE DEF y
  <1>12. /\ y.at \in Nodes /\ y.at \notin Unfolded /\ y.at \in Folded
         /\ y.at \in Loaded /\ y.at \in Selected /\ y.at # "Compute Feature Vectors"
    BY <1>10, <1>11 DEF Nodes, Unfolded, Folded, Selected, Loaded, Begun
  <1>13. x.at \in Folded /\ x.at \in Loaded /\ x.at \in Selected
    BY <1>1 DEF Folded, Selected, Loaded, Begun
  <1>14. Named(y) = Named(x)
    BY <1>11 DEF Named
  <1>15. \A g \in DOMAIN y.scores : y.scores[g] # Null => FoldedBy(y, y.scores[g])
    BY <1>1, <1>11 DEF Held, FoldedBy
  <1>16. Held(y)
    BY <1>1, <1>8, <1>9, <1>10, <1>11, <1>12, <1>13, <1>14, <1>15 DEF Held
  <1> USE DEF x
  <1>17. OthersKept(p) /\ pass'[p] = y
    BY <1>3, OnePass
  <1>18. DOMAIN pass' = Passes /\ \A q \in Passes : Held(pass'[q])
    BY <1>16, <1>17, HeldAfter DEF OthersKept
  <1>19. Types'
    BY <1>2, <1>18, ScoreWritten DEF Types, config
  <1> QED
    BY <1>1, <1>2, <1>4, <1>5, <1>11, <1>12, <1>17, <1>19 DEF WritesScore, SameConfig

\* The outcome of a pass is one of the statuses a run may have.
LEMMA OutcomeIsAStatus ==
    ASSUME NEW p
    PROVE  Outcome(p) \in {"ok", "partial", "failed"}
  BY DEF Outcome

LEMMA CloseEffect ==
    ASSUME Types, NEW p \in Passes, CloseScoreRun(p)
    PROVE  /\ Types' /\ OthersKept(p) /\ Ends(p) /\ score' = score
           /\ pass[p].at = "Close Score Run"
           /\ \/ /\ domain /\ pass'[p].at = "ended"
                 /\ run' = [run EXCEPT ![p] = Outcome(p)]
              \/ pass'[p].at = "crashed" /\ run' = run
  <1>1. pass[p].at = "Close Score Run" /\ pass[p].at \in Begun
    BY DEF CloseScoreRun, At, Begun
  <1>2. UNCHANGED <<config, features, featurizing, score, edits, crashes>>
    BY DEF CloseScoreRun
  <1>3. CASE domain
    <2>1. Only(p, [pass[p] EXCEPT !.at = "ended"]) /\ run' = [run EXCEPT ![p] = Outcome(p)]
      BY <1>3 DEF CloseScoreRun
    <2>2. run' \in [Passes -> Statuses]
      BY <2>1, OutcomeIsAStatus DEF Types, Statuses
    <2>3. /\ OthersKept(p) /\ Ends(p) /\ pass'[p].at = "ended"
          /\ DOMAIN pass' = Passes /\ \A q \in Passes : Held(pass'[q])
      BY <1>1, <2>1, EndEffect
    <2> QED
      BY <1>1, <1>2, <1>3, <2>1, <2>2, <2>3 DEF Types, config
  <1>4. CASE ~ domain
    <2>1. Only(p, [pass[p] EXCEPT !.at = "crashed"]) /\ run' = run
      BY <1>4 DEF CloseScoreRun
    <2>2. /\ OthersKept(p) /\ Ends(p) /\ pass'[p].at = "crashed"
          /\ DOMAIN pass' = Passes /\ \A q \in Passes : Held(pass'[q])
      BY <1>1, <2>1, EndEffect
    <2> QED
      BY <1>1, <1>2, <2>1, <2>2 DEF Types, config
  <1> QED
    BY <1>3, <1>4

LEMMA CrashEffect ==
    ASSUME Types, NEW p \in Passes, Crash(p)
    PROVE  /\ Types' /\ OthersKept(p) /\ Ends(p) /\ UNCHANGED <<config, stored, edits>>
           /\ pass'[p].at = "crashed"
  <1>1. /\ Only(p, [pass[p] EXCEPT !.at = "crashed"]) /\ UNCHANGED <<config, stored, edits>>
        /\ crashes' = crashes + 1
    BY DEF Crash
  <1>2. pass[p].at \in Begun
    <2>1. pass[p].at \in Nodes
      BY DEF Types, Held
    <2> QED
      BY <2>1 DEF Crash, Nodes, Begun
  <1>3. /\ OthersKept(p) /\ Ends(p) /\ pass'[p].at = "crashed"
        /\ DOMAIN pass' = Passes /\ \A q \in Passes : Held(pass'[q])
    BY <1>1, <1>2, EndEffect
  <1> QED
    BY <1>1, <1>3 DEF Types, config, stored

-----------------------------------------------------------------------------
(* What happens beside the passes.                                         *)

\* The operator and a deployment leave the passes alone, and are counted.
LEMMA OperatorEffect ==
    ASSUME Types, Operator
    PROVE  /\ Types' /\ pass' = pass /\ edits' = edits + 1
           /\ \/ domain' = domain /\ score' = score /\ run' = run
              \/ ~ domain' /\ run' = [p \in Passes |-> "absent"]
  <1>1. ASSUME NEW t \in TermLists, NEW k \in Statements, EditTaxonomy(t, k)
        PROVE  /\ Types' /\ pass' = pass /\ edits' = edits + 1
               /\ domain' = domain /\ score' = score /\ run' = run
    BY <1>1 DEF Types, EditTaxonomy, Edit, Unread
  <1>2. ASSUME NEW w \in Weightings, PatchDomain(w)
        PROVE  /\ Types' /\ pass' = pass /\ edits' = edits + 1
               /\ domain' = domain /\ score' = score /\ run' = run
    BY <1>2 DEF Types, PatchDomain, Edit, Unread
  <1>3. ASSUME NEW w \in {"ingest", "score"}, DeployWorkflow(w)
        PROVE  /\ Types' /\ pass' = pass /\ edits' = edits + 1
               /\ domain' = domain /\ score' = score /\ run' = run
    BY <1>3 DEF Types, DeployWorkflow, Edit, Unread
  <1>4. ASSUME DeleteDomain
        PROVE  /\ Types' /\ pass' = pass /\ edits' = edits + 1
               /\ ~ domain' /\ run' = [p \in Passes |-> "absent"]
    <2>1. /\ pass' = pass /\ edits' = edits + 1 /\ domain' = FALSE
          /\ features' = [d \in Documents |-> Null] /\ score' = [f \in Findings |-> Null]
          /\ run' = [p \in Passes |-> "absent"]
          /\ UNCHANGED <<mechanism, terms, criteria, weights, featurizing, crashes>>
      BY <1>4 DEF DeleteDomain, Edit
    <2>2. run' \in [Passes -> Statuses]
      BY <2>1 DEF Statuses
    <2>3. DOMAIN pass' = Passes /\ \A p \in Passes : Held(pass'[p])
      BY <2>1 DEF Types
    <2>4. features' \in [Documents -> Vector \cup {Null}]
      BY <2>1
    <2>5. score' \in [Findings -> Score \cup {Null}]
      BY <2>1
    <2>6. mechanism' \in [{"ingest", "score"} -> Nat] /\ domain' \in BOOLEAN
      BY <2>1 DEF Types
    <2>7. terms' \in TermLists /\ criteria' \in Statements /\ weights' \in Weightings
      BY <2>1 DEF Types
    <2>8. featurizing' \in [Documents -> Vector \cup {Null}] /\ edits' \in Nat /\ crashes' \in Nat
      BY <2>1 DEF Types
    <2>9. Types'
      BY <2>2, <2>3, <2>4, <2>5, <2>6, <2>7, <2>8 DEF Types
    <2> QED
      BY <2>1, <2>9
  <1> QED
    BY <1>1, <1>2, <1>3, <1>4 DEF Operator

\* The ingest pass writes vectors only.
LEMMA IngestEffect ==
    ASSUME Types, NEW d \in Documents, IngestLoads(d) \/ WriteDocumentFeatures(d)
    PROVE  Types' /\ UNCHANGED <<config, score, pass, run, edits>>
  <1>1. CASE IngestLoads(d)
    <2>1. [mechanism |-> mechanism.ingest, terms |-> terms] \in Vector
      BY DEF Types, Vector
    <2>2. featurizing' \in [Documents -> Vector \cup {Null}]
      BY <1>1, <2>1 DEF IngestLoads, Types
    <2> QED
      BY <1>1, <2>2 DEF IngestLoads, Types, config
  <1>2. CASE WriteDocumentFeatures(d)
    <2>1. features' \in [Documents -> Vector \cup {Null}]
      BY <1>2 DEF WriteDocumentFeatures, Types
    <2> QED
      BY <1>2, <2>1 DEF WriteDocumentFeatures, Types, config
  <1> QED
    BY <1>1, <1>2

LEMMA StutterEffect ==
    ASSUME Types, UNCHANGED vars
    PROVE  Types' /\ UNCHANGED <<config, stored, pass, edits>>
  BY DEF Types, vars, config, stored

\* A step of a pass, by what it leaves the pass with.
LEMMA PassEffect ==
    ASSUME Types, NEW p \in Passes, PassStep(p)
    PROVE  /\ Types' /\ OthersKept(p) /\ UNCHANGED <<config, edits>>
           /\ \/ (Starts(p) \/ Loads(p) \/ Selects(p) \/ Folds(p)) /\ score' = score /\ run' = run
              \/ \E f \in Findings : WriteFindingScore(p, f) /\ WritesScore(p, f) /\ run' = run
              \/ Ends(p) /\ score' = score /\ run' = run
              \/ /\ Ends(p) /\ score' = score /\ CloseScoreRun(p)
                 /\ domain /\ pass[p].at = "Close Score Run" /\ pass'[p].at = "ended"
                 /\ run' = [run EXCEPT ![p] = Outcome(p)]
  <1>1. ASSUME NEW handed \in Handovers, Start(p, handed)
        PROVE  /\ Types' /\ OthersKept(p) /\ Starts(p) /\ UNCHANGED <<config, edits>>
               /\ score' = score /\ run' = run
    BY <1>1, StartEffect DEF Start, stored
  <1>2. ASSUME LoadDomainContext(p)
        PROVE  /\ Types' /\ OthersKept(p) /\ Loads(p) /\ UNCHANGED <<config, edits>>
               /\ score' = score /\ run' = run
    BY <1>2, LoadEffect DEF LoadDomainContext, stored
  <1>3. ASSUME SelectScoringSubjects(p)
        PROVE  /\ Types' /\ OthersKept(p) /\ (Selects(p) \/ Ends(p)) /\ UNCHANGED <<config, edits>>
               /\ score' = score /\ run' = run
    BY <1>3, SelectEffect DEF SelectScoringSubjects, stored
  <1>4. ASSUME ComputeScores(p)
        PROVE  /\ Types' /\ OthersKept(p) /\ Folds(p) /\ UNCHANGED <<config, edits>>
               /\ score' = score /\ run' = run
    BY <1>4, FoldEffect DEF ComputeScores, stored
  <1>5. ASSUME NEW f \in Findings, WriteFindingScore(p, f)
        PROVE  /\ Types' /\ OthersKept(p) /\ WritesScore(p, f) /\ UNCHANGED <<config, edits>>
               /\ run' = run
    BY <1>5, WriteEffect DEF WriteFindingScore
  <1>6. ASSUME CloseScoreRun(p)
        PROVE  /\ Types' /\ OthersKept(p) /\ Ends(p) /\ UNCHANGED <<config, edits>>
               /\ score' = score
               /\ \/ /\ domain /\ pass[p].at = "Close Score Run" /\ pass'[p].at = "ended"
                     /\ run' = [run EXCEPT ![p] = Outcome(p)]
                  \/ run' = run
    BY <1>6, CloseEffect DEF CloseScoreRun
  <1> QED
    BY <1>1, <1>2, <1>3, <1>4, <1>5, <1>6 DEF PassStep

LEMMA TypesKept ==
    ASSUME Types, [Next]_vars
    PROVE  Types'
  <1>1. CASE Operator
    BY <1>1, OperatorEffect
  <1>2. ASSUME NEW d \in Documents, IngestLoads(d) \/ WriteDocumentFeatures(d)
        PROVE  Types'
    BY <1>2, IngestEffect
  <1>3. ASSUME NEW p \in Passes, PassStep(p)
        PROVE  Types'
    BY <1>3, PassEffect
  <1>4. ASSUME NEW p \in Passes, Crash(p)
        PROVE  Types'
    BY <1>4, CrashEffect
  <1>5. CASE UNCHANGED vars
    BY <1>5, StutterEffect
  <1> QED
    BY <1>1, <1>2, <1>3, <1>4, <1>5 DEF Next

-----------------------------------------------------------------------------
(* What a pass holds is in force until the configuration is edited.        *)

Current(p) ==
    /\ pass[p].since <= edits
    /\ pass[p].since = edits =>
        /\ pass[p].at \in Begun => pass[p].code = mechanism.score
        /\ pass[p].at \in Loaded => pass[p].terms = terms /\ pass[p].weights = weights
        /\ pass[p].at \in Selected => pass[p].criteria = criteria

LEMMA CurrentStays ==
    ASSUME NEW q, Current(q), pass'[q] = pass[q], UNCHANGED <<config, edits>>
    PROVE  Current(q)'
  BY DEF Current, config

LEMMA CurrentKept ==
    ASSUME Types, \A q \in Passes : Current(q), [Next]_vars
    PROVE  \A q \in Passes : Current(q)'
  <1>1. ASSUME Operator
        PROVE  \A q \in Passes : Current(q)'
    <2>1. pass' = pass /\ edits' = edits + 1 /\ edits \in Nat
      BY <1>1, OperatorEffect DEF Types
    <2>2. ASSUME NEW q \in Passes
          PROVE  Current(q)'
      <3>1. pass[q].since \in Nat /\ pass[q].since <= edits
        BY DEF Types, Held, Current
      <3>2. pass'[q].since < edits'
        BY <2>1, <3>1
      <3> QED
        BY <2>1, <3>1, <3>2 DEF Current
    <2> QED
      BY <2>2
  <1>2. ASSUME UNCHANGED <<config, pass, edits>>
        PROVE  \A q \in Passes : Current(q)'
    BY <1>2, CurrentStays
  <1>3. ASSUME NEW p \in Passes, OthersKept(p), Current(p)', UNCHANGED <<config, edits>>
        PROVE  \A q \in Passes : Current(q)'
    BY <1>3, CurrentStays DEF OthersKept
  <1>4. ASSUME NEW p \in Passes, Ends(p), UNCHANGED <<config, edits>>
        PROVE  Current(p)'
    <2>1. pass'[p].at \notin Begun
      BY <1>4 DEF Ends, Begun
    <2> QED
      BY <1>4, <2>1 DEF Current, Ends, config, Loaded, Selected
  <1>5. ASSUME NEW p \in Passes, PassStep(p)
        PROVE  \A q \in Passes : Current(q)'
    <2>1. OthersKept(p) /\ UNCHANGED <<config, edits>>
      BY <1>5, PassEffect
    <2>2. CASE Starts(p)
      <3>1. pass'[p].at \notin Loaded /\ pass'[p].at \notin Selected
        BY <2>2 DEF Starts, Loaded, Selected, Begun
      <3>2. edits' = edits /\ mechanism' = mechanism /\ edits \in Nat
        BY <2>1 DEF config, Types
      <3>3. pass'[p].since = edits /\ pass'[p].code = mechanism.score
        BY <2>2 DEF Starts
      <3>4. pass'[p].since <= edits'
        BY <3>2, <3>3
      <3>5. pass'[p].code = mechanism'.score
        BY <3>2, <3>3
      <3>6. Current(p)'
        BY <3>1, <3>4, <3>5 DEF Current
      <3> QED
        BY <1>3, <2>1, <3>6
    <2>3. CASE Loads(p)
      <3>1. pass'[p].at \notin Selected /\ pass[p].at \in Begun
        BY <2>3 DEF Loads, Loaded, Selected, Begun
      <3>2. Current(p)'
        BY <2>1, <2>3, <3>1 DEF Current, Loads, config
      <3> QED
        BY <1>3, <2>1, <3>2
    <2>4. CASE Selects(p)
      <3>1. pass[p].at \in Begun /\ pass[p].at \in Loaded
        BY <2>4 DEF Selects, Loaded, Begun
      <3>2. Current(p)'
        BY <2>1, <2>4, <3>1 DEF Current, Selects, SameConfig, config
      <3> QED
        BY <1>3, <2>1, <3>2
    <2>5. CASE Folds(p)
      <3>1. pass[p].at \in Begun /\ pass[p].at \in Loaded /\ pass[p].at \in Selected
        BY <2>5 DEF Folds, Loaded, Begun, Selected
      <3>2. Current(p)'
        BY <2>1, <2>5, <3>1 DEF Current, Folds, SameConfig, config
      <3> QED
        BY <1>3, <2>1, <3>2
    <2>6. CASE \E f \in Findings : WritesScore(p, f)
      <3>1. PICK f \in Findings : WritesScore(p, f)
        BY <2>6
      <3>2. pass[p].at \in Begun /\ pass[p].at \in Loaded /\ pass[p].at \in Selected
        BY <3>1 DEF WritesScore, Loaded, Begun, Selected
      <3>3. Current(p)'
        BY <2>1, <3>1, <3>2 DEF Current, WritesScore, SameConfig, config
      <3> QED
        BY <1>3, <2>1, <3>3
    <2>7. CASE Ends(p)
      BY <1>3, <1>4, <2>1, <2>7
    <2> QED
      BY <1>5, <2>2, <2>3, <2>4, <2>5, <2>6, <2>7, PassEffect
  <1>6. ASSUME NEW p \in Passes, Crash(p)
        PROVE  \A q \in Passes : Current(q)'
    <2>1. OthersKept(p) /\ Ends(p) /\ UNCHANGED <<config, edits>>
      BY <1>6, CrashEffect
    <2> QED
      BY <1>3, <1>4, <2>1
  <1>7. ASSUME NEW d \in Documents, IngestLoads(d) \/ WriteDocumentFeatures(d)
        PROVE  UNCHANGED <<config, pass, edits>>
    BY <1>7, IngestEffect
  <1>8. CASE UNCHANGED vars
    BY <1>2, <1>8 DEF vars, config
  <1> QED
    BY <1>1, <1>2, <1>5, <1>6, <1>7, <1>8 DEF Next

-----------------------------------------------------------------------------
(* What a pass says it wrote stands for as long as its domain does.        *)

Told(p) ==
    /\ run[p] # "absent" =>
        /\ pass[p].at = "ended" /\ domain
        /\ run[p] = Outcome(p) /\ DOMAIN pass[p].done # {}
    /\ domain => \A f \in DOMAIN pass[p].done : pass[p].done[f] => score[f] # Null

LEMMA OutcomeFollows ==
    ASSUME NEW p, pass'[p].handed = pass[p].handed, pass'[p].done = pass[p].done
    PROVE  Outcome(p)' = Outcome(p)
  BY DEF Outcome, Scored

LEMMA DoneAreFindings ==
    ASSUME Types, NEW p \in Passes
    PROVE  /\ DOMAIN pass[p].done \subseteq ToSet(pass[p].handed) \ Foreign
           /\ DOMAIN pass[p].done \subseteq Findings
  <1>1. /\ pass[p].handed \in Seq(Findings)
        /\ DOMAIN pass[p].done \subseteq DOMAIN pass[p].scores
        /\ DOMAIN pass[p].scores \subseteq Named(pass[p])
    BY DEF Types, Held
  <1>2. \A i \in DOMAIN pass[p].handed : pass[p].handed[i] \in Findings
    BY <1>1
  <1>3. ToSet(pass[p].handed) \subseteq Findings
    BY <1>2, Zenon DEF ToSet
  <1> QED
    BY <1>1, <1>3 DEF Named

\* A step that takes no score away and leaves the domain, the run and what the pass
\* was handed and did as they are.
LEMMA ToldStays ==
    ASSUME Types, NEW q \in Passes, Told(q), domain' = domain, run'[q] = run[q],
           pass'[q].at = pass[q].at \/ run[q] = "absent",
           pass'[q].handed = pass[q].handed \/ run[q] = "absent",
           pass'[q].done = pass[q].done,
           \A g \in Findings : score[g] # Null => score'[g] # Null
    PROVE  Told(q)'
  <1>1. run'[q] # "absent" =>
            /\ pass'[q].at = "ended" /\ domain'
            /\ run'[q] = Outcome(q)' /\ DOMAIN pass'[q].done # {}
    BY OutcomeFollows DEF Told
  <1>2. domain' => \A f \in DOMAIN pass'[q].done : pass'[q].done[f] => score'[f] # Null
    BY DoneAreFindings DEF Told
  <1> QED
    BY <1>1, <1>2 DEF Told

LEMMA Unended ==
    ASSUME NEW q, Told(q), pass[q].at # "ended"
    PROVE  run[q] = "absent"
  BY DEF Told

LEMMA ToldKept ==
    ASSUME Types, \A q \in Passes : Told(q), [Next]_vars
    PROVE  \A q \in Passes : Told(q)'
  <1>1. ASSUME UNCHANGED <<domain, pass, run, score>>
        PROVE  \A q \in Passes : Told(q)'
    BY <1>1, ToldStays
  <1>2. ASSUME Operator
        PROVE  \A q \in Passes : Told(q)'
    <2>1. CASE domain' = domain /\ score' = score /\ run' = run
      BY <1>1, <1>2, <2>1, OperatorEffect
    <2>2. CASE ~ domain' /\ run' = [p \in Passes |-> "absent"]
      BY <2>2 DEF Told
    <2> QED
      BY <1>2, <2>1, <2>2, OperatorEffect
  <1>3. ASSUME NEW p \in Passes, OthersKept(p), domain' = domain,
               \A q \in Passes \ {p} : run'[q] = run[q],
               \A g \in Findings : score[g] # Null => score'[g] # Null, Told(p)'
        PROVE  \A q \in Passes : Told(q)'
    BY <1>3, ToldStays DEF OthersKept
  <1>4. ASSUME NEW p \in Passes, OthersKept(p), domain' = domain, score' = score, run' = run,
               pass[p].at # "ended", pass'[p].done = pass[p].done
        PROVE  \A q \in Passes : Told(q)'
    <2>1. run[p] = "absent"
      BY <1>4, Unended
    <2>2. Told(p)'
      BY <1>4, <2>1, ToldStays
    <2> QED
      BY <1>3, <1>4, <2>2
  <1>5. ASSUME NEW p \in Passes, PassStep(p)
        PROVE  \A q \in Passes : Told(q)'
    <2>1. OthersKept(p) /\ domain' = domain
      BY <1>5, PassEffect DEF config
    <2>2. ASSUME Starts(p) \/ Loads(p) \/ Selects(p) \/ Folds(p) \/ Ends(p),
                 score' = score, run' = run
          PROVE  \A q \in Passes : Told(q)'
      <3>1. pass[p].at # "ended" /\ pass'[p].done = pass[p].done
        BY <2>2 DEF Starts, Loads, Selects, Folds, Ends, SameScores, Begun
      <3> QED
        BY <1>4, <2>1, <2>2, <3>1
    <2>3. ASSUME NEW f \in Findings, WriteFindingScore(p, f), WritesScore(p, f), run' = run
          PROVE  \A q \in Passes : Told(q)'
      <3>1. /\ \A g \in Findings : score[g] # Null => score'[g] # Null
            /\ Writes(p, f) => score'[f] # Null
        BY <2>3, ScoreWritten
      <3>2. run'[p] = "absent"
        BY <2>3, Unended DEF WritesScore
      <3>3. ASSUME domain', NEW g \in DOMAIN pass'[p].done, pass'[p].done[g]
            PROVE  score'[g] # Null
        <4>1. CASE g = f
          BY <2>3, <3>1, <3>3, <4>1 DEF WritesScore
        <4>2. CASE g # f
          <5>1. g \in DOMAIN pass[p].done /\ pass[p].done[g]
            BY <2>3, <3>3, <4>2 DEF WritesScore
          <5>2. score[g] # Null /\ g \in Findings
            BY <2>1, <3>3, <5>1, DoneAreFindings DEF Told
          <5> QED
            BY <3>1, <5>2
        <4> QED
          BY <4>1, <4>2
      <3>4. Told(p)'
        BY <3>2, <3>3 DEF Told
      <3> QED
        BY <1>3, <2>1, <2>3, <3>1, <3>4
    <2>4. ASSUME Ends(p), score' = score, CloseScoreRun(p), domain,
                 pass[p].at = "Close Score Run", pass'[p].at = "ended",
                 run' = [run EXCEPT ![p] = Outcome(p)]
          PROVE  \A q \in Passes : Told(q)'
      <3>1. Held(pass[p]) /\ pass[p].at \in Folded
        BY <2>4 DEF Types, Folded, Selected, Loaded, Begun
      <3>2. DOMAIN pass[p].done # {}
        BY <2>4, <3>1 DEF Held
      <3>3. pass'[p].handed = pass[p].handed /\ pass'[p].done = pass[p].done
        BY <2>4 DEF Ends, SameScores
      <3>4. run'[p] = Outcome(p) /\ \A q \in Passes \ {p} : run'[q] = run[q]
        BY <2>4 DEF Types
      <3>5. run'[p] = Outcome(p)'
        BY <3>3, <3>4, OutcomeFollows
      <3>6. domain' => \A f \in DOMAIN pass'[p].done : pass'[p].done[f] => score'[f] # Null
        BY <2>1, <2>4, <3>3 DEF Told
      <3>7. Told(p)'
        BY <2>1, <2>4, <3>2, <3>3, <3>5, <3>6 DEF Told
      <3> QED
        BY <1>3, <2>1, <2>4, <3>4, <3>7
    <2> QED
      BY <1>5, <2>2, <2>3, <2>4, PassEffect
  <1>6. ASSUME NEW p \in Passes, Crash(p)
        PROVE  \A q \in Passes : Told(q)'
    <2>1. /\ OthersKept(p) /\ Ends(p) /\ domain' = domain /\ score' = score /\ run' = run
      BY <1>6, CrashEffect DEF config, stored
    <2>2. pass[p].at # "ended" /\ pass'[p].done = pass[p].done
      BY <2>1 DEF Ends, SameScores, Begun
    <2> QED
      BY <1>4, <2>1, <2>2
  <1>7. ASSUME NEW d \in Documents, IngestLoads(d) \/ WriteDocumentFeatures(d)
        PROVE  \A q \in Passes : Told(q)'
    BY <1>1, <1>7, IngestEffect DEF config
  <1>8. CASE UNCHANGED vars
    BY <1>1, <1>8 DEF vars
  <1> QED
    BY <1>2, <1>5, <1>6, <1>7, <1>8 DEF Next

LEMMA ListIsFinite ==
    ASSUME NEW s \in Seq(Findings)
    PROVE  IsFiniteSet(ToSet(s)) /\ Cardinality(ToSet(s)) <= Len(s)
  <1> DEFINE T == ToSet(s)
             D == 1..Len(s)
  <1>1. Len(s) \in Nat /\ DOMAIN s = D
    OBVIOUS
  <1>2. IsFiniteSet(D) /\ Cardinality(D) = Len(s)
    <2> DEFINE n == Len(s)
    <2>1. n \in Int /\ 1 \in Int /\ n \in Nat
      BY <1>1
    <2> HIDE DEF n
    <2>2. IsFiniteSet(1..n) /\ Cardinality(1..n) = IF 1 > n THEN 0 ELSE n - 1 + 1
      BY <2>1, FS_Interval
    <2>3. Cardinality(1..n) = n
      BY <2>1, <2>2
    <2> QED
      BY <2>2, <2>3 DEF n
  <1>3. s \in Surjection(D, T)
    <2>1. \A i \in D : s[i] \in T
      BY <1>1, Zenon DEF ToSet
    <2>2. s \in [D -> T]
      BY <1>1, <2>1
    <2>3. \A t \in T : \E i \in D : s[i] = t
      BY <1>1, Zenon DEF ToSet
    <2> QED
      BY <2>2, <2>3 DEF Surjection
  <1>4. IsFiniteSet(T) /\ Cardinality(T) <= Len(s)
    <2> HIDE DEF D, T
    <2> QED
      BY <1>2, <1>3, FS_Surjection
  <1> QED
    BY <1>4

\* A selection as large as the list handed over leaves nothing of it out.
LEMMA AllOfTheList ==
    ASSUME NEW s \in Seq(Findings), NEW S \in SUBSET ToSet(s), Len(s) <= Cardinality(S)
    PROVE  S = ToSet(s)
  <1> DEFINE T == ToSet(s)
  <1>1. Len(s) \in Nat
    OBVIOUS
  <1>2. IsFiniteSet(T) /\ Cardinality(T) <= Len(s)
    BY ListIsFinite
  <1>3. Cardinality(S) <= Cardinality(T) /\ (Cardinality(T) = Cardinality(S) => S = T)
    BY <1>2, FS_Subset
  <1>4. IsFiniteSet(S)
    BY <1>2, FS_Subset
  <1>5. Cardinality(S) \in Nat /\ Cardinality(T) \in Nat
    BY <1>2, <1>4, FS_CardinalityType
  <1> HIDE DEF T
  <1>6. Cardinality(T) = Cardinality(S)
    BY <1>1, <1>2, <1>3, <1>5
  <1> USE DEF T
  <1> QED
    BY <1>3, <1>6

-----------------------------------------------------------------------------
(* The results.                                                            *)

ScoringInv ==
    /\ Types
    /\ \A q \in Passes : Current(q)
    /\ \A q \in Passes : Told(q)

LEMMA ScoringInductive ==
    /\ Init => ScoringInv
    /\ ScoringInv /\ [Next]_vars => ScoringInv'
  <1>1. ASSUME Init
        PROVE  ScoringInv
    <2>1. Types
      BY <1>1, InitTypes
    <2>2. ASSUME NEW q \in Passes
          PROVE  pass[q] = Idle /\ run[q] = "absent" /\ edits = 0
      BY <1>1 DEF Init
    <2>3. /\ Idle.at = "Execute Workflow Trigger" /\ Idle.since = 0 /\ Idle.done = << >>
          /\ DOMAIN << >> = {}
      BY DEF Idle
    <2>4. Idle.at \notin Begun /\ Idle.at \notin Loaded /\ Idle.at \notin Selected
      BY <2>3 DEF Begun, Loaded, Selected
    <2>5. ASSUME NEW q \in Passes
          PROVE  Current(q)
      <3>1. pass[q].since = 0 /\ edits = 0
        BY <2>2, <2>3, Zenon
      <3>2. pass[q].since <= edits
        BY <3>1
      <3>3. pass[q].at \notin Begun /\ pass[q].at \notin Loaded /\ pass[q].at \notin Selected
        BY <2>2, <2>4, Zenon
      <3> QED
        BY <3>2, <3>3, Zenon DEF Current
    <2>6. ASSUME NEW q \in Passes
          PROVE  Told(q)
      <3>1. DOMAIN pass[q].done = {}
        BY <2>2, <2>3, Zenon
      <3> QED
        BY <2>2, <3>1 DEF Told
    <2> QED
      BY <2>1, <2>5, <2>6 DEF ScoringInv
  <1>2. ASSUME ScoringInv, [Next]_vars
        PROVE  ScoringInv'
    <2>1. Types' /\ (\A q \in Passes : Current(q)') /\ \A q \in Passes : Told(q)'
      BY <1>2, TypesKept, CurrentKept, ToldKept DEF ScoringInv
    <2> QED
      BY <2>1 DEF ScoringInv
  <1> QED
    BY <1>1, <1>2

LEMMA ScoringHolds == Spec => []ScoringInv
  BY ScoringInductive, PTL DEF Spec

\* Every variable of the scoring pass keeps its type.
THEOREM ScoringTypes == Spec => []TypeOK
  <1>1. DOMAIN Idle = Fields
    BY DEF Idle, Fields
  <1>2. ScoringInv => TypeOK
    BY <1>1 DEF ScoringInv, Types, Held, TypeOK
  <1> QED
    BY <1>2, ScoringHolds, PTL

\* What one pass scores can be ranked together, however many deployments and edits
\* stand between the vectors it reused.  (Compute Feature Vectors of ar-score reuses a
\* stored vector only at its own version.)
THEOREM ScoresCompare == Spec => []ScoresOfAPassCompare
  <1>1. ASSUME ScoringInv, NEW p \in Passes, NEW f \in DOMAIN pass[p].scores,
               NEW g \in DOMAIN pass[p].scores,
               pass[p].scores[f] # Null, pass[p].scores[g] # Null
        PROVE  Alike(pass[p].scores[f], pass[p].scores[g])
    <2>1. Held(pass[p])
      BY <1>1 DEF ScoringInv, Types
    <2>2. FoldedBy(pass[p], pass[p].scores[f]) /\ FoldedBy(pass[p], pass[p].scores[g])
      BY <1>1, <2>1 DEF Held
    <2> QED
      BY <2>2 DEF FoldedBy, Alike, Comparable
  <1>2. ScoringInv => ScoresOfAPassCompare
    BY <1>1 DEF ScoresOfAPassCompare
  <1> QED
    BY <1>2, ScoringHolds, PTL

\* Where a run says ok, all its caller named has a score and goes on having one for as
\* long as the run stands; where it says partial, some do.  (Close Score Run counts the
\* list as it was handed over; Write Finding Scores never writes a null over a score.)
THEOREM RunsTellTheScores == Spec => []StatusTellsTheScores
  <1>1. ASSUME ScoringInv, NEW p \in Passes, run[p] = "ok", NEW f \in ToSet(pass[p].handed)
        PROVE  f \notin Foreign /\ score[f] # Null
    <2> DEFINE S == DOMAIN pass[p].done
    <2>1. Types /\ Told(p) /\ pass[p].handed \in Seq(Findings) /\ domain
          /\ Outcome(p) = "ok"
      BY <1>1 DEF ScoringInv, Types, Held, Told
    <2>2. S \subseteq ToSet(pass[p].handed) \ Foreign
      BY <2>1, DoneAreFindings
    <2>3. Scored(p) = S /\ ~ (Len(pass[p].handed) > Cardinality(S))
      BY <2>1 DEF Outcome
    <2>4. Len(pass[p].handed) <= Cardinality(S)
      <3>1. Len(pass[p].handed) \in Nat
        BY <2>1
      <3>2. S \in SUBSET ToSet(pass[p].handed)
        BY <2>2
      <3>3. IsFiniteSet(ToSet(pass[p].handed))
        BY <2>1, ListIsFinite
      <3>4. Cardinality(S) \in Nat
        BY <3>2, <3>3, FS_Subset, FS_CardinalityType
      <3> QED
        BY <2>3, <3>1, <3>4
    <2>5. S = ToSet(pass[p].handed)
      BY <2>1, <2>2, <2>4, AllOfTheList
    <2>6. f \in S /\ pass[p].done[f]
      BY <1>1, <2>3, <2>5 DEF Scored
    <2> QED
      BY <2>1, <2>2, <2>6 DEF Told
  <1>2. ASSUME ScoringInv, NEW p \in Passes, run[p] = "partial"
        PROVE  \E f \in ToSet(pass[p].handed) : score[f] # Null
    <2>1. Types /\ Told(p) /\ domain /\ Outcome(p) = "partial" /\ DOMAIN pass[p].done # {}
      BY <1>2 DEF ScoringInv, Told
    <2>2. Scored(p) # {}
      BY <2>1 DEF Outcome
    <2>3. PICK f \in DOMAIN pass[p].done : pass[p].done[f]
      BY <2>2 DEF Scored
    <2> QED
      BY <2>1, <2>3, DoneAreFindings DEF Told
  <1>3. ScoringInv => StatusTellsTheScores
    BY <1>1, <1>2 DEF StatusTellsTheScores
  <1> QED
    BY <1>3, ScoringHolds, PTL

\* A pass no edit or deployment came between writes the score the configuration now in
\* force gives, as far as the version tells configurations apart.  (Load Domain Context
\* and Select Scoring Subjects read the configuration in two statements.)
THEOREM UndisturbedScoresAreCurrent == Spec => UndisturbedScoreIsCurrent
  <1> DEFINE Step == \A p \in Passes, f \in Findings :
                        /\ WriteFindingScore(p, f) /\ Writes(p, f)
                        /\ pass[p].since = edits
                        => Alike(score'[f],
                                 [vector |-> [mechanism |-> mechanism.score, terms |-> terms],
                                  criteria |-> criteria, weights |-> weights])
  <1>1. ASSUME ScoringInv, NEW p \in Passes, NEW f \in Findings, WriteFindingScore(p, f),
               Writes(p, f), pass[p].since = edits
        PROVE  Alike(score'[f],
                     [vector |-> [mechanism |-> mechanism.score, terms |-> terms],
                      criteria |-> criteria, weights |-> weights])
    <2>1. FoldedBy(pass[p], score'[f])
      BY <1>1, ScoreWritten DEF ScoringInv
    <2>2. pass[p].at \in Begun /\ pass[p].at \in Loaded /\ pass[p].at \in Selected
      BY <1>1 DEF WriteFindingScore, At, Begun, Loaded, Selected
    <2>3. /\ pass[p].code = mechanism.score /\ pass[p].terms = terms
          /\ pass[p].weights = weights /\ pass[p].criteria = criteria
      BY <1>1, <2>2 DEF ScoringInv, Current
    <2> QED
      BY <2>1, <2>3 DEF FoldedBy, Alike
  <1>2. ScoringInv /\ [Next]_vars => [Step]_vars
    BY <1>1
  <1> QED
    BY <1>2, ScoringHolds, PTL DEF Spec, UndisturbedScoreIsCurrent
=============================================================================
