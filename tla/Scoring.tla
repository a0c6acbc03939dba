------------------------------ MODULE Scoring -------------------------------
(***************************************************************************)
(* The scoring pass (ar-score) of one domain: it is handed findings,       *)
(* reuses or computes the feature vector of each one's document, folds the *)
(* vector into a score by the criteria and weights the domain states, and  *)
(* writes the scores and the runs row.                                     *)
(*                                                                         *)
(* Two statements read the configuration, an operator may edit it between  *)
(* any two, and a deployment may change what the columns of a vector mean. *)
(* A vector or a score is known by what it was computed from; the number   *)
(* itself is arithmetic.                                                   *)
(***************************************************************************)
EXTENDS Integers, Sequences, FiniteSets, FiniteSetsExt, SequencesExt

CONSTANTS
    Null,
    Passes,
    Findings, Documents,
    DocumentOf,     \* the document of each finding
    Foreign,        \* the findings filed under another domain
    Handovers,      \* the lists of findings a caller may name
    TermLists,
    Digest,         \* the digest of each list of terms
    DigestSpan,     \* TERM_DIGEST_SPAN
    Categories,
    Statements,     \* the sets of categories the criteria may state
    Measured,       \* the categories a list of terms files something under
    Weightings,     \* what settings.scoringWeights may say
    MechanismLimit, \* bound: deployments that raise it
    EditLimit,      \* bound: edits of the configuration
    CrashLimit      \* bound: executions that die

ASSUME ScoringAssumption ==
    /\ DocumentOf \in [Findings -> Documents]
    /\ Foreign \subseteq Findings
    /\ Handovers \subseteq Seq(Findings)
    /\ DigestSpan \in Nat \ {0}
    /\ Digest \in [TermLists -> 0..DigestSpan - 1]
    /\ Measured \in [TermLists -> SUBSET Categories]
    /\ Statements \subseteq SUBSET Categories
    /\ Weightings \subseteq [Categories -> Int]
    /\ {MechanismLimit, EditLimit, CrashLimit} \subseteq Nat
    /\ Null \notin TermLists

VARIABLES
    mechanism,      \* FEATURE_MECHANISM_VERSION spliced into either workflow
    domain,         \* is there a domains row?
    terms, criteria, weights,   \* its configuration
    features,       \* of documents: the stored vector and its version
    featurizing,    \* the ingest pass at each document
    score,          \* of findings
    pass,
    run,            \* the runs row each pass leaves
    edits, crashes  \* the counters the bounds are on

config == <<mechanism, domain, terms, criteria, weights>>
stored == <<features, featurizing, score, run>>
vars == <<mechanism, domain, terms, criteria, weights, features, featurizing,
          score, pass, run, edits, crashes>>

Vector == [mechanism : Nat, terms : TermLists]

Score == [vector : Vector, criteria : Statements, weights : Weightings]

Statuses == {"absent", "ok", "partial", "failed"}

Nodes == {"Execute Workflow Trigger", "Load Domain Context", "Select Scoring Subjects",
          "Compute Feature Vectors", "Write Finding Scores", "Close Score Run",
          "ended", "crashed"}

\* One integer for both inputs a vector depends on.
Version(v) == v.mechanism * DigestSpan + Digest[v.terms]

\* Two vectors the version takes for one.
Comparable(v, w) == Version(v) = Version(w)

Idle ==
    [at |-> "Execute Workflow Trigger", handed |-> << >>, code |-> 0, terms |-> Null,
     weights |-> Null, criteria |-> {}, read |-> << >>, scores |-> << >>,
     done |-> << >>, since |-> 0]

Init ==
    /\ mechanism = [ingest |-> 1, score |-> 1] /\ domain = TRUE
    /\ terms \in TermLists /\ criteria \in Statements /\ weights \in Weightings
    /\ features = [d \in Documents |-> Null]
    /\ featurizing = [d \in Documents |-> Null]
    /\ score = [f \in Findings |-> Null]
    /\ pass = [p \in Passes |-> Idle]
    /\ run = [p \in Passes |-> "absent"]
    /\ edits = 0 /\ crashes = 0

-----------------------------------------------------------------------------
(* What the operator and a deployment change under the passes.             *)

Edit == edits < EditLimit /\ edits' = edits + 1

Unread == <<features, featurizing, score, pass, run, crashes>>

\* One statement may change the terms, the criteria, or both: renaming or deleting
\* a category takes what hangs off it along.
EditTaxonomy(t, k) ==
    /\ Edit /\ domain /\ <<t, k>> # <<terms, criteria>>
    /\ terms' = t /\ criteria' = k
    /\ UNCHANGED <<mechanism, domain, weights, Unread>>

PatchDomain(w) ==
    /\ Edit /\ domain /\ w # weights
    /\ weights' = w
    /\ UNCHANGED <<mechanism, domain, terms, criteria, Unread>>

\* Workflows are imported one by one.
DeployWorkflow(w) ==
    /\ Edit /\ mechanism[w] <= MechanismLimit
    /\ mechanism' = [mechanism EXCEPT ![w] = @ + 1]
    /\ UNCHANGED <<domain, terms, criteria, weights, Unread>>

\* Deletes its documents, their findings and its runs with it.
DeleteDomain ==
    /\ Edit /\ domain
    /\ domain' = FALSE
    /\ features' = [d \in Documents |-> Null]
    /\ score' = [f \in Findings |-> Null]
    /\ run' = [p \in Passes |-> "absent"]
    /\ UNCHANGED <<mechanism, terms, criteria, weights, featurizing, pass, crashes>>

-----------------------------------------------------------------------------
(* ar-ingest, once in the life of a document: it reads the terms at its    *)
(* start and writes the vector near its end.                               *)

IngestLoads(d) ==
    /\ domain /\ featurizing[d] = Null
    /\ featurizing' = [featurizing EXCEPT ![d] = [mechanism |-> mechanism.ingest, terms |-> terms]]
    /\ UNCHANGED <<config, features, score, pass, run, edits, crashes>>

\* The vector and its version go in together, or not at all.
WriteDocumentFeatures(d) ==
    /\ domain /\ featurizing[d] # Null /\ features[d] = Null
    /\ features' = [features EXCEPT ![d] = featurizing[d]]
    /\ UNCHANGED <<config, featurizing, score, pass, run, edits, crashes>>

-----------------------------------------------------------------------------
At(p, node) == pass[p].at = node

Only(p, held) == pass' = [pass EXCEPT ![p] = held]

Start(p, handed) ==
    /\ At(p, "Execute Workflow Trigger")
    /\ Only(p, [pass[p] EXCEPT !.at = "Load Domain Context", !.handed = handed,
                               !.code = mechanism.score, !.since = edits])
    /\ UNCHANGED <<config, stored, edits, crashes>>

LoadDomainContext(p) ==
    /\ At(p, "Load Domain Context")
    /\ Only(p, [pass[p] EXCEPT !.at = "Select Scoring Subjects",
                               !.terms = terms, !.weights = weights])
    /\ UNCHANGED <<config, stored, edits, crashes>>

\* The findings named, once each, that stand in this domain.
Subjects(p) == IF domain THEN ToSet(pass[p].handed) \ Foreign ELSE {}

\* Nodes below one that answers no item do not run.
SelectScoringSubjects(p) ==
    /\ At(p, "Select Scoring Subjects")
    /\ IF Subjects(p) = {}
       THEN Only(p, [pass[p] EXCEPT !.at = "ended"])
       ELSE Only(p, [pass[p] EXCEPT !.at = "Compute Feature Vectors",
                        !.criteria = criteria,
                        !.read = [f \in Subjects(p) |-> features[DocumentOf[f]]]])
    /\ UNCHANGED <<config, stored, edits, crashes>>

\* The vector a pass would compute.
Computed(p) == [mechanism |-> pass[p].code, terms |-> pass[p].terms]

\* Mutant: whatever is stored is reused.
ReusesAny(p, v) == v # Null

\* Mutant: the terms are held against those of the vector, the layout is not.
ReusesByTerms(p, v) == v # Null /\ Digest[v.terms] = Digest[pass[p].terms]

Reuses(p, v) == v # Null /\ Comparable(v, Computed(p))

VectorFor(p, f) ==
    LET v == pass[p].read[f] IN IF Reuses(p, v) THEN v ELSE Computed(p)

\* A weighted mean over what the domain states, and none where nothing that it
\* states was measured or nothing that it states weighs anything.
Total(v, stated, w) ==
    IF stated \cap Measured[v.terms] = {} \/ MapThenSumSet(LAMBDA c : w[c], stated) <= 0
    THEN Null
    ELSE [vector |-> v, criteria |-> stated, weights |-> w]

\* Compute Feature Vectors and Aggregate Finding Scores read no table.
ComputeScores(p) ==
    /\ At(p, "Compute Feature Vectors")
    /\ Only(p, [pass[p] EXCEPT !.at = "Write Finding Scores",
                   !.scores = [f \in DOMAIN pass[p].read |->
                        Total(VectorFor(p, f), pass[p].criteria, pass[p].weights)]])
    /\ UNCHANGED <<config, stored, edits, crashes>>

\* A score and its version are written together, and a null score is not.
Writes(p, f) == domain /\ pass[p].scores[f] # Null

WriteFindingScore(p, f) ==
    /\ At(p, "Write Finding Scores")
    /\ f \in DOMAIN pass[p].scores \ DOMAIN pass[p].done
    /\ score' = IF Writes(p, f) THEN [score EXCEPT ![f] = pass[p].scores[f]] ELSE score
    /\ LET done == [g \in DOMAIN pass[p].done \cup {f} |->
                      IF g = f THEN Writes(p, f) ELSE pass[p].done[g]]
       IN Only(p, [pass[p] EXCEPT !.done = done,
                      !.at = IF DOMAIN done = DOMAIN pass[p].scores
                             THEN "Close Score Run" ELSE @])
    /\ UNCHANGED <<config, features, featurizing, run, edits, crashes>>

Scored(p) == {f \in DOMAIN pass[p].done : pass[p].done[f]}

\* Mutant: only what was selected is asked about.
OutcomeOfSelected(p) ==
    LET selected == DOMAIN pass[p].done
    IN  IF selected # {} /\ Scored(p) = {} THEN "failed"
        ELSE IF Scored(p) # selected THEN "partial" ELSE "ok"

\* The list handed over is counted as it came, repetitions and all.
Outcome(p) ==
    LET selected == DOMAIN pass[p].done
    IN  IF selected # {} /\ Scored(p) = {} THEN "failed"
        ELSE IF Scored(p) # selected \/ Len(pass[p].handed) > Cardinality(selected)
             THEN "partial" ELSE "ok"

\* One INSERT, which the foreign key refuses once the domain has gone.
CloseScoreRun(p) ==
    /\ At(p, "Close Score Run")
    /\ IF domain
       THEN /\ run' = [run EXCEPT ![p] = Outcome(p)]
            /\ Only(p, [pass[p] EXCEPT !.at = "ended"])
       ELSE /\ Only(p, [pass[p] EXCEPT !.at = "crashed"])
            /\ UNCHANGED run
    /\ UNCHANGED <<config, features, featurizing, score, edits, crashes>>

Crash(p) ==
    /\ pass[p].at \notin {"Execute Workflow Trigger", "ended", "crashed"}
    /\ crashes < CrashLimit /\ crashes' = crashes + 1
    /\ Only(p, [pass[p] EXCEPT !.at = "crashed"])
    /\ UNCHANGED <<config, stored, edits>>

-----------------------------------------------------------------------------
PassStep(p) ==
    \/ \E handed \in Handovers : Start(p, handed)
    \/ LoadDomainContext(p)
    \/ SelectScoringSubjects(p)
    \/ ComputeScores(p)
    \/ \E f \in Findings : WriteFindingScore(p, f)
    \/ CloseScoreRun(p)

Operator ==
    \/ \E t \in TermLists, k \in Statements : EditTaxonomy(t, k)
    \/ \E w \in Weightings : PatchDomain(w)
    \/ \E w \in {"ingest", "score"} : DeployWorkflow(w)
    \/ DeleteDomain

Next ==
    \/ Operator
    \/ \E d \in Documents : IngestLoads(d) \/ WriteDocumentFeatures(d)
    \/ \E p \in Passes : PassStep(p) \/ Crash(p)

Spec == Init /\ [][Next]_vars

-----------------------------------------------------------------------------
(* What the scoring pass promises.                                         *)

\* The type of every variable.
TypeOK ==
    /\ mechanism \in [{"ingest", "score"} -> Nat] /\ domain \in BOOLEAN
    /\ terms \in TermLists /\ criteria \in Statements /\ weights \in Weightings
    /\ features \in [Documents -> Vector \cup {Null}]
    /\ featurizing \in [Documents -> Vector \cup {Null}]
    /\ score \in [Findings -> Score \cup {Null}]
    /\ \A p \in Passes : DOMAIN pass[p] = DOMAIN Idle /\ pass[p].at \in Nodes
    /\ run \in [Passes -> Statuses]
    /\ edits \in Nat /\ crashes \in Nat

Alike(s, t) ==
    /\ Comparable(s.vector, t.vector)
    /\ s.criteria = t.criteria /\ s.weights = t.weights

\* What one pass scores can be ranked together, whenever and by whom the vectors
\* of the documents were stored.  (The version check of Compute Feature Vectors;
\* criteria on every item of Select Scoring Subjects.)
ScoresOfAPassCompare ==
    \A p \in Passes : \A f, g \in DOMAIN pass[p].scores :
        pass[p].scores[f] # Null /\ pass[p].scores[g] # Null
            => Alike(pass[p].scores[f], pass[p].scores[g])

\* A pass no edit or deployment came between writes the score the configuration
\* now in force gives, as far as the version tells configurations apart.
\* ("which is what lets a score be reproduced from the rows it was read against":
\* Load Domain Context of ar-score.)
UndisturbedScoreIsCurrent ==
    [][\A p \in Passes, f \in Findings :
          /\ WriteFindingScore(p, f) /\ Writes(p, f)
          /\ pass[p].since = edits
          => Alike(score'[f], [vector |-> [mechanism |-> mechanism.score, terms |-> terms],
                               criteria |-> criteria, weights |-> weights])]_vars

\* Where a run says ok, all that its caller named stands in the domain with a score,
\* then and after any later pass over it; where it says partial, some do.
\* (Close Score Run; a null score does not replace one, Write Finding Scores.)
StatusTellsTheScores ==
    \A p \in Passes :
        LET named == ToSet(pass[p].handed)
        IN  /\ run[p] = "ok" => \A f \in named : f \notin Foreign /\ score[f] # Null
            /\ run[p] = "partial" => \E f \in named : score[f] # Null
=============================================================================
