------------------------ MODULE ResearchPoolProofs ------------------------
(***************************************************************************)
(* Proofs about ResearchPool, for every set of findings, entities, raises  *)
(* and passes, and every limit: its types, that it is an ApprovalGate, the *)
(* bounds on the rows of a finding and on the calls about a row, and that  *)
(* the ledger follows the calls.  Below them, how the same pass ends: the  *)
(* write of the topic's next run, from AgentReschedule.                    *)
(***************************************************************************)
EXTENDS ResearchPool, AgentReschedule, FiniteSetTheorems, TLAPS

USE SubjectsAssumption, LimitsAssumption

-----------------------------------------------------------------------------
(* Lemmas about the statements.                                            *)

\* What a raise writes can be counted.
LEMMA WritesAreCounted ==
    ASSUME NEW s \in SUBSET Findings
    PROVE  IsFiniteSet(s) /\ Cardinality(s) \in Nat
  BY FiniteAssumption, FS_Subset, FS_CardinalityType

\* Every statement that writes a stored row writes some of its columns.
LEMMA RowWrites ==
    ASSUME NEW x \in PoolRow
    PROVE  /\ [x EXCEPT !.status = "approved", !.stamps = @ \cup {"approved"}] \in PoolRow
           /\ [x EXCEPT !.status = "skipped"] \in PoolRow
           /\ [x EXCEPT !.status = "done", !.stamps = @ \cup {"researched"},
                        !.fresh = Window] \in PoolRow
           /\ [x EXCEPT !.fresh = IF @ > 0 THEN @ - 1 ELSE 0] \in PoolRow
  <1> USE DEF PoolRow, Statuses, Stamps
  <1>1. [x EXCEPT !.status = "approved", !.stamps = @ \cup {"approved"}] \in PoolRow
    <2>1. x.stamps \cup {"approved"} \in SUBSET {"approved", "researched"}
      OBVIOUS
    <2> QED
      BY <2>1
  <1>2. [x EXCEPT !.status = "skipped"] \in PoolRow
    OBVIOUS
  <1>3. [x EXCEPT !.status = "done", !.stamps = @ \cup {"researched"},
                  !.fresh = Window] \in PoolRow
    <2>1. x.stamps \cup {"researched"} \in SUBSET {"approved", "researched"} /\ Window \in Nat
      OBVIOUS
    <2> QED
      BY <2>1
  <1>4. [x EXCEPT !.fresh = IF @ > 0 THEN @ - 1 ELSE 0] \in PoolRow
    <2>1. (IF x.fresh > 0 THEN x.fresh - 1 ELSE 0) \in Nat
      OBVIOUS
    <2> QED
      BY <2>1
  <1> QED
    BY <1>1, <1>2, <1>3, <1>4

LEMMA OldestIsPart ==
    ASSUME NEW rows, NEW n
    PROVE  Oldest(rows, n) \subseteq rows
  BY DEF Oldest

LEMMA RowsOfPass ==
    ASSUME NEW p, NEW fates
    PROVE  /\ RowsOf(p, fates) \subseteq Ids
           /\ \A i \in RowsOf(p, fates) : fate[p][i] \in fates
  BY DEF RowsOf

-----------------------------------------------------------------------------
(* The inductive invariant.                                                *)

\* Ids beyond the last one given out name no row.
UnbornRows == \A i \in Ids : i > size => pool[i] = NoRow

\* Whatever a pass is holding was consented to, and the consent is not undone.
HeldIsConsented ==
    /\ \A i \in Ids : /\ pool[i].status = "approved" => "approved" \in pool[i].stamps
                      /\ pool[i].status = "absent" => pool[i].stamps = {}
    /\ \A p \in Passes, i \in Ids :
        pc[p] # "ended" /\ fate[p][i] # "none" => "approved" \in pool[i].stamps

\* Whatever a pass has an answer about has been paid for.
AnswersAreSpent ==
    \A p \in Passes, i \in Ids : pc[p] # "ended" /\ fate[p][i] \in Asked => spent[i] > 0

GateInv == TypeOK /\ UnbornRows /\ HeldIsConsented /\ AnswersAreSpent

\* What the invariant says of one stored row.
LEMMA StoredRow ==
    ASSUME GateInv, NEW i \in Ids
    PROVE  /\ pool[i].status = "approved" => "approved" \in pool[i].stamps
           /\ pool[i].status = "absent" => pool[i].stamps = {}
  BY DEF GateInv, HeldIsConsented

LEMMA InitGate == Init => GateInv
  <1> SUFFICES ASSUME Init PROVE GateInv
    OBVIOUS
  <1>1. NoRow \in PoolRow /\ NoRow.stamps = {} /\ NoRow.status = "absent"
    BY DEF NoRow, PoolRow, Statuses
  <1>2. NoRaise \in RaiseInFlight
    BY DEF NoRaise, RaiseInFlight
  <1>3. TypeOK
    BY <1>1, <1>2 DEF Init, TypeOK, Fates
  <1>4. UnbornRows /\ HeldIsConsented /\ AnswersAreSpent
    BY <1>1 DEF Init, UnbornRows, HeldIsConsented, AnswersAreSpent, Asked
  <1> QED
    BY <1>3, <1>4 DEF GateInv

\* The raises read the pool and keep their own snapshot.
LEMMA BeginRaiseKeepsGate ==
    ASSUME GateInv, NEW x \in Raisers, NEW kind \in {"ingest", "score"},
           NEW s \in SUBSET Findings, BeginRaise(x, kind, s)
    PROVE  GateInv'
  <1> DEFINE new == [created |-> begun + 1, kind |-> kind,
                     writes |-> { f \in s : /\ ~AlreadyCited(f)
                                            /\ ~ResearchedInWindow(SubjectRead(kind, f)) }]
  <1>1. new.created \in Nat /\ new.writes \in SUBSET Findings /\ new.kind \in {"ingest", "score"}
    BY DEF GateInv, TypeOK
  <1>2. new \in RaiseInFlight
    BY <1>1 DEF RaiseInFlight
  <1>3. raising' = [raising EXCEPT ![x] = new]
    BY DEF BeginRaise
  <1> HIDE DEF new
  <1>4. raising' \in [Raisers -> RaiseInFlight]
    BY <1>2, <1>3 DEF GateInv, TypeOK
  <1>5. UNCHANGED <<pool, size, material, pc, fate, offered, spent, ledger, dossiers, rulings,
                    refusals, moves, crashes>>
    BY DEF BeginRaise, gateVars, passVars, money
  <1>6. begun' \in Nat
    BY DEF BeginRaise, GateInv, TypeOK
  <1> QED
    BY <1>4, <1>5, <1>6
    DEF GateInv, TypeOK, UnbornRows, HeldIsConsented, AnswersAreSpent

\* An insert writes rows nothing had been said of.
LEMMA InsertedRows ==
    ASSUME GateInv, NEW x \in Raisers, CommitRaise(x)
    PROVE  /\ size \in Nat /\ size' \in Nat /\ size <= size'
           /\ pool' \in [Ids -> PoolRow]
           /\ \A i \in Ids :
                 \/ pool'[i] = pool[i] /\ (i > size' => i > size)
                 \/ /\ pool[i] = NoRow /\ i <= size'
                    /\ pool'[i].stamps = {} /\ pool'[i].status = "pending"
  <1> DEFINE w == raising[x].writes
             n == Cardinality(w)
             new == size + 1 .. size + n
  <1>1. w \in SUBSET Findings /\ raising[x].created \in Nat
    BY DEF GateInv, TypeOK, RaiseInFlight
  <1>2. n \in Nat
    BY <1>1, WritesAreCounted
  <1>3. size \in Nat /\ size' = size + n
    BY DEF CommitRaise, GateInv, TypeOK
  <1>4. PICK place \in [new -> w] :
            pool' = [i \in Ids |->
                  IF i \in new
                  THEN [finding |-> place[i],
                        entity |-> SubjectRead(raising[x].kind, place[i]),
                        status |-> "pending", stamps |-> {},
                        created |-> raising[x].created, fresh |-> 0]
                  ELSE pool[i]]
    BY DEF CommitRaise
  <1> HIDE DEF n, w
  <1>5. \A i \in new : /\ place[i] \in Findings
                       /\ SubjectRead(raising[x].kind, place[i]) \in Entities \cup {Null}
    BY <1>1, <1>4 DEF SubjectRead
  <1>6. pool' \in [Ids -> PoolRow]
    BY <1>1, <1>4, <1>5 DEF GateInv, TypeOK, PoolRow, Statuses
  <1>7. ASSUME NEW i \in Ids
        PROVE  \/ pool'[i] = pool[i] /\ (i > size' => i > size)
               \/ /\ pool[i] = NoRow /\ i <= size'
                  /\ pool'[i].stamps = {} /\ pool'[i].status = "pending"
    <2>0. i \in Int
      BY DEF Ids
    <2>1. CASE i \in new
      <3>1. i > size /\ i <= size'
        BY <1>2, <1>3, <2>0, <2>1
      <3>2. pool[i] = NoRow
        BY <3>1 DEF GateInv, UnbornRows
      <3>3. pool'[i].stamps = {} /\ pool'[i].status = "pending"
        BY <1>4, <2>1
      <3> QED
        BY <3>1, <3>2, <3>3
    <2>2. CASE i \notin new
      <3>1. pool'[i] = pool[i]
        BY <1>4, <2>2
      <3> QED
        BY <3>1, <1>2, <1>3, <2>0
    <2> QED
      BY <2>1, <2>2
  <1> QED
    BY <1>2, <1>3, <1>6, <1>7

LEMMA CommitRaiseKeepsGate ==
    ASSUME GateInv, NEW x \in Raisers, CommitRaise(x)
    PROVE  GateInv'
  <1>1. UNCHANGED <<material, pc, fate, offered, spent, ledger, dossiers, begun, rulings,
                    refusals, moves, crashes>>
    BY DEF CommitRaise, passVars, money, counters
  <1>2. raising' \in [Raisers -> RaiseInFlight]
    BY DEF CommitRaise, GateInv, TypeOK, NoRaise, RaiseInFlight
  <1>3. NoRow.stamps = {} /\ NoRow.status = "absent"
    BY DEF NoRow
  <1>4. TypeOK'
    BY <1>1, <1>2, <1>3, InsertedRows DEF GateInv, TypeOK
  <1>5. UnbornRows'
    <2> SUFFICES ASSUME NEW i \in Ids, i > size' PROVE pool'[i] = NoRow
      BY DEF UnbornRows
    <2>1. i \in Int /\ size' \in Int
      BY InsertedRows DEF Ids
    <2>2. ~(i <= size')
      BY <2>1
    <2>3. pool'[i] = pool[i] /\ i > size
      BY <2>2, InsertedRows
    <2> QED
      BY <2>3 DEF GateInv, UnbornRows
  <1>6. HeldIsConsented' /\ AnswersAreSpent'
    BY <1>1, <1>3, InsertedRows DEF GateInv, HeldIsConsented, AnswersAreSpent
  <1> QED
    BY <1>4, <1>5, <1>6 DEF GateInv

\* A ruling writes one stored row.
LEMMA RulingKeepsGate ==
    ASSUME GateInv, NEW i \in Ids, Approve(i) \/ Reject(i)
    PROVE  GateInv'
  <1> DEFINE x == pool[i]
             y == pool'[i]
  <1>1. UNCHANGED <<size, material, raising, pc, fate, offered, spent, ledger, dossiers, begun,
                    refusals, moves, crashes>>
    BY DEF Approve, Reject, passVars, money
  <1>2. rulings' \in Nat
    BY DEF Approve, Reject, Rule, GateInv, TypeOK
  <1>3. x \in PoolRow /\ x.status # "absent"
    BY DEF Approve, Reject, GateInv, TypeOK
  <1>4. /\ pool' \in [Ids -> PoolRow]
        /\ \A j \in Ids \ {i} : pool'[j] = pool[j]
        /\ \/ y.status = "approved" /\ y.stamps = x.stamps \cup {"approved"}
           \/ y.status = "skipped" /\ y.stamps = x.stamps
    <2>1. CASE Approve(i)
      <3>1. pool' = [pool EXCEPT ![i] =
                 [x EXCEPT !.status = "approved", !.stamps = @ \cup {"approved"}]]
        BY <2>1 DEF Approve
      <3>2. pool' \in [Ids -> PoolRow]
        BY <1>3, <3>1, RowWrites DEF GateInv, TypeOK
      <3> QED
        BY <1>3, <3>1, <3>2 DEF GateInv, TypeOK, PoolRow
    <2>2. CASE Reject(i)
      <3>1. pool' = [pool EXCEPT ![i] = [x EXCEPT !.status = "skipped"]]
        BY <2>2 DEF Reject
      <3>2. pool' \in [Ids -> PoolRow]
        BY <1>3, <3>1, RowWrites DEF GateInv, TypeOK
      <3> QED
        BY <1>3, <3>1, <3>2 DEF GateInv, TypeOK, PoolRow
    <2> QED
      BY <2>1, <2>2
  <1>5. x # NoRow
    BY <1>3 DEF NoRow
  <1>6. TypeOK'
    BY <1>1, <1>2, <1>4 DEF GateInv, TypeOK
  <1>7. UnbornRows'
    BY <1>1, <1>4, <1>5 DEF GateInv, UnbornRows
  <1>8. HeldIsConsented' /\ AnswersAreSpent'
    BY <1>1, <1>4 DEF GateInv, HeldIsConsented, AnswersAreSpent
  <1> QED
    BY <1>6, <1>7, <1>8 DEF GateInv

LEMMA DrainKeepsGate ==
    ASSUME GateInv, NEW p \in Passes, DrainApprovedIntentions(p)
    PROVE  GateInv'
  <1> DEFINE batch == Oldest({ i \in Ids : Drainable(i) }, DrainLimit)
             held == [i \in Ids |-> IF i \in batch THEN "drained" ELSE "none"]
  <1>1. UNCHANGED <<pool, size, material, raising, spent, ledger, dossiers, begun, rulings,
                    refusals, moves, crashes>>
    BY DEF DrainApprovedIntentions, gateVars, money, counters
  <1>2. fate' = [fate EXCEPT ![p] = held] /\ pc' = [pc EXCEPT ![p] = "gate"]
    BY DEF DrainApprovedIntentions
  <1>8. offered' \in [Passes -> SUBSET Ids]
    <2>1. batch \subseteq Ids
      BY OldestIsPart
    <2>2. offered' = [offered EXCEPT ![p] = { i \in batch : HasMaterial(i) }]
      BY DEF DrainApprovedIntentions
    <2> QED
      BY <2>1, <2>2 DEF GateInv, TypeOK
  <1>3. \A i \in batch : "approved" \in pool[i].stamps
    <2>1. \A i \in batch : i \in Ids /\ pool[i].status = "approved"
      BY OldestIsPart DEF Drainable
    <2> QED
      BY <2>1, StoredRow
  <1> HIDE DEF batch
  <1>4. held \in [Ids -> Fates] /\ \A i \in Ids : held[i] \notin Asked
    BY DEF Fates, Asked
  <1>5. TypeOK'
    <2>1. fate' \in [Passes -> [Ids -> Fates]]
      BY <1>2, <1>4 DEF GateInv, TypeOK
    <2>2. pc' \in [Passes -> {"ended", "gate", "prompt", "ask", "record"}]
      BY <1>2 DEF GateInv, TypeOK
    <2> QED
      BY <1>1, <1>8, <2>1, <2>2 DEF GateInv, TypeOK
  <1>6. HeldIsConsented'
    <2>1. \A i \in Ids : held[i] # "none" => "approved" \in pool[i].stamps
      BY <1>3
    <2> QED
      BY <1>1, <1>2, <2>1 DEF GateInv, TypeOK, HeldIsConsented
  <1>7. UnbornRows' /\ AnswersAreSpent'
    BY <1>1, <1>2, <1>4 DEF GateInv, TypeOK, UnbornRows, AnswersAreSpent
  <1> QED
    BY <1>5, <1>6, <1>7 DEF GateInv

LEMMA StageKeepsGate ==
    ASSUME GateInv, NEW p \in Passes, StageCandidates(p)
    PROVE  GateInv'
  <1>1. UNCHANGED <<pool, size, material, raising, offered, spent, ledger, dossiers, begun,
                    rulings, refusals, moves, crashes>>
    BY DEF StageCandidates, gateVars, money, counters
  <1>2. PICK named \in SUBSET RowsOf(p, {"drained"}), staged \in SUBSET RowsOf(p, {"drained"}) :
            /\ fate' = [fate EXCEPT ![p] =
                  [i \in Ids |-> IF i \in staged THEN "staged"
                                 ELSE IF @[i] = "drained" /\ i \notin named THEN "badName"
                                 ELSE @[i]]]
            /\ pc' = [pc EXCEPT ![p] = IF staged = {} THEN "ended" ELSE "prompt"]
    <2> DEFINE named == { i \in RowsOf(p, {"drained"}) : Subject(i) \in Sound }
               staged == Oldest(named, CallCeiling)
    <2>1. named \subseteq RowsOf(p, {"drained"}) /\ staged \subseteq named
      BY OldestIsPart
    <2>2. /\ fate' = [fate EXCEPT ![p] =
                [i \in Ids |-> IF i \in staged THEN "staged"
                               ELSE IF @[i] = "drained" /\ i \notin named THEN "badName"
                               ELSE @[i]]]
          /\ pc' = [pc EXCEPT ![p] = IF staged = {} THEN "ended" ELSE "prompt"]
      BY DEF StageCandidates
    <2> HIDE DEF named, staged
    <2> QED
      BY <2>1, <2>2
  <1>3. pc[p] = "gate"
    BY DEF StageCandidates
  <1>4. /\ fate'[p] \in [Ids -> Fates]
        /\ \A i \in Ids : fate'[p][i] # "none" => fate[p][i] # "none"
        /\ \A i \in Ids : fate'[p][i] \in Asked => fate[p][i] \in Asked
    BY <1>2, RowsOfPass DEF GateInv, TypeOK, Fates, Asked
  <1>5. \A q \in Passes \ {p} : fate'[q] = fate[q] /\ pc'[q] = pc[q]
    BY <1>2 DEF GateInv, TypeOK
  <1>6. TypeOK'
    <2>1. fate' \in [Passes -> [Ids -> Fates]]
      BY <1>2, <1>4 DEF GateInv, TypeOK
    <2>2. pc' \in [Passes -> {"ended", "gate", "prompt", "ask", "record"}]
      BY <1>2 DEF GateInv, TypeOK
    <2> QED
      BY <1>1, <2>1, <2>2 DEF GateInv, TypeOK
  <1>7. UnbornRows' /\ HeldIsConsented' /\ AnswersAreSpent'
    BY <1>1, <1>3, <1>4, <1>5 DEF GateInv, UnbornRows, HeldIsConsented, AnswersAreSpent
  <1> QED
    BY <1>6, <1>7 DEF GateInv

LEMMA PromptKeepsGate ==
    ASSUME GateInv, NEW p \in Passes, PrepareModelPrompt(p)
    PROVE  GateInv'
  <1> DEFINE bare == RowsOf(p, {"staged"}) \ offered[p]
  <1>1. UNCHANGED <<pool, size, material, raising, offered, spent, ledger, dossiers, begun,
                    rulings, refusals, moves, crashes>>
    BY DEF PrepareModelPrompt, gateVars, money, counters
  <1>2. /\ pc[p] = "prompt"
        /\ fate' = [fate EXCEPT ![p] =
              [i \in Ids |-> IF i \in bare THEN "noMaterial" ELSE @[i]]]
        /\ pc' = [pc EXCEPT ![p] = IF RowsOf(p, {"staged"}) \cap offered[p] = {} THEN "ended"
                                   ELSE "ask"]
    BY DEF PrepareModelPrompt
  <1>3. \A i \in bare : fate[p][i] = "staged"
    BY RowsOfPass
  <1> HIDE DEF bare
  <1>4. /\ fate'[p] \in [Ids -> Fates]
        /\ \A i \in Ids : fate'[p][i] # "none" => fate[p][i] # "none"
        /\ \A i \in Ids : fate'[p][i] \in Asked => fate[p][i] \in Asked
    BY <1>2, <1>3 DEF GateInv, TypeOK, Fates, Asked
  <1>5. \A q \in Passes \ {p} : fate'[q] = fate[q] /\ pc'[q] = pc[q]
    BY <1>2 DEF GateInv, TypeOK
  <1>6. TypeOK'
    <2>1. fate' \in [Passes -> [Ids -> Fates]]
      BY <1>2, <1>4 DEF GateInv, TypeOK
    <2>2. pc' \in [Passes -> {"ended", "gate", "prompt", "ask", "record"}]
      BY <1>2 DEF GateInv, TypeOK
    <2> QED
      BY <1>1, <2>1, <2>2 DEF GateInv, TypeOK
  <1>7. UnbornRows' /\ HeldIsConsented' /\ AnswersAreSpent'
    BY <1>1, <1>2, <1>4, <1>5 DEF GateInv, UnbornRows, HeldIsConsented, AnswersAreSpent
  <1> QED
    BY <1>6, <1>7 DEF GateInv

LEMMA ResearchKeepsGate ==
    ASSUME GateInv, NEW p \in Passes, NEW i \in Ids, NEW answer \in Asked,
           ResearchCandidate(p, i, answer)
    PROVE  GateInv' /\ "approved" \in pool[i].stamps
  <1>1. UNCHANGED <<pool, size, material, raising, pc, offered, ledger, dossiers, begun,
                    rulings, moves, crashes>>
    BY DEF ResearchCandidate, gateVars
  <1>2. /\ fate' = [fate EXCEPT ![p][i] = answer]
        /\ spent' = [spent EXCEPT ![i] = @ + 1]
        /\ pc[p] = "ask" /\ refusals' \in Nat
    BY DEF ResearchCandidate, GateInv, TypeOK
  <1>3. fate[p][i] = "staged"
    BY OldestIsPart, RowsOfPass DEF ResearchCandidate
  <1>4. "approved" \in pool[i].stamps
    BY <1>2, <1>3 DEF GateInv, HeldIsConsented
  <1>5. /\ fate' \in [Passes -> [Ids -> Fates]]
        /\ \A q \in Passes, j \in Ids : q # p \/ j # i => fate'[q][j] = fate[q][j]
    BY <1>2 DEF GateInv, TypeOK, Fates, Asked
  <1>6. spent' \in [Ids -> Nat] /\ spent'[i] > 0 /\ \A j \in Ids : spent'[j] >= spent[j]
    BY <1>2 DEF GateInv, TypeOK
  <1>7. TypeOK'
    BY <1>1, <1>2, <1>5, <1>6 DEF GateInv, TypeOK
  <1>8. HeldIsConsented'
    BY <1>1, <1>4, <1>5 DEF GateInv, HeldIsConsented
  <1>9. AnswersAreSpent'
    <2> SUFFICES ASSUME NEW q \in Passes, NEW j \in Ids,
                        pc[q] # "ended", fate'[q][j] \in Asked
                 PROVE  spent'[j] > 0
      BY <1>1 DEF AnswersAreSpent
    <2>1. CASE j = i
      BY <2>1, <1>6
    <2>2. CASE j # i
      <3>1. spent[j] > 0 /\ spent[j] \in Nat /\ spent'[j] \in Nat
        BY <2>2, <1>5, <1>6 DEF GateInv, TypeOK, AnswersAreSpent
      <3> QED
        BY <3>1, <1>6
    <2> QED
      BY <2>1, <2>2
  <1> QED
    BY <1>1, <1>4, <1>7, <1>8, <1>9 DEF GateInv, UnbornRows

LEMMA LedgerKeepsGate ==
    ASSUME GateInv, NEW p \in Passes, LedgerModelCall(p) \/ Crash(p)
    PROVE  GateInv'
  <1>1. /\ UNCHANGED <<pool, size, material, raising, fate, offered, spent, dossiers, begun,
                       rulings, refusals, moves>>
        /\ pc' \in [Passes -> {"ended", "gate", "prompt", "ask", "record"}]
        /\ \A q \in Passes : pc'[q] # "ended" => pc[q] # "ended"
    BY DEF LedgerModelCall, Crash, gateVars, money, counters, GateInv, TypeOK
  <1>2. ledger' \in [Ids -> Nat] /\ crashes' \in Nat
    BY DEF LedgerModelCall, Crash, money, counters, GateInv, TypeOK
  <1> QED
    BY <1>1, <1>2 DEF GateInv, TypeOK, UnbornRows, HeldIsConsented, AnswersAreSpent

\* What recording closes.
LEMMA RecordedRows ==
    ASSUME GateInv, NEW p \in Passes, RecordResearch(p)
    PROVE  /\ pool' \in [Ids -> PoolRow]
           /\ \A i \in Ids :
                IF i \in RowsOf(p, {"accepted"})
                THEN /\ pool'[i].status = "done"
                     /\ pool'[i].stamps = pool[i].stamps \cup {"researched"}
                     /\ "approved" \in pool[i].stamps /\ spent[i] > 0
                ELSE pool'[i] = pool[i]
  <1> DEFINE rows == RowsOf(p, {"accepted"})
             Closed(x) == [x EXCEPT !.status = "done", !.stamps = @ \cup {"researched"},
                                    !.fresh = Window]
  <1>1. pool' = [i \in Ids |-> IF i \in rows THEN Closed(pool[i]) ELSE pool[i]]
    BY DEF RecordResearch
  <1>2. \A i \in rows : i \in Ids /\ "approved" \in pool[i].stamps /\ spent[i] > 0
    BY RowsOfPass DEF RecordResearch, GateInv, AnswersAreSpent, Asked
  <1>3. \A x \in PoolRow : /\ Closed(x) \in PoolRow
                           /\ Closed(x).status = "done"
                           /\ Closed(x).stamps = x.stamps \cup {"researched"}
    BY RowWrites DEF PoolRow
  <1>4. pool \in [Ids -> PoolRow]
    BY DEF GateInv, TypeOK
  <1> HIDE DEF rows, Closed
  <1>5. pool' \in [Ids -> PoolRow]
    BY <1>1, <1>3, <1>4
  <1>6. \A i \in Ids :
           IF i \in rows
           THEN /\ pool'[i].status = "done"
                /\ pool'[i].stamps = pool[i].stamps \cup {"researched"}
                /\ "approved" \in pool[i].stamps /\ spent[i] > 0
           ELSE pool'[i] = pool[i]
    BY <1>1, <1>2, <1>3, <1>4
  <1> QED
    BY <1>5, <1>6 DEF rows

LEMMA RecordKeepsGate ==
    ASSUME GateInv, NEW p \in Passes, RecordResearch(p)
    PROVE  GateInv'
  <1>1. UNCHANGED <<size, material, raising, fate, offered, spent, ledger, begun, rulings,
                    refusals, moves, crashes>>
    BY DEF RecordResearch, counters
  <1>2. dossiers' \in [Ids -> Nat]
    <2>1. dossiers' = [i \in Ids |-> IF i \in RowsOf(p, {"accepted"}) THEN dossiers[i] + 1
                                     ELSE dossiers[i]]
      BY DEF RecordResearch
    <2> QED
      BY <2>1 DEF GateInv, TypeOK
  <1>3. pc' = [pc EXCEPT ![p] = "ended"]
    BY DEF RecordResearch
  <1>0. /\ NoRow.stamps = {}
        /\ \A i \in Ids : /\ "researched" \in pool[i].stamps => "approved" \in pool[i].stamps
                          /\ pool[i].status = "approved" => "approved" \in pool[i].stamps
                          /\ pool[i].status = "absent" => pool[i].stamps = {}
    <2>1. NoRow.stamps = {}
      BY DEF NoRow
    <2>2. \A i \in Ids : "researched" \in pool[i].stamps => "approved" \in pool[i].stamps
      BY DEF GateInv, TypeOK
    <2>3. \A i \in Ids : /\ pool[i].status = "approved" => "approved" \in pool[i].stamps
                         /\ pool[i].status = "absent" => pool[i].stamps = {}
      BY StoredRow
    <2> QED
      BY <2>1, <2>2, <2>3
  <1>4. ASSUME NEW i \in Ids
        PROVE  /\ pool[i].stamps \subseteq pool'[i].stamps
               /\ pool'[i] # pool[i] => pool[i] # NoRow
               /\ "researched" \in pool'[i].stamps => "approved" \in pool'[i].stamps
               /\ pool'[i].status = "approved" => "approved" \in pool'[i].stamps
               /\ pool'[i].status = "absent" => pool'[i].stamps = {}
    <2>1. CASE i \in RowsOf(p, {"accepted"})
      <3>1. /\ pool'[i].status = "done"
            /\ pool'[i].stamps = pool[i].stamps \cup {"researched"}
            /\ "approved" \in pool[i].stamps
        BY <2>1, RecordedRows
      <3> QED
        BY <1>0, <3>1
    <2>2. CASE i \notin RowsOf(p, {"accepted"})
      <3>1. pool'[i] = pool[i]
        BY <2>2, RecordedRows
      <3> QED
        BY <1>0, <3>1
    <2> QED
      BY <2>1, <2>2
  <1>5. TypeOK'
    BY <1>1, <1>2, <1>3, <1>4, RecordedRows DEF GateInv, TypeOK
  <1>6. UnbornRows'
    BY <1>1, <1>4 DEF GateInv, UnbornRows
  <1>7. HeldIsConsented' /\ AnswersAreSpent'
    BY <1>1, <1>3, <1>4 DEF GateInv, TypeOK, HeldIsConsented, AnswersAreSpent
  <1> QED
    BY <1>5, <1>6, <1>7 DEF GateInv

LEMMA AgedRows ==
    ASSUME GateInv, Advance
    PROVE  /\ pool' \in [Ids -> PoolRow]
           /\ \A i \in Ids : /\ pool'[i].status = pool[i].status
                             /\ pool'[i].stamps = pool[i].stamps
                             /\ pool[i] = NoRow => pool'[i] = NoRow
  <1> DEFINE Aged(x) == [x EXCEPT !.fresh = IF @ > 0 THEN @ - 1 ELSE 0]
  <1>1. pool' = [i \in Ids |-> Aged(pool[i])]
    BY DEF Advance
  <1>2. \A x \in PoolRow : /\ Aged(x) \in PoolRow
                           /\ Aged(x).status = x.status
                           /\ Aged(x).stamps = x.stamps
    BY RowWrites DEF PoolRow
  <1>3. Aged(NoRow) = NoRow
    BY DEF NoRow
  <1>4. pool \in [Ids -> PoolRow]
    BY DEF GateInv, TypeOK
  <1> HIDE DEF Aged
  <1> QED
    BY <1>1, <1>2, <1>3, <1>4

LEMMA AdvanceKeepsGate ==
    ASSUME GateInv, Advance
    PROVE  GateInv'
  <1>1. UNCHANGED <<size, material, raising, pc, fate, offered, spent, ledger, dossiers, begun,
                    rulings, refusals, moves, crashes>>
    BY DEF Advance, passVars, money, counters
  <1> QED
    BY <1>1, AgedRows
    DEF GateInv, TypeOK, UnbornRows, HeldIsConsented, AnswersAreSpent

LEMMA MaterialKeepsGate ==
    ASSUME GateInv, NEW f \in Findings, MaterialMoves(f)
    PROVE  GateInv'
  <1>1. UNCHANGED <<pool, size, raising, pc, fate, offered, spent, ledger, dossiers, begun,
                    rulings, refusals, crashes>>
    BY DEF MaterialMoves, gateVars, passVars, money
  <1>2. material' \in SUBSET Findings /\ moves' \in Nat
    BY DEF MaterialMoves, GateInv, TypeOK
  <1> QED
    BY <1>1, <1>2 DEF GateInv, TypeOK, UnbornRows, HeldIsConsented, AnswersAreSpent

LEMMA StepKeepsGate == GateInv /\ [Next]_vars => GateInv'
  <1> SUFFICES ASSUME GateInv, [Next]_vars PROVE GateInv'
    OBVIOUS
  <1>1. CASE Advance
    BY <1>1, AdvanceKeepsGate
  <1>2. CASE RaiseStep
    BY <1>2, BeginRaiseKeepsGate, CommitRaiseKeepsGate DEF RaiseStep
  <1>3. CASE RulingStep
    BY <1>3, RulingKeepsGate DEF RulingStep
  <1>4. ASSUME NEW p \in Passes, PassStep(p) \/ Crash(p) PROVE GateInv'
    BY <1>4, DrainKeepsGate, StageKeepsGate, PromptKeepsGate, ResearchKeepsGate,
       LedgerKeepsGate, RecordKeepsGate DEF PassStep
  <1>5. CASE UNCHANGED vars
    BY <1>5 DEF vars, GateInv, TypeOK, UnbornRows, HeldIsConsented, AnswersAreSpent
  <1> QED
    BY <1>1, <1>2, <1>3, <1>4, <1>5, MaterialKeepsGate DEF Next

\* The inductive invariant holds in every reachable state.
THEOREM GateIsKept == Spec => []GateInv
  BY InitGate, StepKeepsGate, PTL DEF Spec

\* Every variable keeps its type, and no row is closed by a search that was not
\* approved: research_pool_approval_check never has a statement to refuse.
THEOREM PoolTypes == Spec => []TypeOK
  <1>1. GateInv => TypeOK
    BY DEF GateInv
  <1> QED
    BY <1>1, GateIsKept, PTL

-----------------------------------------------------------------------------
(* The pool implements the approval gate.                                  *)

Raised == { i \in Ids : pool[i].status # "absent" }
Consented == { i \in Ids : "approved" \in pool[i].stamps }
Acted == { i \in Ids : spent[i] > 0 }
Closed == { i \in Ids : "researched" \in pool[i].stamps }

LEMMA InitIsGate == Init => Gate!Init
  BY DEF Init, Gate!Init, NoRow

LEMMA StepIsGate == GateInv /\ [Next]_vars => [Gate!Next]_(Gate!vars)
  <1> SUFFICES ASSUME GateInv, [Next]_vars PROVE [Gate!Next]_(Gate!vars)
    OBVIOUS
  <1> USE DEF Raised, Consented, Acted, Closed
  <1>0. Gate!vars = <<Raised, Consented, Acted, Closed>>
    BY DEF Gate!vars
  <1>1. CASE Advance
    <2>1. Raised' = Raised /\ Consented' = Consented /\ Closed' = Closed
      BY <1>1, AgedRows
    <2>2. Acted' = Acted
      BY <1>1 DEF Advance, money
    <2> QED
      BY <1>0, <2>1, <2>2 DEF Gate!vars
  <1>2. ASSUME NEW x \in Raisers, CommitRaise(x)
        PROVE  \E s \in SUBSET Ids : Gate!Raise(s)
    <2>1. spent' = spent
      BY <1>2 DEF CommitRaise, money
    <2>2. NoRow.stamps = {} /\ NoRow.status = "absent"
      BY DEF NoRow
    <2>3. Raised \subseteq Raised' /\ Consented' = Consented /\ Closed' = Closed
      BY <1>2, <2>2, InsertedRows
    <2>4. PICK s \in SUBSET Ids : Raised' = Raised \cup s
      <3>1. Raised' \ Raised \in SUBSET Ids /\ Raised' = Raised \cup (Raised' \ Raised)
        BY <2>3
      <3> QED
        BY <3>1
    <2> QED
      BY <2>1, <2>3, <2>4 DEF Gate!Raise
  <1>3. ASSUME NEW i \in Ids, Approve(i)
        PROVE  Gate!Consent(i)
    <2>1. /\ pool' = [pool EXCEPT ![i] = [pool[i] EXCEPT !.status = "approved",
                                                        !.stamps = @ \cup {"approved"}]]
          /\ pool[i].status # "absent" /\ spent' = spent
      BY <1>3 DEF Approve, money
    <2>2. pool[i] \in PoolRow /\ pool \in [Ids -> PoolRow]
      BY DEF GateInv, TypeOK
    <2>3. /\ pool'[i].status = "approved"
          /\ pool'[i].stamps = pool[i].stamps \cup {"approved"}
          /\ \A j \in Ids \ {i} : pool'[j] = pool[j]
      BY <2>1, <2>2 DEF PoolRow
    <2>4. Raised' = Raised /\ Consented' = Consented \cup {i} /\ Closed' = Closed
      BY <2>1, <2>3
    <2> QED
      BY <2>1, <2>4 DEF Gate!Consent
  <1>4. ASSUME NEW i \in Ids, Reject(i)
        PROVE  UNCHANGED Gate!vars
    <2>1. /\ pool' = [pool EXCEPT ![i] = [pool[i] EXCEPT !.status = "skipped"]]
          /\ pool[i].status # "absent" /\ spent' = spent
      BY <1>4 DEF Reject, money
    <2>2. pool[i] \in PoolRow /\ pool \in [Ids -> PoolRow]
      BY DEF GateInv, TypeOK
    <2>3. /\ pool'[i].status = "skipped" /\ pool'[i].stamps = pool[i].stamps
          /\ \A j \in Ids \ {i} : pool'[j] = pool[j]
      BY <2>1, <2>2 DEF PoolRow
    <2> QED
      BY <1>0, <2>1, <2>3 DEF Gate!vars
  <1>5. ASSUME NEW p \in Passes, NEW i \in Ids, NEW answer \in Asked,
               ResearchCandidate(p, i, answer)
        PROVE  Gate!Act(i)
    <2>1. pool' = pool /\ spent' = [spent EXCEPT ![i] = @ + 1]
      BY <1>5 DEF ResearchCandidate, gateVars
    <2>2. Acted' = Acted \cup {i}
      BY <2>1 DEF GateInv, TypeOK
    <2>3. i \in Consented
      BY <1>5, ResearchKeepsGate
    <2> QED
      BY <2>1, <2>2, <2>3 DEF Gate!Act
  <1>6. ASSUME NEW p \in Passes, RecordResearch(p)
        PROVE  \E s \in SUBSET Ids : Gate!Close(s)
    <2>1. spent' = spent
      BY <1>6 DEF RecordResearch
    <2>2. RowsOf(p, {"accepted"}) \subseteq Acted
      <3>1. \A i \in RowsOf(p, {"accepted"}) : i \in Ids /\ spent[i] > 0
        BY <1>6, RecordedRows, RowsOfPass
      <3> QED
        BY <3>1
    <2>3. Raised' = Raised /\ Consented' = Consented
      <3>1. ASSUME NEW i \in Ids
            PROVE  /\ pool'[i].status # "absent" <=> pool[i].status # "absent"
                   /\ "approved" \in pool'[i].stamps <=> "approved" \in pool[i].stamps
        <4>1. CASE i \in RowsOf(p, {"accepted"})
          <5>1. /\ pool'[i].status = "done"
                /\ pool'[i].stamps = pool[i].stamps \cup {"researched"}
                /\ "approved" \in pool[i].stamps
            BY <1>6, <4>1, RecordedRows
          <5>2. pool[i].status # "absent"
            BY <5>1, StoredRow
          <5> QED
            BY <5>1, <5>2
        <4>2. CASE i \notin RowsOf(p, {"accepted"})
          BY <1>6, <4>2, RecordedRows
        <4> QED
          BY <4>1, <4>2
      <3> QED
        BY <3>1
    <2>4. Closed' = Closed \cup RowsOf(p, {"accepted"})
      BY <1>6, RecordedRows, RowsOfPass
    <2>5. PICK s \in SUBSET Ids : s \subseteq Acted /\ Closed' = Closed \cup s
      BY <2>2, <2>4, RowsOfPass
    <2> QED
      BY <2>1, <2>3, <2>5 DEF Gate!Close
  <1>7. ASSUME UNCHANGED <<pool, spent>>
        PROVE  UNCHANGED Gate!vars
    BY <1>0, <1>7 DEF Gate!vars
  <1>8. CASE RaiseStep
    <2>1. ASSUME NEW x \in Raisers, NEW kind, NEW s, BeginRaise(x, kind, s)
          PROVE  UNCHANGED Gate!vars
      BY <1>7, <2>1 DEF BeginRaise, gateVars, money
    <2>2. ASSUME NEW x \in Raisers, CommitRaise(x)
          PROVE  Gate!Next
      BY <1>2, <2>2 DEF Gate!Next
    <2> QED
      BY <1>8, <2>1, <2>2 DEF RaiseStep
  <1>9. CASE RulingStep
    BY <1>3, <1>4, <1>9 DEF RulingStep, Gate!Next
  <1>10. ASSUME NEW p \in Passes, PassStep(p) \/ Crash(p)
         PROVE  [Gate!Next]_(Gate!vars)
    <2>1. CASE \/ DrainApprovedIntentions(p) \/ StageCandidates(p)
               \/ PrepareModelPrompt(p) \/ LedgerModelCall(p) \/ Crash(p)
      <3>1. UNCHANGED <<pool, spent>>
        BY <2>1 DEF DrainApprovedIntentions, StageCandidates, PrepareModelPrompt,
                    LedgerModelCall, Crash, gateVars, money
      <3> QED
        BY <1>7, <3>1
    <2>2. CASE \E i \in Ids, answer \in Asked : ResearchCandidate(p, i, answer)
      BY <1>5, <2>2 DEF Gate!Next
    <2>3. CASE RecordResearch(p)
      BY <1>6, <2>3 DEF Gate!Next
    <2> QED
      BY <1>10, <2>1, <2>2, <2>3 DEF PassStep
  <1>11. CASE UNCHANGED vars
    BY <1>7, <1>11 DEF vars
  <1>12. CASE \E f \in Findings : MaterialMoves(f)
    BY <1>7, <1>12 DEF MaterialMoves, gateVars, money
  <1> QED
    BY <1>1, <1>8, <1>9, <1>10, <1>11, <1>12 DEF Next

\* A row is searched only after a person consented to it and closed only after it
\* was searched, however raises, rulings, passes and crashes interleave.
THEOREM ImplementsGate == Spec => GateSpec
  BY InitIsGate, StepIsGate, GateIsKept, PTL DEF Spec, GateSpec, Gate!Spec

-----------------------------------------------------------------------------
(* Counting.                                                               *)

\* T is S but for what it says of x.
Moves(S, T, x) ==
    /\ Cardinality(S) \in Nat /\ Cardinality(T) \in Nat
    /\ (x \in S <=> x \in T) => Cardinality(T) = Cardinality(S)
    /\ x \in T /\ x \notin S => Cardinality(T) = Cardinality(S) + 1
    /\ x \in S /\ x \notin T => Cardinality(T) = Cardinality(S) - 1

LEMMA CountMoves ==
    ASSUME NEW U, IsFiniteSet(U), NEW S \in SUBSET U, NEW T \in SUBSET U, NEW x,
           \A y \in U \ {x} : y \in S <=> y \in T
    PROVE  Moves(S, T, x)
  <1>1. IsFiniteSet(S) /\ IsFiniteSet(T)
    BY FS_Subset
  <1>2. Cardinality(S) \in Nat /\ Cardinality(T) \in Nat
    BY <1>1, FS_CardinalityType
  <1>3. CASE x \in S <=> x \in T
    <2>1. S = T
      BY <1>3
    <2> QED
      BY <1>2, <1>3, <2>1 DEF Moves
  <1>4. CASE x \in T /\ x \notin S
    <2>1. T = S \cup {x}
      BY <1>4
    <2> QED
      BY <1>1, <1>2, <1>4, <2>1, FS_AddElement DEF Moves
  <1>5. CASE x \in S /\ x \notin T
    <2>1. S = T \cup {x}
      BY <1>5
    <2>2. Cardinality(S) = Cardinality(T) + 1
      BY <1>1, <1>5, <2>1, FS_AddElement
    <2> QED
      BY <1>2, <1>5, <2>2 DEF Moves
  <1> QED
    BY <1>3, <1>4, <1>5

LEMMA PartIsSmaller ==
    ASSUME NEW U, IsFiniteSet(U), NEW S \in SUBSET U
    PROVE  Cardinality(S) \in Nat /\ Cardinality(U) \in Nat /\ Cardinality(S) <= Cardinality(U)
  BY FS_Subset, FS_CardinalityType

-----------------------------------------------------------------------------
(* Rows per finding.                                                       *)

Citing(f) == { i \in Ids : pool[i].finding = f }
Writing(f) == { x \in Raisers : f \in raising[x].writes }

\* A raise about to insert a row of a finding already counts as one of its rows.
RowsAreCounted ==
    \A f \in Findings : Cardinality(Citing(f)) + Cardinality(Writing(f)) <= Cardinality(Raisers)

LEMMA IdsAreFinite == IsFiniteSet(Ids)
  <1>1. Cardinality(Findings) \in Nat
    BY FiniteAssumption, FS_CardinalityType
  <1>2. RaiseLimit * Cardinality(Findings) \in Int
    BY <1>1
  <1> QED
    BY <1>2, FS_Interval DEF Ids

LEMMA InitCountsRows == Init => RowsAreCounted
  <1> SUFFICES ASSUME Init, NEW f \in Findings
               PROVE  Cardinality(Citing(f)) + Cardinality(Writing(f)) <= Cardinality(Raisers)
    BY DEF RowsAreCounted
  <1>1. Citing(f) = {} /\ Writing(f) = {}
    BY DEF Init, Citing, Writing, NoRow, NoRaise
  <1>2. Cardinality(Raisers) \in Nat
    BY FiniteAssumption, FS_CardinalityType
  <1> QED
    BY <1>1, <1>2, FS_EmptySet

LEMMA BeginRaiseCountsRows ==
    ASSUME GateInv, RowsAreCounted, NEW x \in Raisers, NEW kind \in {"ingest", "score"},
           NEW s \in SUBSET Findings, BeginRaise(x, kind, s)
    PROVE  RowsAreCounted'
  <1> SUFFICES ASSUME NEW f \in Findings
               PROVE  Cardinality(Citing(f)') + Cardinality(Writing(f)') <= Cardinality(Raisers)
    BY DEF RowsAreCounted
  <1>1. pool' = pool /\ Citing(f)' = Citing(f)
    BY DEF BeginRaise, gateVars, Citing
  <1>2. \A y \in Raisers \ {x} : raising'[y] = raising[y]
    BY DEF BeginRaise, GateInv, TypeOK
  <1>3. f \in raising'[x].writes => ~AlreadyCited(f)
    BY DEF BeginRaise, GateInv, TypeOK
  <1>4. f \notin raising[x].writes
    BY DEF BeginRaise, NoRaise
  <1>5. Moves(Writing(f), Writing(f)', x)
    BY <1>2, FiniteAssumption, CountMoves DEF Writing
  <1>6. CASE f \in raising'[x].writes
    <2>1. Citing(f) = {}
      BY <1>3, <1>6 DEF AlreadyCited, Citing
    <2>2. /\ Cardinality(Writing(f)') \in Nat
          /\ Cardinality(Writing(f)') <= Cardinality(Raisers)
      BY FiniteAssumption, PartIsSmaller DEF Writing
    <2> QED
      BY <1>1, <2>1, <2>2, FS_EmptySet
  <1>7. CASE f \notin raising'[x].writes
    <2>1. Cardinality(Writing(f)') = Cardinality(Writing(f))
      BY <1>4, <1>5, <1>7 DEF Moves, Writing
    <2> QED
      BY <1>1, <2>1 DEF RowsAreCounted
  <1> QED
    BY <1>6, <1>7

\* An insert gives each finding the raise writes one id, and no other finding any.
LEMMA CommitRaiseCountsRows ==
    ASSUME GateInv, RowsAreCounted, NEW x \in Raisers, CommitRaise(x)
    PROVE  RowsAreCounted'
  <1> DEFINE w == raising[x].writes
             n == Cardinality(w)
             new == size + 1 .. size + n
  <1>1. w \in SUBSET Findings /\ IsFiniteSet(w) /\ n \in Nat /\ size \in Nat
    BY WritesAreCounted DEF GateInv, TypeOK, RaiseInFlight
  <1>2. PICK place \in [new -> w] :
            /\ \A f \in w : \E i \in new : place[i] = f
            /\ pool' = [i \in Ids |->
                  IF i \in new
                  THEN [finding |-> place[i],
                        entity |-> SubjectRead(raising[x].kind, place[i]),
                        status |-> "pending", stamps |-> {},
                        created |-> raising[x].created, fresh |-> 0]
                  ELSE pool[i]]
    BY DEF CommitRaise
  <1>3. raising' = [raising EXCEPT ![x] = NoRaise]
    BY DEF CommitRaise
  <1> HIDE DEF n, w
  <1>4. IsFiniteSet(new) /\ Cardinality(new) = n
    <2>1. size + 1 \in Int /\ size + n \in Int
      BY <1>1
    <2>2. /\ IsFiniteSet(new)
          /\ Cardinality(new) = IF size + 1 > size + n THEN 0 ELSE (size + n) - (size + 1) + 1
      BY <2>1, FS_Interval
    <2> QED
      BY <1>1, <2>2
  <1>5. \A i, j \in new : place[i] = place[j] => i = j
    <2>1. place \in Surjection(new, w)
      BY <1>2 DEF Surjection
    <2>2. place \in Injection(new, w)
      BY <1>4, <2>1, FS_SurjSameCardinalityImpliesInj DEF n
    <2> QED
      BY <2>2 DEF Injection, IsInjective
  <1>6. \A i \in Ids : /\ i \in new => pool'[i].finding = place[i] /\ pool[i].finding = Null
                       /\ i \notin new => pool'[i].finding = pool[i].finding
    <2>1. \A i \in Ids \cap new : i > size
      BY <1>1 DEF Ids
    <2>2. \A i \in Ids \cap new : pool[i] = NoRow
      BY <2>1 DEF GateInv, UnbornRows
    <2> QED
      BY <1>2, <2>2 DEF NoRow
  <1> HIDE DEF new
  <1> SUFFICES ASSUME NEW f \in Findings
               PROVE  Cardinality(Citing(f)') + Cardinality(Writing(f)') <= Cardinality(Raisers)
    BY DEF RowsAreCounted
  <1>7. Cardinality(Citing(f)) + Cardinality(Writing(f)) <= Cardinality(Raisers)
    BY DEF RowsAreCounted
  <1>8. /\ \A y \in Raisers \ {x} : y \in Writing(f) <=> y \in Writing(f)'
        /\ x \notin Writing(f)' /\ (x \in Writing(f) <=> f \in w)
    BY <1>3 DEF Writing, GateInv, TypeOK, NoRaise, w
  <1>9. Moves(Writing(f), Writing(f)', x)
    BY <1>8, FiniteAssumption, CountMoves DEF Writing
  <1>10. Cardinality(Raisers) \in Nat
    BY FiniteAssumption, FS_CardinalityType
  <1>11. CASE f \in w
    <2>1. PICK k \in new : place[k] = f
      BY <1>2, <1>11
    <2>2. \A i \in Ids \ {k} : i \in Citing(f) <=> i \in Citing(f)'
      BY <1>5, <1>6, <2>1 DEF Citing
    <2>3. Moves(Citing(f), Citing(f)', k)
      BY <2>2, IdsAreFinite, CountMoves DEF Citing
    <2>4. Cardinality(Writing(f)') = Cardinality(Writing(f)) - 1
      BY <1>8, <1>9, <1>11 DEF Moves
    <2>5. k \notin Citing(f)
      BY <1>6, <2>1 DEF Citing
    <2> QED
      BY <1>7, <1>9, <1>10, <2>3, <2>4, <2>5 DEF Moves
  <1>12. CASE f \notin w
    <2>1. Citing(f)' = Citing(f)
      BY <1>2, <1>6, <1>12 DEF Citing
    <2>2. Cardinality(Writing(f)') = Cardinality(Writing(f))
      BY <1>8, <1>9, <1>12 DEF Moves
    <2> QED
      BY <1>7, <2>1, <2>2
  <1> QED
    BY <1>11, <1>12

\* No other statement says what a row is about.
LEMMA FindingsAreKept ==
    ASSUME GateInv, NEW i \in Ids,
           \/ Advance
           \/ \E f \in Findings : MaterialMoves(f)
           \/ \E j \in Ids : Approve(j) \/ Reject(j)
           \/ \E p \in Passes : PassStep(p) \/ Crash(p)
           \/ UNCHANGED vars
    PROVE  raising' = raising /\ pool'[i].finding = pool[i].finding
  <1>0. pool \in [Ids -> PoolRow]
    BY DEF GateInv, TypeOK
  <1>1. CASE Advance
    <2>1. pool'[i] = [pool[i] EXCEPT !.fresh = IF @ > 0 THEN @ - 1 ELSE 0] /\ raising' = raising
      BY <1>1 DEF Advance
    <2> QED
      BY <1>0, <2>1 DEF PoolRow
  <1>2. ASSUME NEW j \in Ids, Approve(j) \/ Reject(j)
        PROVE  raising' = raising /\ pool'[i].finding = pool[i].finding
    <2>1. \A x \in PoolRow :
             /\ [x EXCEPT !.status = "approved",
                          !.stamps = @ \cup {"approved"}].finding = x.finding
             /\ [x EXCEPT !.status = "skipped"].finding = x.finding
      BY DEF PoolRow
    <2>2. CASE Approve(j)
      <3>1. /\ raising' = raising
            /\ pool' = [pool EXCEPT ![j] = [pool[j] EXCEPT !.status = "approved",
                                                          !.stamps = @ \cup {"approved"}]]
        BY <2>2 DEF Approve
      <3> QED
        BY <1>0, <2>1, <3>1
    <2>3. CASE Reject(j)
      <3>1. /\ raising' = raising
            /\ pool' = [pool EXCEPT ![j] = [pool[j] EXCEPT !.status = "skipped"]]
        BY <2>3 DEF Reject
      <3> QED
        BY <1>0, <2>1, <3>1
    <2> QED
      BY <1>2, <2>2, <2>3
  <1>3. ASSUME NEW p \in Passes, PassStep(p) \/ Crash(p)
        PROVE  raising' = raising /\ pool'[i].finding = pool[i].finding
    <2>1. CASE RecordResearch(p)
      <3>1. raising' = raising /\ pool' = [j \in Ids |->
               IF j \in RowsOf(p, {"accepted"})
               THEN [pool[j] EXCEPT !.status = "done", !.stamps = @ \cup {"researched"},
                                    !.fresh = Window]
               ELSE pool[j]]
        BY <2>1 DEF RecordResearch
      <3> QED
        BY <1>0, <3>1 DEF PoolRow
    <2>2. CASE ~RecordResearch(p)
      BY <1>3, <2>2 DEF PassStep, DrainApprovedIntentions, StageCandidates, PrepareModelPrompt,
                        ResearchCandidate, LedgerModelCall, Crash, gateVars
    <2> QED
      BY <2>1, <2>2
  <1>4. CASE UNCHANGED vars
    BY <1>4 DEF vars
  <1>5. CASE \E f \in Findings : MaterialMoves(f)
    BY <1>5 DEF MaterialMoves, gateVars
  <1> QED
    BY <1>1, <1>2, <1>3, <1>4, <1>5

LEMMA StepCountsRows == GateInv /\ RowsAreCounted /\ [Next]_vars => RowsAreCounted'
  <1> SUFFICES ASSUME GateInv, RowsAreCounted, [Next]_vars PROVE RowsAreCounted'
    OBVIOUS
  <1>1. CASE RaiseStep
    BY <1>1, BeginRaiseCountsRows, CommitRaiseCountsRows DEF RaiseStep
  <1>2. CASE \/ Advance
             \/ \E f \in Findings : MaterialMoves(f)
             \/ RulingStep
             \/ \E p \in Passes : PassStep(p) \/ Crash(p)
             \/ UNCHANGED vars
    <2>1. raising' = raising
      BY <1>2 DEF Advance, MaterialMoves, RulingStep, Approve, Reject, PassStep,
                  DrainApprovedIntentions, StageCandidates, PrepareModelPrompt, ResearchCandidate,
                  LedgerModelCall, RecordResearch, Crash, vars
    <2>2. \A i \in Ids : pool'[i].finding = pool[i].finding
      BY <1>2, FindingsAreKept DEF RulingStep
    <2>3. \A f \in Findings : Citing(f)' = Citing(f) /\ Writing(f)' = Writing(f)
      BY <2>1, <2>2 DEF Citing, Writing
    <2> QED
      BY <2>3 DEF RowsAreCounted
  <1> QED
    BY <1>1, <1>2 DEF Next

\* A finding never has more rows than there are raises in flight together, for
\* every number of raises begun and however rulings and passes interleave.
THEOREM FindingRowsAreBounded == Spec => []RowsPerFindingAreBounded
  <1>1. RowsAreCounted => RowsPerFindingAreBounded
    <2> SUFFICES ASSUME RowsAreCounted, NEW f \in Findings
                 PROVE  Cardinality(Citing(f)) <= Cardinality(Raisers)
      BY DEF RowsPerFindingAreBounded, Citing
    <2>1. Cardinality(Citing(f)) \in Nat
      BY IdsAreFinite, PartIsSmaller DEF Citing
    <2>2. Cardinality(Writing(f)) \in Nat /\ Cardinality(Raisers) \in Nat
      BY FiniteAssumption, PartIsSmaller DEF Writing
    <2> QED
      BY <2>1, <2>2 DEF RowsAreCounted
  <1> QED
    BY <1>1, InitCountsRows, StepCountsRows, GateIsKept, PTL DEF Spec

-----------------------------------------------------------------------------
(* Calls, charges and results.                                             *)

Among(i, nodes, fates) == { p \in Passes : pc[p] \in nodes /\ fate[p][i] \in fates }

Working == {"gate", "prompt", "ask", "record"}

\* The passes that may still record a result of the row.
Holding(i) == Among(i, Working, {"drained", "staged", "accepted"})

\* The passes whose answer about the row is yet to be recorded.
Answered(i) == Among(i, Working, {"accepted"})
Unrecorded(i) == Among(i, {"record"}, {"accepted"})

\* Every call is accounted for by a result, a pass that holds the answer, a
\* refusal or a crash; the ledger lags it by the passes still asking; a result
\* follows its charge; and only an open row is drained, so that every result
\* spends the hold of a pass that drained the row before it closed.
RowIsAccounted(i) ==
    /\ "researched" \notin pool[i].stamps => dossiers[i] = 0
    /\ dossiers[i] + Cardinality(Holding(i)) <= Cardinality(Passes)
    /\ spent[i] <= dossiers[i] + Cardinality(Answered(i)) + refusals + crashes
    /\ ledger[i] + Cardinality(Unledgered(i)) <= spent[i]
    /\ spent[i] <= ledger[i] + Cardinality(Unledgered(i)) + crashes
    /\ dossiers[i] + Cardinality(Unrecorded(i)) <= ledger[i]

\* A pass at the gate has judged no row yet, and one before its prompts asked none.
FatesFit ==
    \A p \in Passes, i \in Ids :
        /\ pc[p] = "gate" => fate[p][i] \in {"none", "drained"}
        /\ pc[p] = "prompt" => fate[p][i] \in {"none", "drained", "badName", "staged"}

MoneyInv == FatesFit /\ \A i \in Ids : RowIsAccounted(i)

LEMMA MoneyTypes ==
    ASSUME GateInv, NEW i \in Ids
    PROVE  /\ spent[i] \in Nat /\ ledger[i] \in Nat /\ dossiers[i] \in Nat
           /\ refusals \in Nat /\ crashes \in Nat
           /\ Cardinality(Passes) \in Nat
  BY FiniteAssumption, FS_CardinalityType DEF GateInv, TypeOK

\* A step of one pass moves nothing but that pass.
LEMMA PassMoves ==
    ASSUME NEW p \in Passes, NEW i,
           \A q \in Passes \ {p} : pc'[q] = pc[q] /\ fate'[q] = fate[q]
    PROVE  /\ Moves(Holding(i), Holding(i)', p)
           /\ Moves(Answered(i), Answered(i)', p)
           /\ Moves(Unledgered(i), Unledgered(i)', p)
           /\ Moves(Unrecorded(i), Unrecorded(i)', p)
  <1>1. ASSUME NEW nodes, NEW fates
        PROVE  Moves(Among(i, nodes, fates), Among(i, nodes, fates)', p)
    BY FiniteAssumption, CountMoves DEF Among
  <1>2. /\ Unledgered(i) = Among(i, {"ask"}, Asked)
        /\ Unledgered(i)' = Among(i, {"ask"}, Asked)'
    BY DEF Unledgered, Among
  <1>3. Asked' = Asked /\ Working' = Working
    BY DEF Asked, Working
  <1> QED
    BY <1>1, <1>2, <1>3 DEF Holding, Answered, Unrecorded

LEMMA InitAccounts == Init => MoneyInv
  <1> SUFFICES ASSUME Init PROVE MoneyInv
    OBVIOUS
  <1>1. FatesFit
    BY DEF Init, FatesFit
  <1> SUFFICES ASSUME NEW i \in Ids PROVE RowIsAccounted(i)
    BY <1>1 DEF MoneyInv
  <1>2. Holding(i) = {} /\ Answered(i) = {} /\ Unledgered(i) = {} /\ Unrecorded(i) = {}
    BY DEF Init, Holding, Answered, Unledgered, Unrecorded, Among, Working
  <1>3. Cardinality({}) = 0 /\ Cardinality(Passes) \in Nat
    BY FiniteAssumption, FS_EmptySet, FS_CardinalityType
  <1>4. spent[i] = 0 /\ ledger[i] = 0 /\ dossiers[i] = 0 /\ refusals = 0 /\ crashes = 0
    BY DEF Init
  <1>5. /\ Cardinality(Holding(i)) = 0 /\ Cardinality(Answered(i)) = 0
        /\ Cardinality(Unledgered(i)) = 0 /\ Cardinality(Unrecorded(i)) = 0
    BY <1>2, <1>3
  <1>6. RowIsAccounted(i)
    BY <1>3, <1>4, <1>5 DEF RowIsAccounted
  <1> QED
    BY <1>6

\* A step that spends nothing, and opens no closed row, changes no count.
LEMMA IdleStepAccounts ==
    ASSUME MoneyInv, UNCHANGED <<pc, fate, spent, ledger, dossiers, refusals, crashes>>,
           \A i \in Ids : "researched" \in pool[i].stamps => "researched" \in pool'[i].stamps
    PROVE  MoneyInv'
  <1>1. FatesFit'
    BY DEF MoneyInv, FatesFit
  <1>2. ASSUME NEW i \in Ids PROVE RowIsAccounted(i)'
    <2>1. /\ Holding(i)' = Holding(i) /\ Answered(i)' = Answered(i)
          /\ Unledgered(i)' = Unledgered(i) /\ Unrecorded(i)' = Unrecorded(i)
      BY DEF Holding, Answered, Unledgered, Unrecorded, Among
    <2>2. /\ Cardinality(Holding(i)') = Cardinality(Holding(i))
          /\ Cardinality(Answered(i)') = Cardinality(Answered(i))
          /\ Cardinality(Unledgered(i)') = Cardinality(Unledgered(i))
          /\ Cardinality(Unrecorded(i)') = Cardinality(Unrecorded(i))
      BY <2>1
    <2> QED
      BY <2>2 DEF MoneyInv, RowIsAccounted
  <1> QED
    BY <1>1, <1>2 DEF MoneyInv

LEMMA DrainAccounts ==
    ASSUME GateInv, MoneyInv, NEW p \in Passes, DrainApprovedIntentions(p)
    PROVE  MoneyInv'
  <1> DEFINE batch == Oldest({ i \in Ids : Drainable(i) }, DrainLimit)
             held == [i \in Ids |-> IF i \in batch THEN "drained" ELSE "none"]
  <1>1. UNCHANGED <<pool, spent, ledger, dossiers, refusals, crashes>>
    BY DEF DrainApprovedIntentions, gateVars, money, counters
  <1>2. /\ fate' = [fate EXCEPT ![p] = held] /\ pc' = [pc EXCEPT ![p] = "gate"]
        /\ pc[p] = "ended"
    BY DEF DrainApprovedIntentions
  <1>3. \A i \in batch : "researched" \notin pool[i].stamps
    BY OldestIsPart DEF Drainable
  <1> HIDE DEF batch
  <1>4. /\ pc'[p] = "gate" /\ fate'[p] = held
        /\ \A q \in Passes \ {p} : pc'[q] = pc[q] /\ fate'[q] = fate[q]
    BY <1>2 DEF GateInv, TypeOK
  <1>5. FatesFit'
    BY <1>4 DEF MoneyInv, FatesFit
  <1>6. ASSUME NEW i \in Ids PROVE RowIsAccounted(i)'
    <2>1. /\ p \notin Answered(i)' /\ p \notin Answered(i)
          /\ p \notin Unledgered(i)' /\ p \notin Unledgered(i)
          /\ p \notin Unrecorded(i)' /\ p \notin Unrecorded(i)
          /\ p \notin Holding(i) /\ (p \in Holding(i)' => i \in batch)
      BY <1>2, <1>4 DEF Among, Holding, Answered, Unledgered, Unrecorded, Working, Asked
    <2>2. /\ Cardinality(Answered(i)') = Cardinality(Answered(i))
          /\ Cardinality(Unledgered(i)') = Cardinality(Unledgered(i))
          /\ Cardinality(Unrecorded(i)') = Cardinality(Unrecorded(i))
          /\ p \notin Holding(i)' => Cardinality(Holding(i)') = Cardinality(Holding(i))
      BY <1>4, <2>1, PassMoves DEF Moves
    <2>3. p \in Holding(i)' => dossiers[i] = 0
      BY <1>3, <2>1 DEF MoneyInv, RowIsAccounted
    <2>4. /\ Cardinality(Holding(i)') \in Nat
          /\ Cardinality(Holding(i)') <= Cardinality(Passes)
      BY FiniteAssumption, PartIsSmaller DEF Holding, Among
    <2>5. dossiers[i] + Cardinality(Holding(i)') <= Cardinality(Passes)
      BY <2>2, <2>3, <2>4 DEF MoneyInv, RowIsAccounted
    <2> QED
      BY <1>1, <2>2, <2>5 DEF MoneyInv, RowIsAccounted
  <1> QED
    BY <1>5, <1>6 DEF MoneyInv

LEMMA StageAccounts ==
    ASSUME GateInv, MoneyInv, NEW p \in Passes, StageCandidates(p)
    PROVE  MoneyInv'
  <1>1. UNCHANGED <<pool, spent, ledger, dossiers, refusals, crashes>>
    BY DEF StageCandidates, gateVars, money, counters
  <1>2. /\ pc[p] = "gate" /\ pc'[p] \in {"ended", "prompt"}
        /\ \A q \in Passes \ {p} : pc'[q] = pc[q] /\ fate'[q] = fate[q]
    BY DEF StageCandidates, GateInv, TypeOK
  <1>3. \A i \in Ids : /\ fate[p][i] \in {"none", "drained"}
                       /\ fate'[p][i] \in {"none", "drained", "badName", "staged"}
                       /\ fate'[p][i] \in {"drained", "staged"} => fate[p][i] = "drained"
    <2>1. \A i \in Ids : fate[p][i] \in {"none", "drained"}
      BY <1>2 DEF MoneyInv, FatesFit
    <2>2. PICK named \in SUBSET RowsOf(p, {"drained"}), staged \in SUBSET RowsOf(p, {"drained"}) :
            fate' = [fate EXCEPT ![p] =
                  [i \in Ids |-> IF i \in staged THEN "staged"
                                 ELSE IF @[i] = "drained" /\ i \notin named THEN "badName"
                                 ELSE @[i]]]
      <3> DEFINE named == { i \in RowsOf(p, {"drained"}) : Subject(i) \in Sound }
                 staged == Oldest(named, CallCeiling)
      <3>1. named \subseteq RowsOf(p, {"drained"}) /\ staged \subseteq named
        BY OldestIsPart
      <3>2. fate' = [fate EXCEPT ![p] =
                [i \in Ids |-> IF i \in staged THEN "staged"
                               ELSE IF @[i] = "drained" /\ i \notin named THEN "badName"
                               ELSE @[i]]]
        BY DEF StageCandidates
      <3> HIDE DEF named, staged
      <3> QED
        BY <3>1, <3>2
    <2>3. \A i \in staged : fate[p][i] = "drained"
      BY RowsOfPass
    <2>4. \A i \in Ids :
             fate'[p][i] = IF i \in staged THEN "staged"
                           ELSE IF fate[p][i] = "drained" /\ i \notin named THEN "badName"
                           ELSE fate[p][i]
      BY <2>2 DEF GateInv, TypeOK
    <2> QED
      BY <2>1, <2>3, <2>4
  <1>4. FatesFit'
    BY <1>2, <1>3 DEF MoneyInv, FatesFit
  <1>5. ASSUME NEW i \in Ids PROVE RowIsAccounted(i)'
    <2>1. /\ p \notin Answered(i)' /\ p \notin Answered(i)
          /\ p \notin Unledgered(i)' /\ p \notin Unledgered(i)
          /\ p \notin Unrecorded(i)' /\ p \notin Unrecorded(i)
          /\ p \in Holding(i)' => p \in Holding(i)
      BY <1>2, <1>3 DEF Among, Holding, Answered, Unledgered, Unrecorded, Working, Asked
    <2>2. /\ Cardinality(Answered(i)') = Cardinality(Answered(i))
          /\ Cardinality(Unledgered(i)') = Cardinality(Unledgered(i))
          /\ Cardinality(Unrecorded(i)') = Cardinality(Unrecorded(i))
          /\ Cardinality(Holding(i)') \in Nat /\ Cardinality(Holding(i)) \in Nat
          /\ Cardinality(Holding(i)') <= Cardinality(Holding(i))
      BY <1>2, <2>1, PassMoves DEF Moves
    <2> QED
      BY <1>1, <2>2, MoneyTypes DEF MoneyInv, RowIsAccounted
  <1> QED
    BY <1>4, <1>5 DEF MoneyInv

LEMMA PromptAccounts ==
    ASSUME GateInv, MoneyInv, NEW p \in Passes, PrepareModelPrompt(p)
    PROVE  MoneyInv'
  <1> DEFINE bare == RowsOf(p, {"staged"}) \ offered[p]
  <1>1. UNCHANGED <<pool, spent, ledger, dossiers, refusals, crashes>>
    BY DEF PrepareModelPrompt, gateVars, money, counters
  <1>2. /\ pc[p] = "prompt" /\ pc'[p] \in {"ended", "ask"}
        /\ \A q \in Passes \ {p} : pc'[q] = pc[q] /\ fate'[q] = fate[q]
    BY DEF PrepareModelPrompt, GateInv, TypeOK
  <1>3. \A i \in Ids : /\ fate[p][i] \in {"none", "drained", "badName", "staged"}
                       /\ fate'[p][i] = fate[p][i] \/ fate'[p][i] = "noMaterial"
    <2>1. \A i \in Ids : fate'[p][i] = IF i \in bare THEN "noMaterial" ELSE fate[p][i]
      BY DEF PrepareModelPrompt, GateInv, TypeOK
    <2> HIDE DEF bare
    <2> QED
      BY <1>2, <2>1 DEF MoneyInv, FatesFit
  <1>4. FatesFit'
    BY <1>2 DEF MoneyInv, FatesFit
  <1>5. ASSUME NEW i \in Ids PROVE RowIsAccounted(i)'
    <2>1. /\ p \notin Answered(i)' /\ p \notin Answered(i)
          /\ p \notin Unledgered(i)' /\ p \notin Unledgered(i)
          /\ p \notin Unrecorded(i)' /\ p \notin Unrecorded(i)
          /\ p \in Holding(i)' => p \in Holding(i)
      BY <1>2, <1>3 DEF Among, Holding, Answered, Unledgered, Unrecorded, Working, Asked
    <2>2. /\ Cardinality(Answered(i)') = Cardinality(Answered(i))
          /\ Cardinality(Unledgered(i)') = Cardinality(Unledgered(i))
          /\ Cardinality(Unrecorded(i)') = Cardinality(Unrecorded(i))
          /\ Cardinality(Holding(i)') \in Nat /\ Cardinality(Holding(i)) \in Nat
          /\ Cardinality(Holding(i)') <= Cardinality(Holding(i))
      BY <1>2, <2>1, PassMoves DEF Moves
    <2> QED
      BY <1>1, <2>2, MoneyTypes DEF MoneyInv, RowIsAccounted
  <1> QED
    BY <1>4, <1>5 DEF MoneyInv

LEMMA ResearchAccounts ==
    ASSUME GateInv, MoneyInv, NEW p \in Passes, NEW k \in Ids, NEW answer \in Asked,
           ResearchCandidate(p, k, answer)
    PROVE  MoneyInv'
  <1>1. UNCHANGED <<pool, pc, ledger, dossiers, crashes>>
    BY DEF ResearchCandidate, gateVars
  <1>2. /\ pc[p] = "ask" /\ pc'[p] = "ask"
        /\ \A q \in Passes \ {p} : pc'[q] = pc[q] /\ fate'[q] = fate[q]
        /\ fate[p][k] = "staged" /\ fate'[p][k] = answer
        /\ \A i \in Ids \ {k} : fate'[p][i] = fate[p][i] /\ spent'[i] = spent[i]
        /\ spent'[k] = spent[k] + 1
        /\ refusals' = IF answer = "refused" THEN refusals + 1 ELSE refusals
    BY OldestIsPart, RowsOfPass DEF ResearchCandidate, GateInv, TypeOK
  <1>3. FatesFit'
    BY <1>1, <1>2 DEF MoneyInv, FatesFit
  <1>4. ASSUME NEW i \in Ids \ {k} PROVE RowIsAccounted(i)'
    <2>1. /\ p \in Holding(i)' <=> p \in Holding(i)
          /\ p \in Answered(i)' <=> p \in Answered(i)
          /\ p \in Unledgered(i)' <=> p \in Unledgered(i)
          /\ p \in Unrecorded(i)' <=> p \in Unrecorded(i)
      BY <1>1, <1>2 DEF Among, Holding, Answered, Unledgered, Unrecorded
    <2>2. /\ Cardinality(Holding(i)') = Cardinality(Holding(i))
          /\ Cardinality(Answered(i)') = Cardinality(Answered(i))
          /\ Cardinality(Unledgered(i)') = Cardinality(Unledgered(i))
          /\ Cardinality(Unrecorded(i)') = Cardinality(Unrecorded(i))
          /\ Cardinality(Answered(i)) \in Nat
      BY <1>2, <2>1, PassMoves DEF Moves
    <2> QED
      BY <1>1, <1>2, <2>2, MoneyTypes DEF MoneyInv, RowIsAccounted
  <1>5. RowIsAccounted(k)'
    <2>1. /\ p \in Holding(k) /\ (p \in Holding(k)' <=> answer = "accepted")
          /\ p \notin Answered(k) /\ (p \in Answered(k)' <=> answer = "accepted")
          /\ p \notin Unledgered(k) /\ p \in Unledgered(k)'
          /\ p \notin Unrecorded(k) /\ p \notin Unrecorded(k)'
      BY <1>2 DEF Among, Holding, Answered, Unledgered, Unrecorded, Working, Asked
    <2>2. /\ Cardinality(Holding(k)') \in Nat /\ Cardinality(Holding(k)) \in Nat
          /\ Cardinality(Holding(k)') <= Cardinality(Holding(k))
          /\ Cardinality(Unledgered(k)') = Cardinality(Unledgered(k)) + 1
          /\ Cardinality(Unledgered(k)) \in Nat
          /\ Cardinality(Unrecorded(k)') = Cardinality(Unrecorded(k))
      BY <1>2, <2>1, PassMoves DEF Moves
    <2>3. /\ Cardinality(Answered(k)) \in Nat
          /\ Cardinality(Answered(k)') + refusals' = Cardinality(Answered(k)) + refusals + 1
      BY <1>2, <2>1, PassMoves, MoneyTypes DEF Moves, Asked
    <2>4. refusals' \in Nat /\ Cardinality(Answered(k)') \in Nat
      BY <1>2, PassMoves, MoneyTypes DEF Moves
    <2> QED
      BY <1>1, <1>2, <2>2, <2>3, <2>4, MoneyTypes DEF MoneyInv, RowIsAccounted
  <1> QED
    BY <1>3, <1>4, <1>5 DEF MoneyInv

LEMMA LedgerAccounts ==
    ASSUME GateInv, MoneyInv, NEW p \in Passes, LedgerModelCall(p)
    PROVE  MoneyInv'
  <1>1. UNCHANGED <<pool, fate, spent, dossiers, refusals, crashes>>
    BY DEF LedgerModelCall, gateVars, counters
  <1>2. /\ pc[p] = "ask" /\ pc'[p] = "record"
        /\ \A q \in Passes \ {p} : pc'[q] = pc[q] /\ fate'[q] = fate[q]
    BY <1>1 DEF LedgerModelCall, GateInv, TypeOK
  <1>3. \A i \in Ids : ledger'[i] = IF fate[p][i] \in Asked THEN ledger[i] + 1 ELSE ledger[i]
    BY DEF LedgerModelCall, RowsOf
  <1>4. FatesFit'
    BY <1>1, <1>2 DEF MoneyInv, FatesFit
  <1>5. ASSUME NEW i \in Ids PROVE RowIsAccounted(i)'
    <2>1. /\ p \in Holding(i)' <=> p \in Holding(i)
          /\ p \in Answered(i)' <=> p \in Answered(i)
          /\ p \notin Unledgered(i)' /\ (p \in Unledgered(i) <=> fate[p][i] \in Asked)
          /\ p \notin Unrecorded(i) /\ (p \in Unrecorded(i)' => fate[p][i] \in Asked)
      BY <1>1, <1>2 DEF Among, Holding, Answered, Unledgered, Unrecorded, Working, Asked
    <2>2. /\ Cardinality(Holding(i)') = Cardinality(Holding(i))
          /\ Cardinality(Answered(i)') = Cardinality(Answered(i))
          /\ ledger'[i] + Cardinality(Unledgered(i)') = ledger[i] + Cardinality(Unledgered(i))
      BY <1>2, <1>3, <2>1, PassMoves, MoneyTypes DEF Moves
    <2>3. dossiers[i] + Cardinality(Unrecorded(i)') <= ledger'[i]
      <3>1. dossiers[i] + Cardinality(Unrecorded(i)) <= ledger[i]
        BY DEF MoneyInv, RowIsAccounted
      <3> QED
        BY <1>2, <1>3, <2>1, <3>1, PassMoves, MoneyTypes DEF Moves
    <2> QED
      BY <1>1, <2>2, <2>3 DEF MoneyInv, RowIsAccounted
  <1> QED
    BY <1>4, <1>5 DEF MoneyInv

LEMMA RecordAccounts ==
    ASSUME GateInv, MoneyInv, NEW p \in Passes, RecordResearch(p)
    PROVE  MoneyInv'
  <1>1. UNCHANGED <<fate, spent, ledger, refusals, crashes>>
    BY DEF RecordResearch, counters
  <1>2. /\ pc[p] = "record" /\ pc'[p] = "ended"
        /\ \A q \in Passes \ {p} : pc'[q] = pc[q] /\ fate'[q] = fate[q]
    BY <1>1 DEF RecordResearch, GateInv, TypeOK
  <1>3. \A i \in Ids : dossiers'[i] = IF fate[p][i] = "accepted" THEN dossiers[i] + 1
                                      ELSE dossiers[i]
    BY DEF RecordResearch, RowsOf
  <1>4. \A i \in Ids : /\ "researched" \in pool[i].stamps => "researched" \in pool'[i].stamps
                       /\ fate[p][i] = "accepted" => "researched" \in pool'[i].stamps
    BY RecordedRows DEF RowsOf
  <1>5. FatesFit'
    BY <1>1, <1>2 DEF MoneyInv, FatesFit
  <1>6. ASSUME NEW i \in Ids PROVE RowIsAccounted(i)'
    <2>1. /\ p \notin Holding(i)' /\ p \notin Answered(i)'
          /\ p \notin Unledgered(i) /\ p \notin Unledgered(i)' /\ p \notin Unrecorded(i)'
          /\ p \in Answered(i) <=> fate[p][i] = "accepted"
          /\ p \in Unrecorded(i) <=> fate[p][i] = "accepted"
          /\ fate[p][i] = "accepted" => p \in Holding(i)
      BY <1>2 DEF Among, Holding, Answered, Unledgered, Unrecorded, Working
    <2>2. /\ dossiers'[i] + Cardinality(Answered(i)') = dossiers[i] + Cardinality(Answered(i))
          /\ dossiers'[i] + Cardinality(Unrecorded(i)')
                = dossiers[i] + Cardinality(Unrecorded(i))
          /\ dossiers'[i] + Cardinality(Holding(i)') <= dossiers[i] + Cardinality(Holding(i))
          /\ Cardinality(Unledgered(i)') = Cardinality(Unledgered(i))
      BY <1>2, <1>3, <2>1, PassMoves, MoneyTypes DEF Moves
    <2>3. /\ dossiers'[i] \in Nat
          /\ Cardinality(Holding(i)) \in Nat /\ Cardinality(Holding(i)') \in Nat
      BY <1>2, <1>3, PassMoves, MoneyTypes DEF Moves
    <2>4. dossiers'[i] + Cardinality(Holding(i)') <= Cardinality(Passes)
      BY <2>2, <2>3, MoneyTypes DEF MoneyInv, RowIsAccounted
    <2>5. "researched" \notin pool'[i].stamps => dossiers'[i] = 0
      BY <1>3, <1>4 DEF MoneyInv, RowIsAccounted
    <2> QED
      BY <1>1, <2>2, <2>4, <2>5 DEF MoneyInv, RowIsAccounted
  <1> QED
    BY <1>5, <1>6 DEF MoneyInv

LEMMA CrashAccounts ==
    ASSUME GateInv, MoneyInv, NEW p \in Passes, Crash(p)
    PROVE  MoneyInv'
  <1>1. UNCHANGED <<pool, fate, spent, ledger, dossiers, refusals>> /\ crashes' = crashes + 1
    BY DEF Crash, gateVars, money
  <1>2. /\ pc'[p] = "ended"
        /\ \A q \in Passes \ {p} : pc'[q] = pc[q] /\ fate'[q] = fate[q]
    BY <1>1 DEF Crash, GateInv, TypeOK
  <1>3. FatesFit'
    BY <1>1, <1>2 DEF MoneyInv, FatesFit
  <1>4. ASSUME NEW i \in Ids PROVE RowIsAccounted(i)'
    <2>1. /\ p \notin Holding(i)' /\ p \notin Answered(i)'
          /\ p \notin Unledgered(i)' /\ p \notin Unrecorded(i)'
      BY <1>2 DEF Among, Holding, Answered, Unledgered, Unrecorded, Working
    <2>2. ASSUME NEW S, NEW T, Moves(S, T, p), p \notin T
          PROVE  /\ Cardinality(S) \in Nat /\ Cardinality(T) \in Nat
                 /\ Cardinality(T) <= Cardinality(S) /\ Cardinality(S) <= Cardinality(T) + 1
      BY <2>2 DEF Moves
    <2>3. /\ Moves(Holding(i), Holding(i)', p) /\ Moves(Answered(i), Answered(i)', p)
          /\ Moves(Unledgered(i), Unledgered(i)', p)
          /\ Moves(Unrecorded(i), Unrecorded(i)', p)
      BY <1>2, PassMoves
    <2>4. /\ Cardinality(Holding(i)) \in Nat /\ Cardinality(Holding(i)') \in Nat
          /\ Cardinality(Holding(i)') <= Cardinality(Holding(i))
      BY <2>1, <2>2, <2>3
    <2>5. /\ Cardinality(Answered(i)) \in Nat /\ Cardinality(Answered(i)') \in Nat
          /\ Cardinality(Answered(i)) <= Cardinality(Answered(i)') + 1
      BY <2>1, <2>2, <2>3
    <2>6. /\ Cardinality(Unledgered(i)) \in Nat /\ Cardinality(Unledgered(i)') \in Nat
          /\ Cardinality(Unledgered(i)') <= Cardinality(Unledgered(i))
          /\ Cardinality(Unledgered(i)) <= Cardinality(Unledgered(i)') + 1
      BY <2>1, <2>2, <2>3
    <2>7. /\ Cardinality(Unrecorded(i)) \in Nat /\ Cardinality(Unrecorded(i)') \in Nat
          /\ Cardinality(Unrecorded(i)') <= Cardinality(Unrecorded(i))
      BY <2>1, <2>2, <2>3
    <2> QED
      BY <1>1, <2>4, <2>5, <2>6, <2>7, MoneyTypes DEF MoneyInv, RowIsAccounted
  <1> QED
    BY <1>3, <1>4 DEF MoneyInv

LEMMA StepAccounts == GateInv /\ MoneyInv /\ [Next]_vars => MoneyInv'
  <1> SUFFICES ASSUME GateInv, MoneyInv, [Next]_vars PROVE MoneyInv'
    OBVIOUS
  <1>1. CASE Advance
    BY <1>1, AgedRows, IdleStepAccounts DEF Advance, passVars, money, counters
  <1>2. ASSUME NEW x \in Raisers, NEW kind, NEW s, BeginRaise(x, kind, s)
        PROVE  MoneyInv'
    BY <1>2, IdleStepAccounts DEF BeginRaise, gateVars, passVars, money
  <1>3. ASSUME NEW x \in Raisers, CommitRaise(x)
        PROVE  MoneyInv'
    <2>1. NoRow.stamps = {}
      BY DEF NoRow
    <2>2. \A i \in Ids : "researched" \in pool[i].stamps => "researched" \in pool'[i].stamps
      BY <1>3, <2>1, InsertedRows
    <2> QED
      BY <1>3, <2>2, IdleStepAccounts DEF CommitRaise, passVars, money, counters
  <1>4. ASSUME NEW j \in Ids, Approve(j) \/ Reject(j)
        PROVE  MoneyInv'
    <2>1. UNCHANGED <<pc, fate, spent, ledger, dossiers, refusals, crashes>>
      BY <1>4 DEF Approve, Reject, passVars, money
    <2>2. \A x \in PoolRow :
             /\ [x EXCEPT !.status = "approved", !.stamps = @ \cup {"approved"}].stamps
                   = x.stamps \cup {"approved"}
             /\ [x EXCEPT !.status = "skipped"].stamps = x.stamps
      BY DEF PoolRow
    <2>3. pool \in [Ids -> PoolRow]
      BY DEF GateInv, TypeOK
    <2>4. CASE Approve(j)
      <3>1. pool' = [pool EXCEPT ![j] = [pool[j] EXCEPT !.status = "approved",
                                                       !.stamps = @ \cup {"approved"}]]
        BY <2>4 DEF Approve
      <3>2. \A i \in Ids : pool[i].stamps \subseteq pool'[i].stamps
        BY <2>2, <2>3, <3>1
      <3> QED
        BY <2>1, <3>2, IdleStepAccounts
    <2>5. CASE Reject(j)
      <3>1. pool' = [pool EXCEPT ![j] = [pool[j] EXCEPT !.status = "skipped"]]
        BY <2>5 DEF Reject
      <3>2. \A i \in Ids : pool[i].stamps \subseteq pool'[i].stamps
        BY <2>2, <2>3, <3>1
      <3> QED
        BY <2>1, <3>2, IdleStepAccounts
    <2> QED
      BY <1>4, <2>4, <2>5
  <1>5. ASSUME NEW p \in Passes, PassStep(p) \/ Crash(p) PROVE MoneyInv'
    BY <1>5, DrainAccounts, StageAccounts, PromptAccounts, ResearchAccounts, LedgerAccounts,
       RecordAccounts, CrashAccounts DEF PassStep
  <1>6. CASE UNCHANGED vars
    BY <1>6, IdleStepAccounts DEF vars
  <1>7. ASSUME NEW f \in Findings, MaterialMoves(f)
        PROVE  MoneyInv'
    BY <1>7, IdleStepAccounts DEF MaterialMoves, gateVars, passVars, money
  <1> QED
    BY <1>1, <1>2, <1>3, <1>4, <1>5, <1>6, <1>7 DEF Next, RaiseStep, RulingStep

\* Calls, charges and results stay in step, in every reachable state.
LEMMA MoneyIsAccounted == Spec => [](GateInv /\ MoneyInv)
  BY InitAccounts, StepAccounts, GateIsKept, PTL DEF Spec

LEMMA RowCounts ==
    ASSUME GateInv, NEW i \in Ids
    PROVE  /\ Cardinality(Holding(i)) \in Nat /\ Cardinality(Answered(i)) \in Nat
           /\ Cardinality(Unledgered(i)) \in Nat /\ Cardinality(Unrecorded(i)) \in Nat
           /\ Cardinality(Answered(i)) <= Cardinality(Holding(i))
  <1>1. IsFiniteSet(Holding(i)) /\ Answered(i) \in SUBSET Holding(i)
    BY FiniteAssumption, FS_Subset DEF Holding, Answered, Among
  <1>2. /\ Cardinality(Holding(i)) \in Nat
        /\ Cardinality(Unledgered(i)) \in Nat /\ Cardinality(Unrecorded(i)) \in Nat
    BY FiniteAssumption, PartIsSmaller DEF Holding, Unledgered, Unrecorded, Among
  <1> QED
    BY <1>1, <1>2, PartIsSmaller

\* A row is paid for at most once per pass, and once more for each refused answer
\* and each dead execution, however often it is approved again.
THEOREM RowSpendIsBounded == Spec => []SpendPerRowIsBounded
  <1>1. GateInv /\ MoneyInv => SpendPerRowIsBounded
    BY RowCounts, MoneyTypes DEF MoneyInv, RowIsAccounted, SpendPerRowIsBounded
  <1> QED
    BY <1>1, MoneyIsAccounted, PTL

\* The ledger misses no call but those of passes still asking or dead, and charges
\* for every result that is stored.
THEOREM LedgerMissesNothing == Spec => []LedgerAccountsForSpend
  <1>1. GateInv /\ MoneyInv => LedgerAccountsForSpend
    BY RowCounts, MoneyTypes DEF MoneyInv, RowIsAccounted, LedgerAccountsForSpend
  <1> QED
    BY <1>1, MoneyIsAccounted, PTL

-----------------------------------------------------------------------------
(* The end of a pass, AgentReschedule: for every set of executions and of  *)
(* ceilings.                                                               *)

HIDE LimitsAssumption
HIDE SubjectsAssumption
USE CeilingsAssumption

(* The types.                                                              *)

LEMMA WalkInitType == RescheduleInit => RescheduleTypeOK
  BY DEF RescheduleInit, RescheduleTypeOK, NoReading, Reading

\* What `walk` answers is a reading, whichever of its two answers it is.
LEMMA WalkReadingType ==
    ASSUME RescheduleTypeOK, NEW p \in Executions
    PROVE  (IF handed[p] /\ life = "live"
            THEN [found |-> TRUE, streak |-> streak, cap |-> ceiling]
            ELSE NoReading) \in Reading
  BY DEF RescheduleTypeOK, NoReading, Reading

LEMMA FinishKeepsTypes ==
    ASSUME RescheduleTypeOK, NEW p \in Executions, FinishClose(p)
    PROVE  RescheduleTypeOK'
  <1>1. /\ node' \in [Executions -> {"ended", "propose", "close", "closing"}]
        /\ <<life, ceiling, handed, proposes, seen>>'
              = <<life, ceiling, handed, proposes, seen>>
    BY DEF FinishClose, RescheduleTypeOK
  <1>2. CASE seen[p].found /\ life = "live"
    <2>1. setBy' \in {"interval", "operator", "agent"}
      BY <1>2 DEF FinishClose, RescheduleTypeOK
    <2>2. streak' \in Nat /\ walk' \in Nat
      BY <1>2 DEF FinishClose, RescheduleTypeOK
    <2>3. report' \in [Executions -> {"none", "agent", "interval"}]
      BY <1>2 DEF FinishClose, RescheduleTypeOK, ScheduledBy
    <2> QED
      BY <1>1, <2>1, <2>2, <2>3 DEF RescheduleTypeOK
  <1>3. CASE ~(seen[p].found /\ life = "live")
    <2>1. /\ report' \in [Executions -> {"none", "agent", "interval"}]
          /\ <<setBy, streak, walk>>' = <<setBy, streak, walk>>
      BY <1>3 DEF FinishClose, RescheduleTypeOK
    <2> QED
      BY <1>1, <2>1 DEF RescheduleTypeOK
  <1> QED
    BY <1>2, <1>3

LEMMA WalkNextType ==
    RescheduleTypeOK /\ [RescheduleNext]_rescheduleVars => RescheduleTypeOK'
  <1> SUFFICES ASSUME RescheduleTypeOK, [RescheduleNext]_rescheduleVars PROVE RescheduleTypeOK'
    OBVIOUS
  <1> USE DEF topicVars
  <1>0. CASE UNCHANGED rescheduleVars
    BY <1>0 DEF rescheduleVars, RescheduleTypeOK
  <1>1. CASE TopicStep
    <2>1. ASSUME NEW mode \in {"interval", "operator"}, WriteNextRun(mode)
          PROVE  RescheduleTypeOK'
      BY <2>1 DEF WriteNextRun, RescheduleTypeOK
    <2>2. ASSUME NEW c \in Ceilings, SetCeiling(c)
          PROVE  RescheduleTypeOK'
      BY <2>2 DEF SetCeiling, RescheduleTypeOK
    <2>3. ASSUME NEW end \in {"deleted", "domainDeleted"}, Delete(end)
          PROVE  RescheduleTypeOK'
      BY <2>3 DEF Delete, RescheduleTypeOK
    <2> QED
      BY <1>1, <2>1, <2>2, <2>3 DEF TopicStep
  <1>2. ASSUME NEW p \in Executions, ExecutionStep(p)
        PROVE  RescheduleTypeOK'
    <2>1. ASSUME NEW topic \in BOOLEAN, Invoke(p, topic)
          PROVE  RescheduleTypeOK'
      BY <2>1 DEF Invoke, RescheduleTypeOK
    <2>2. ASSUME NEW leftBehind \in BOOLEAN, ProposeNextRun(p, leftBehind)
          PROVE  RescheduleTypeOK'
      <3>1. (leftBehind /\ handed[p]) \in BOOLEAN
        OBVIOUS
      <3> QED
        BY <2>2, <3>1 DEF ProposeNextRun, RescheduleTypeOK
    <2>3. CASE BeginClose(p)
      BY <2>3, WalkReadingType DEF BeginClose, RescheduleTypeOK
    <2>4. CASE FinishClose(p)
      BY <2>4, FinishKeepsTypes
    <2>5. CASE Stop(p)
      BY <2>5 DEF Stop, RescheduleTypeOK
    <2> QED
      BY <1>2, <2>1, <2>2, <2>3, <2>4, <2>5 DEF ExecutionStep
  <1> QED
    BY <1>0, <1>1, <1>2 DEF RescheduleNext

\* Every variable keeps its type, and agent_reschedules is always a count.
THEOREM WalkTypes == RescheduleSpec => []RescheduleTypeOK
  BY WalkInitType, WalkNextType, PTL DEF RescheduleSpec

-----------------------------------------------------------------------------
(* The ceiling and the attribution.                                        *)

\* No update of the count is lost: the column holds the gaps written since a
\* pass last proposed none.
CountIsTheWalk == walk = streak

LEMMA WalkNextCount ==
    RescheduleTypeOK /\ CountIsTheWalk /\ [RescheduleNext]_rescheduleVars => CountIsTheWalk'
  <1> SUFFICES ASSUME CountIsTheWalk, [RescheduleNext]_rescheduleVars PROVE CountIsTheWalk'
    OBVIOUS
  <1> USE DEF CountIsTheWalk
  <1>1. CASE UNCHANGED <<streak, walk>>
    BY <1>1
  <1>2. ASSUME NEW p \in Executions, FinishClose(p)
        PROVE  walk' = streak'
    BY <1>2 DEF FinishClose
  <1>3. CASE TopicStep
    BY <1>1, <1>3 DEF TopicStep, WriteNextRun, SetCeiling, Delete
  <1>4. ASSUME NEW p \in Executions, ExecutionStep(p)
        PROVE  walk' = streak'
    BY <1>1, <1>2, <1>4 DEF ExecutionStep, Invoke, ProposeNextRun,
       BeginClose, Stop, topicVars
  <1> QED
    BY <1>1, <1>3, <1>4 DEF RescheduleNext, rescheduleVars

\* A pass has no run of its own before its statement has ended.
RunningIsUnreported == \A p \in Executions : node[p] # "ended" => report[p] = "none"

LEMMA WalkNextUnreported ==
    RescheduleTypeOK /\ RunningIsUnreported /\ [RescheduleNext]_rescheduleVars => RunningIsUnreported'
  <1> SUFFICES ASSUME RescheduleTypeOK, RunningIsUnreported, [RescheduleNext]_rescheduleVars
               PROVE  RunningIsUnreported'
    OBVIOUS
  <1> USE DEF RunningIsUnreported
  <1>1. CASE UNCHANGED <<node, report>>
    BY <1>1
  <1>2. CASE TopicStep
    BY <1>1, <1>2 DEF TopicStep, WriteNextRun, SetCeiling, Delete
  <1>3. ASSUME NEW p \in Executions, ExecutionStep(p)
        PROVE  RunningIsUnreported'
    <2>1. ASSUME NEW topic \in BOOLEAN, Invoke(p, topic)
          PROVE  RunningIsUnreported'
      BY <2>1 DEF Invoke, RescheduleTypeOK
    <2>2. ASSUME NEW leftBehind \in BOOLEAN, ProposeNextRun(p, leftBehind)
          PROVE  RunningIsUnreported'
      BY <2>2 DEF ProposeNextRun, RescheduleTypeOK
    <2>3. CASE BeginClose(p)
      BY <2>3 DEF BeginClose, RescheduleTypeOK
    <2>4. CASE FinishClose(p)
      BY <2>4 DEF FinishClose, RescheduleTypeOK
    <2>5. CASE Stop(p)
      BY <2>5 DEF Stop, RescheduleTypeOK
    <2> QED
      BY <1>3, <2>1, <2>2, <2>3, <2>4, <2>5 DEF ExecutionStep
  <1> QED
    BY <1>1, <1>2, <1>3 DEF RescheduleNext, rescheduleVars

WalkInv == RescheduleTypeOK /\ CountIsTheWalk /\ RunningIsUnreported

LEMMA WalkInvHolds == RescheduleSpec => []WalkInv
  <1>1. RescheduleInit => WalkInv
    BY WalkInitType DEF RescheduleInit, WalkInv, CountIsTheWalk, RunningIsUnreported
  <1>2. WalkInv /\ [RescheduleNext]_rescheduleVars => WalkInv'
    BY WalkNextType, WalkNextCount, WalkNextUnreported DEF WalkInv
  <1> QED
    BY <1>1, <1>2, PTL DEF RescheduleSpec

\* A step in which a pass ends and leaves a run ends that pass's statement.
LEMMA ClosingStep ==
    ASSUME WalkInv, [RescheduleNext]_rescheduleVars, NEW p \in Executions,
           Closes(p)
    PROVE  FinishClose(p)
  <1> USE DEF WalkInv, Closes
  <1>1. node' # node
    OBVIOUS
  <1>2. PICK q \in Executions : ExecutionStep(q)
    BY <1>1 DEF RescheduleNext, TopicStep, WriteNextRun, SetCeiling, Delete,
       rescheduleVars
  <1>3. q = p
    BY <1>2 DEF ExecutionStep, Invoke, ProposeNextRun, BeginClose,
       FinishClose, Stop, RescheduleTypeOK
  <1>4. ~Stop(p)
    BY DEF Stop, RunningIsUnreported
  <1> QED
    BY <1>2, <1>3, <1>4 DEF ExecutionStep, Invoke, ProposeNextRun,
       BeginClose, RescheduleTypeOK

\* However passes overlap, none moves the due time when as many before it, in a
\* row, as the ceiling it read have moved it already: the UPDATE of Close
\* Research Run decides on the count it finds under the lock.
THEOREM CeilingHolds == RescheduleSpec => WalkStaysUnderItsCeiling
  <1>1. WalkInv /\ [RescheduleNext]_rescheduleVars =>
            [\A p \in Executions : Closes(p) /\ Moved => walk < seen[p].cap]_rescheduleVars
    <2> SUFFICES ASSUME WalkInv, [RescheduleNext]_rescheduleVars, NEW p \in Executions, Closes(p),
                        Moved
                 PROVE  walk < seen[p].cap
      OBVIOUS
    <2>1. FinishClose(p)
      BY ClosingStep
    <2>2. walk' # walk
      BY DEF Moved, WalkInv, RescheduleTypeOK
    <2>3. proposes[p] /\ Writes(p)
      <3>1. seen[p].found /\ life = "live"
        BY <2>1, <2>2 DEF FinishClose
      <3>2. walk' # 0
        BY DEF Moved, WalkInv, RescheduleTypeOK
      <3> QED
        BY <2>1, <2>2, <3>1, <3>2 DEF FinishClose
    <2> QED
      BY <2>3 DEF Writes, WalkInv, CountIsTheWalk
  <1> QED
    BY <1>1, WalkInvHolds, PTL DEF RescheduleSpec, WalkStaysUnderItsCeiling

\* A pass no other overtook says agent of its run exactly where it moved the due
\* time: `walk` and the UPDATE then read one count.
THEOREM AttributionHolds == RescheduleSpec => AttributionHoldsUnlessOvertaken
  <1>1. WalkInv /\ [RescheduleNext]_rescheduleVars =>
            [\A p \in Executions : Closes(p) /\ streak = seen[p].streak =>
                                 (report'[p] = "agent" <=> Moved)]_rescheduleVars
    <2> SUFFICES ASSUME WalkInv, [RescheduleNext]_rescheduleVars, NEW p \in Executions, Closes(p),
                        streak = seen[p].streak
                 PROVE  report'[p] = "agent" <=> Moved
      OBVIOUS
    <2>1. FinishClose(p)
      BY ClosingStep
    <2>2. GapWritten(p) <=> Writes(p)
      BY DEF GapWritten, Writes
    <2>3. report \in [Executions -> {"none", "agent", "interval"}] /\ walk \in Nat
      BY DEF WalkInv, RescheduleTypeOK
    <2>4. CASE seen[p].found /\ life = "live"
      <3>1. report'[p] = ScheduledBy(p)
        BY <2>1, <2>3, <2>4 DEF FinishClose
      <3>2. Moved <=> Writes(p)
        BY <2>1, <2>3, <2>4 DEF FinishClose, Moved, Writes
      <3> QED
        BY <2>2, <3>1, <3>2 DEF ScheduledBy
    <2>5. CASE ~(seen[p].found /\ life = "live")
      BY <2>1, <2>3, <2>5 DEF FinishClose, Moved
    <2> QED
      BY <2>4, <2>5
  <1> QED
    BY <1>1, WalkInvHolds, PTL DEF RescheduleSpec, AttributionHoldsUnlessOvertaken
=============================================================================
