---------------------------- MODULE DigestProofs ----------------------------
(***************************************************************************)
(* Proofs about Digest, for every set of passes and of findings.           *)
(*                                                                         *)
(* The argument: what a pass covers was committed when it selected and is  *)
(* older than the stamp its briefing will carry, because the draft takes   *)
(* time; what it saw and did not cover lies before the stamp of a briefing *)
(* stored by then, which had told of it or had been drafted around it.     *)
(***************************************************************************)
EXTENDS Digest, WellFoundedInduction, TLAPS

USE DigestAssumption

\* Nodes from the selection to the INSERT.
Held == {"Apply Call Ceiling", "Draft Digest Prose", "Ledger Model Call", "Store Briefing"}

Drafted == {"Ledger Model Call", "Store Briefing"}

BriefingFollowsItsPass ==
    \A p \in Passes :
        /\ pass[p].at \in Held \cup {"Select Digest Material"} => briefing[p] = NoBriefing
        /\ pass[p].at = "storing" => briefing[p].is = "begun"
        /\ briefing[p].is = "begun" => pass[p].at = "storing"

AskedBeforeCharged == \A p \in Passes : pass[p].at = "Ledger Model Call" => p \in calls

SeenWasThere ==
    \A p \in Passes : seen[p].briefings \subseteq Stored /\ seen[p].findings \subseteq Written

CoveredIsOlder ==
    /\ \A f \in Findings : finding[f].created <= now
    /\ \A p \in Passes : \A f \in pass[p].covered :
        f \in Written /\ (pass[p].at \in Drafted => finding[f].created < now)
    /\ \A p \in Passes : \A f \in briefing[p].covered :
        f \in Written /\ finding[f].created < briefing[p].generated

PeriodOpens ==
    \A p \in Passes : \A f \in pass[p].covered \cup briefing[p].covered :
        \A q \in seen[p].briefings : briefing[q].generated <= finding[f].created

PassedOver(p, f) == \E q \in seen[p].briefings : finding[f].created < briefing[q].generated

SeenIsCoveredOrPassedOver ==
    \A p \in Passes : \A f \in seen[p].findings :
        /\ pass[p].at \in Held => f \in pass[p].covered \/ PassedOver(p, f)
        /\ briefing[p].is # "absent" => f \in briefing[p].covered \/ PassedOver(p, f)

AccountedFor ==
    \A f \in Written : \A p \in Stored : finding[f].created < briefing[p].generated =>
        \E q \in Stored : f \in briefing[q].covered \/ WrittenDuring(f, q)

IInv ==
    /\ TypeOK
    /\ BriefingFollowsItsPass
    /\ AskedBeforeCharged
    /\ SeenWasThere
    /\ CoveredIsOlder
    /\ PeriodOpens
    /\ SeenIsCoveredOrPassedOver
    /\ AccountedFor

\* A bounded set of stamps has a greatest one.
LEMMA GreatestStamp ==
    ASSUME NEW S \in SUBSET Instants, S # {}
    PROVE  \E t \in S : \A s \in S : s <= t
  <1> DEFINE D == {n \in Nat : \E s \in S : n = TimeLimit - s}
  <1>1. PICK s0 \in S : TRUE
    OBVIOUS
  <1>2. TimeLimit - s0 \in D
    BY <1>1 DEF Instants
  <1>3. D \in SUBSET Nat /\ D # {}
    BY <1>2
  <1>4. PICK n \in D : \A d \in D : n <= d
    <2> HIDE DEF D
    <2>1. PICK n \in D : \A d \in D : <<d, n>> \notin OpToRel(<, Nat)
      BY <1>3, NatLessThanWellFounded, WFMin
    <2>2. \A d \in D : ~ (d < n)
      BY <1>3, <2>1 DEF OpToRel
    <2> QED
      BY <1>3, <2>2
  <1>5. PICK t \in S : n = TimeLimit - t
    BY <1>4
  <1>6. \A s \in S : s <= t
    <2> TAKE s \in S
    <2>1. TimeLimit - s \in D
      BY DEF Instants
    <2> QED
      BY <1>4, <1>5, <2>1 DEF Instants
  <1> QED
    BY <1>6

\* Where there is a briefing, the period opens with the newest stamp.
LEMMA SinceIsTheNewest ==
    ASSUME TypeOK, Stored # {}
    PROVE  \E p \in Stored : Since = briefing[p].generated
             /\ \A q \in Stored : briefing[q].generated <= Since
  <1> DEFINE S == {briefing[p].generated : p \in Stored}
  <1>1. S \in SUBSET Instants /\ S # {}
    <2>1. \A p \in Stored : p \in Passes /\ briefing[p].generated \in Instants
      BY DEF TypeOK, Stored
    <2> QED
      BY <2>1
  <1>2. \E t \in S : \A s \in S : s <= t
    <2> HIDE DEF S
    <2> QED
      BY <1>1, GreatestStamp
  <1>3. \E t \in S : \A p \in Stored : briefing[p].generated <= t
    BY <1>2
  <1>4. Since \in S /\ \A p \in Stored : briefing[p].generated <= Since
    BY <1>3 DEF Since
  <1> QED
    BY <1>4
-----------------------------------------------------------------------------
LEMMA ZeroIsAnInstant == 0 \in Instants
  <1>1. TimeLimit \in Nat
    BY DEF DigestAssumption
  <1> QED
    BY <1>1 DEF Instants

LEMMA InitInv == Init => IInv
  <1> SUFFICES ASSUME Init PROVE IInv
    OBVIOUS
  <1> USE DEF Init, NoFinding, NoBriefing, Nothing, Fresh
  <1>1. TypeOK
    <2>1. now \in Instants /\ calls \subseteq Passes /\ ledger \subseteq calls
      BY ZeroIsAnInstant
    <2>2. finding \in [Findings -> [is : RowStates, created : Instants]]
      BY ZeroIsAnInstant DEF RowStates
    <2>3. briefing \in [Passes -> [is : RowStates, generated : Instants,
                                   covered : SUBSET Findings]]
      BY ZeroIsAnInstant DEF RowStates
    <2>4. pass \in [Passes -> [at : Nodes \cup Ended, covered : SUBSET Findings]]
      BY DEF Nodes
    <2>5. seen \in [Passes -> [findings : SUBSET Findings, briefings : SUBSET Passes]]
      OBVIOUS
    <2> QED
      BY <2>1, <2>2, <2>3, <2>4, <2>5 DEF TypeOK
  <1>2. BriefingFollowsItsPass /\ AskedBeforeCharged
    BY DEF BriefingFollowsItsPass, AskedBeforeCharged
  <1>3. /\ \A p \in Passes : /\ pass[p].covered = {} /\ briefing[p].covered = {}
                             /\ seen[p].briefings = {} /\ seen[p].findings = {}
        /\ \A f \in Findings : finding[f].created = 0
        /\ now = 0
    OBVIOUS
  <1> HIDE DEF Init, NoFinding, NoBriefing, Nothing, Fresh
  <1>5. SeenWasThere /\ CoveredIsOlder /\ PeriodOpens
    BY <1>3 DEF SeenWasThere, CoveredIsOlder, PeriodOpens
  <1>4. SeenIsCoveredOrPassedOver /\ AccountedFor
    BY <1>3 DEF SeenIsCoveredOrPassedOver, AccountedFor, Written, Init, NoFinding
  <1> QED
    BY <1>1, <1>2, <1>4, <1>5 DEF IInv
-----------------------------------------------------------------------------
\* A step on which no row is written and nothing selected, and time does not run
\* backwards: a pass goes on with what it covers, or drops it.
LEMMA QuietStep ==
    ASSUME IInv, TypeOK', BriefingFollowsItsPass', AskedBeforeCharged',
           finding' = finding, briefing' = briefing, seen' = seen, now <= now',
           \A p \in Passes :
              /\ pass'[p].covered \subseteq pass[p].covered
              /\ pass'[p].at \in Held =>
                    pass[p].at \in Held /\ pass'[p].covered = pass[p].covered
              /\ pass'[p].at \in Drafted => pass[p].at \in Drafted \/ now < now'
    PROVE  IInv'
  <1> USE DEF IInv
  <1>1. Stored' = Stored /\ Written' = Written
    BY DEF Stored, Written
  <1>2. SeenWasThere'
    BY <1>1 DEF SeenWasThere
  <1>3. now \in Int /\ now' \in Int /\ \A f \in Findings : finding[f].created \in Int
    BY DEF TypeOK, Instants
  <1>4. CoveredIsOlder'
    <2>1. \A f \in Findings : finding'[f].created <= now'
      BY <1>3 DEF CoveredIsOlder
    <2>2. ASSUME NEW p \in Passes, NEW f \in pass'[p].covered
          PROVE  f \in Written' /\ (pass'[p].at \in Drafted => finding'[f].created < now')
      <3>1. f \in pass[p].covered /\ f \in Written /\ f \in Findings
        BY <2>2 DEF CoveredIsOlder, Written
      <3>2. finding[f].created <= now
        BY <3>1 DEF CoveredIsOlder
      <3> QED
        BY <1>1, <1>3, <2>2, <3>1, <3>2 DEF CoveredIsOlder
    <2>3. \A p \in Passes : \A f \in briefing'[p].covered :
              f \in Written' /\ finding'[f].created < briefing'[p].generated
      BY <1>1 DEF CoveredIsOlder
    <2> QED
      BY <2>1, <2>2, <2>3 DEF CoveredIsOlder
  <1>5. PeriodOpens'
    BY DEF PeriodOpens
  <1>6. SeenIsCoveredOrPassedOver'
    BY DEF SeenIsCoveredOrPassedOver, PassedOver
  <1>7. AccountedFor'
    BY <1>1 DEF AccountedFor, WrittenDuring
  <1> QED
    BY <1>2, <1>4, <1>5, <1>6, <1>7

\* What a pass of the chain leaves behind it.
LEMMA ChainStep ==
    ASSUME IInv, NEW p \in Passes,
           \/ ApplyCallCeiling(p) \/ DraftDigestProse(p)
           \/ LedgerModelCall(p) \/ CloseDigestRun(p)
    PROVE  IInv'
  <1>1. finding' = finding /\ briefing' = briefing /\ seen' = seen
    BY DEF ApplyCallCeiling, DraftDigestProse, LedgerModelCall, CloseDigestRun
  <1>2. now \in Int /\ now' \in Instants /\ now <= now'
    <2>1. now \in Instants /\ TimeLimit \in Nat
      BY DEF IInv, TypeOK, DigestAssumption
    <2>2. now' = now \/ (now < TimeLimit /\ now' = now + 1)
      BY DEF ApplyCallCeiling, DraftDigestProse, LedgerModelCall, CloseDigestRun
    <2> QED
      BY <2>1, <2>2 DEF Instants
  <1> DEFINE Rec == [at : Nodes \cup Ended, covered : SUBSET Findings]
             Moves(at) == pass' = [pass EXCEPT ![p] = [pass[p] EXCEPT !.at = at]]
             Drops == pass' = [pass EXCEPT ![p] = [Fresh EXCEPT !.at = "dry"]]
  <1>a. pass \in [Passes -> Rec]
    BY DEF IInv, TypeOK
  <1>b. \/ pass[p].at = "Apply Call Ceiling" /\ Drops
        \/ pass[p].at = "Apply Call Ceiling" /\ Moves("Draft Digest Prose")
        \/ /\ pass[p].at = "Draft Digest Prose" /\ Moves("Ledger Model Call")
           /\ p \in calls' /\ now < now'
        \/ pass[p].at = "Ledger Model Call" /\ Moves("Store Briefing")
        \/ pass[p].at = "Close Digest Run" /\ Moves("closed")
    <2>1. CASE ApplyCallCeiling(p)
      BY <2>1 DEF ApplyCallCeiling, Only
    <2>2. CASE DraftDigestProse(p)
      <3>0. now' = now + 1
        BY <2>2 DEF DraftDigestProse
      <3>1. now < now'
        BY <1>2, <3>0
      <3> QED
        BY <2>2, <3>1 DEF DraftDigestProse, Only
    <2>3. CASE LedgerModelCall(p)
      BY <2>3 DEF LedgerModelCall, Only
    <2>4. CASE CloseDigestRun(p)
      BY <2>4 DEF CloseDigestRun, Only
    <2> QED
      BY <2>1, <2>2, <2>3, <2>4
  <1>c. ASSUME NEW at \in Nodes \cup Ended, Moves(at)
        PROVE  /\ pass' \in [Passes -> Rec]
               /\ pass'[p].at = at /\ pass'[p].covered = pass[p].covered
               /\ \A q \in Passes : q # p => pass'[q] = pass[q]
    BY <1>a, <1>c
  <1>d. ASSUME Drops
        PROVE  /\ pass' \in [Passes -> Rec]
               /\ pass'[p].at = "dry" /\ pass'[p].covered = {}
               /\ \A q \in Passes : q # p => pass'[q] = pass[q]
    BY <1>a, <1>d DEF Fresh, Ended
  <1>e. {"Draft Digest Prose", "Ledger Model Call", "Store Briefing", "closed"}
           \subseteq Nodes \cup Ended
    BY DEF Nodes, Ended
  <1> HIDE DEF Rec, Moves, Drops
  <1>3. /\ pass'[p].covered = {} \/ pass'[p].covered = pass[p].covered
        /\ pass'[p].at \notin {"storing", "Select Digest Material"}
        /\ pass'[p].at \in Held => pass[p].at \in Held /\ pass'[p].covered = pass[p].covered
        /\ pass'[p].at \in Drafted => pass[p].at \in Drafted \/ now < now'
        /\ pass'[p].at = "Ledger Model Call" => p \in calls'
        /\ pass[p].at # "storing"
    BY <1>b, <1>c, <1>d, <1>e DEF Held, Drafted
  <1>4. /\ pass' \in [Passes -> [at : Nodes \cup Ended, covered : SUBSET Findings]]
        /\ \A q \in Passes : q # p => pass'[q] = pass[q]
    BY <1>b, <1>c, <1>d, <1>e DEF Rec
  <1>5. calls \subseteq calls' /\ calls' \subseteq Passes /\ ledger' \subseteq calls'
    BY DEF ApplyCallCeiling, DraftDigestProse, LedgerModelCall, CloseDigestRun,
           IInv, TypeOK, AskedBeforeCharged
  <1>6. TypeOK'
    BY <1>1, <1>2, <1>4, <1>5 DEF IInv, TypeOK
  <1>7. BriefingFollowsItsPass' /\ AskedBeforeCharged'
    <2>1. BriefingFollowsItsPass'
      BY <1>1, <1>3, <1>4 DEF IInv, BriefingFollowsItsPass, Held
    <2>2. AskedBeforeCharged'
      BY <1>3, <1>4, <1>5 DEF IInv, AskedBeforeCharged
    <2> QED
      BY <2>1, <2>2
  <1>8. ASSUME NEW q \in Passes
        PROVE  /\ pass'[q].covered \subseteq pass[q].covered
               /\ pass'[q].at \in Held =>
                     pass[q].at \in Held /\ pass'[q].covered = pass[q].covered
               /\ pass'[q].at \in Drafted => pass[q].at \in Drafted \/ now < now'
    BY <1>3, <1>4 DEF Held
  <1> QED
    BY <1>1, <1>2, <1>6, <1>7, <1>8, QuietStep

LEMMA AdvanceStep == ASSUME IInv, Advance PROVE IInv'
  <1>1. /\ finding' = finding /\ briefing' = briefing /\ pass' = pass
        /\ seen' = seen /\ calls' = calls /\ ledger' = ledger
        /\ now < TimeLimit /\ now' = now + 1
    BY DEF Advance
  <1>2. now \in Instants /\ TimeLimit \in Nat
    BY DEF IInv, TypeOK, DigestAssumption
  <1>3. now' \in Instants /\ now <= now'
    BY <1>1, <1>2 DEF Instants
  <1>4. TypeOK'
    BY <1>1, <1>3 DEF IInv, TypeOK
  <1>5. BriefingFollowsItsPass'
    BY <1>1 DEF IInv, BriefingFollowsItsPass
  <1>6. AskedBeforeCharged'
    BY <1>1 DEF IInv, AskedBeforeCharged
  <1> QED
    BY <1>1, <1>3, <1>4, <1>5, <1>6, QuietStep

\* What was there and is not covered lies before the newest stamp.
LEMMA SelectStep ==
    ASSUME IInv, NEW p \in Passes, SelectDigestMaterial(p) PROVE IInv'
  <1>1. /\ pass[p].at = "Select Digest Material"
        /\ <<now, finding, briefing, calls, ledger>>' = <<now, finding, briefing, calls, ledger>>
        /\ pass'[p].at = "Apply Call Ceiling" /\ pass'[p].covered = Covered
        /\ seen'[p].findings = Written /\ seen'[p].briefings = Stored
        /\ \A q \in Passes : q # p => pass'[q] = pass[q] /\ seen'[q] = seen[q]
    BY DEF SelectDigestMaterial, Only, IInv, TypeOK
  <1>2. /\ Covered \subseteq Written /\ Written \subseteq Findings /\ Stored \subseteq Passes
        /\ Stored' = Stored /\ Written' = Written
    BY <1>1 DEF Covered, Written, Stored
  <1>0. briefing[p] = NoBriefing
    BY <1>1 DEF IInv, BriefingFollowsItsPass
  <1>3. briefing[p] = NoBriefing /\ briefing[p].is = "absent" /\ briefing[p].covered = {}
    BY <1>0 DEF NoBriefing
  <1>4. TypeOK'
    <2>1. pass' \in [Passes -> [at : Nodes \cup Ended, covered : SUBSET Findings]]
      BY ZenonT(40), <1>2 DEF SelectDigestMaterial, Only, IInv, TypeOK, Nodes
    <2>2. seen' \in [Passes -> [findings : SUBSET Findings, briefings : SUBSET Passes]]
      BY <1>2 DEF SelectDigestMaterial, IInv, TypeOK
    <2> QED
      BY <1>1, <2>1, <2>2 DEF IInv, TypeOK
  <1>5. BriefingFollowsItsPass'
    BY <1>1, <1>3 DEF IInv, BriefingFollowsItsPass, NoBriefing
  <1>6. AskedBeforeCharged'
    BY <1>1 DEF IInv, AskedBeforeCharged
  <1>7. SeenWasThere'
    BY <1>1, <1>2 DEF IInv, SeenWasThere
  <1>8. CoveredIsOlder'
    BY <1>1, <1>2 DEF IInv, CoveredIsOlder, Drafted
  <1>9. \A q \in Stored : \A f \in Covered : briefing[q].generated <= finding[f].created
    <2> TAKE q \in Stored
    <2> TAKE f \in Covered
    <2>1. Stored # {} /\ q \in Passes /\ f \in Findings
      BY <1>2
    <2>2. Since <= finding[f].created
      BY <2>1 DEF Covered, NoneStored
    <2>3. briefing[q].generated <= Since /\ Since \in Instants
      <3>1. TypeOK
        BY DEF IInv
      <3>2. PICK r \in Stored : /\ Since = briefing[r].generated
                                /\ \A s \in Stored : briefing[s].generated <= Since
        BY <2>1, <3>1, SinceIsTheNewest
      <3> QED
        BY <1>2, <3>1, <3>2 DEF TypeOK
    <2> QED
      BY <2>1, <2>2, <2>3 DEF IInv, TypeOK, Instants
  <1>10. PeriodOpens'
    <2> SUFFICES ASSUME NEW q \in Passes, NEW f \in pass'[q].covered \cup briefing'[q].covered,
                        NEW r \in seen'[q].briefings
                 PROVE  briefing[r].generated <= finding[f].created
      BY <1>1 DEF PeriodOpens
    <2>1. CASE q = p
      <3>1. r \in Stored /\ f \in Covered
        BY <1>1, <1>3, <2>1
      <3> QED
        BY <1>9, <3>1
    <2>2. CASE q # p
      BY <1>1, <2>2 DEF IInv, PeriodOpens
    <2> QED
      BY <2>1, <2>2
  <1>11. \A f \in Written \ Covered : \E q \in Stored : finding[f].created < briefing[q].generated
    <2> TAKE f \in Written \ Covered
    <2>1. Stored # {} /\ ~ (Since <= finding[f].created)
      BY DEF Covered, NoneStored
    <2>2. TypeOK
      BY DEF IInv
    <2>3. PICK q \in Stored : Since = briefing[q].generated
      BY <2>1, <2>2, SinceIsTheNewest
    <2> QED
      BY <1>2, <2>1, <2>2, <2>3 DEF TypeOK, Instants
  <1>12. SeenIsCoveredOrPassedOver'
    <2>1. ASSUME NEW f \in seen'[p].findings
          PROVE  f \in Covered \/ \E r \in Stored : finding[f].created < briefing[r].generated
      BY <1>1, <1>11
    <2>2. \A q \in Passes : q # p =>
            \A f \in Findings : PassedOver(q, f)' <=> PassedOver(q, f)
      BY <1>1 DEF PassedOver
    <2>3. ASSUME NEW q \in Passes, q # p, NEW f \in seen'[q].findings
          PROVE  /\ pass'[q].at \in Held => f \in pass'[q].covered \/ PassedOver(q, f)'
                 /\ briefing'[q].is # "absent" =>
                       f \in briefing'[q].covered \/ PassedOver(q, f)'
      <3>1. f \in seen[q].findings /\ f \in Findings
        BY <1>1, <1>2, <2>3 DEF IInv, SeenWasThere
      <3> QED
        BY <1>1, <2>2, <2>3, <3>1 DEF IInv, SeenIsCoveredOrPassedOver
    <2>4. ASSUME NEW f \in seen'[p].findings
          PROVE  /\ pass'[p].at \in Held => f \in pass'[p].covered \/ PassedOver(p, f)'
                 /\ briefing'[p].is # "absent" =>
                       f \in briefing'[p].covered \/ PassedOver(p, f)'
      BY <1>1, <1>3, <2>1 DEF PassedOver
    <2> QED
      BY <2>3, <2>4 DEF SeenIsCoveredOrPassedOver
  <1>13. AccountedFor'
    <2>1. p \notin Stored
      BY <1>3 DEF Stored, NoBriefing
    <2>2. \A q \in Stored : \A f \in Findings : WrittenDuring(f, q) => WrittenDuring(f, q)'
      BY <1>1, <1>2, <2>1 DEF WrittenDuring
    <2> QED
      BY <1>1, <1>2, <2>2 DEF IInv, AccountedFor
  <1> QED
    BY <1>4, <1>5, <1>6, <1>7, <1>8, <1>10, <1>12, <1>13 DEF IInv

\* The INSERT is dated by its beginning and covers what was selected earlier.
LEMMA BeginStoreStep ==
    ASSUME IInv, NEW p \in Passes, BeginStoreBriefing(p) PROVE IInv'
  <1>1. /\ pass[p].at = "Store Briefing"
        /\ now' = now /\ finding' = finding /\ seen' = seen
        /\ calls' = calls /\ ledger' = ledger
        /\ pass'[p].at = "storing" /\ pass'[p].covered = pass[p].covered
        /\ briefing'[p].is = "begun" /\ briefing'[p].generated = now
        /\ briefing'[p].covered = pass[p].covered
        /\ \A q \in Passes : q # p => pass'[q] = pass[q] /\ briefing'[q] = briefing[q]
    BY DEF BeginStoreBriefing, Only, IInv, TypeOK
  <1>0. briefing[p] = NoBriefing
    BY <1>1 DEF IInv, BriefingFollowsItsPass, Held
  <1>2. briefing[p].is = "absent" /\ briefing[p].covered = {}
    BY <1>0 DEF NoBriefing
  <1>3. p \notin Stored /\ Stored' = Stored /\ Written' = Written
    BY <1>1, <1>2 DEF Stored, Written
  <1>4. TypeOK'
    <2>1. pass' \in [Passes -> [at : Nodes \cup Ended, covered : SUBSET Findings]]
      BY DEF BeginStoreBriefing, Only, IInv, TypeOK, Nodes
    <2>2. briefing' \in [Passes -> [is : RowStates, generated : Instants,
                                    covered : SUBSET Findings]]
      BY DEF BeginStoreBriefing, IInv, TypeOK, RowStates
    <2> QED
      BY <1>1, <2>1, <2>2 DEF IInv, TypeOK
  <1>5. BriefingFollowsItsPass'
    BY <1>1, <1>2 DEF IInv, BriefingFollowsItsPass, Held
  <1>6. AskedBeforeCharged'
    BY <1>1 DEF IInv, AskedBeforeCharged
  <1>7. SeenWasThere'
    BY <1>1, <1>3 DEF IInv, SeenWasThere
  <1>8. CoveredIsOlder'
    <2>1. ASSUME NEW q \in Passes, NEW f \in pass'[q].covered
          PROVE  f \in Written' /\ (pass'[q].at \in Drafted => finding'[f].created < now')
      BY <1>1, <1>3, <2>1 DEF IInv, CoveredIsOlder, Drafted
    <2>2. ASSUME NEW q \in Passes, NEW f \in briefing'[q].covered
          PROVE  f \in Written' /\ finding'[f].created < briefing'[q].generated
      BY <1>1, <1>3, <2>2 DEF IInv, CoveredIsOlder, Drafted
    <2> QED
      BY <1>1, <2>1, <2>2 DEF IInv, CoveredIsOlder
  <1>9. \A q \in Passes : seen[q].briefings \subseteq Passes \ {p}
    BY <1>3 DEF IInv, SeenWasThere, Stored
  <1>10. PeriodOpens'
    <2> SUFFICES ASSUME NEW q \in Passes, NEW f \in pass'[q].covered \cup briefing'[q].covered,
                        NEW r \in seen[q].briefings
                 PROVE  briefing[r].generated <= finding[f].created
      BY <1>1, <1>9 DEF PeriodOpens
    <2>1. f \in pass[q].covered \cup briefing[q].covered
      BY <1>1
    <2> QED
      BY <2>1 DEF IInv, PeriodOpens
  <1>11. \A q \in Passes : \A f \in Findings : PassedOver(q, f) => PassedOver(q, f)'
    BY <1>1, <1>9 DEF PassedOver
  <1>12. SeenIsCoveredOrPassedOver'
    <2> SUFFICES ASSUME NEW q \in Passes, NEW f \in seen[q].findings
                 PROVE  /\ pass'[q].at \in Held => f \in pass'[q].covered \/ PassedOver(q, f)'
                        /\ briefing'[q].is # "absent" =>
                              f \in briefing'[q].covered \/ PassedOver(q, f)'
      BY <1>1 DEF SeenIsCoveredOrPassedOver
    <2>1. f \in Findings
      BY DEF IInv, TypeOK
    <2>2. CASE q = p
      BY <1>1, <1>11, <2>1, <2>2 DEF IInv, SeenIsCoveredOrPassedOver, Held
    <2>3. CASE q # p
      BY <1>1, <1>11, <2>1, <2>3 DEF IInv, SeenIsCoveredOrPassedOver
    <2> QED
      BY <2>2, <2>3
  <1>13. AccountedFor'
    <2>1. \A q \in Stored : q # p /\ briefing'[q] = briefing[q]
      BY <1>1, <1>3 DEF Stored
    <2>2. \A q \in Stored : \A f \in Findings : WrittenDuring(f, q) => WrittenDuring(f, q)'
      BY <1>1, <2>1 DEF WrittenDuring
    <2> QED
      BY <1>1, <1>3, <2>1, <2>2 DEF IInv, AccountedFor, Written
  <1> QED
    BY <1>4, <1>5, <1>6, <1>7, <1>8, <1>10, <1>12, <1>13 DEF IInv

\* A briefing that commits tells of what it covers; whatever else it saw lay before
\* a stamp stored by then.
LEMMA StoreStep ==
    ASSUME IInv, NEW p \in Passes, StoreBriefing(p) PROVE IInv'
  <1>1. /\ pass[p].at = "storing"
        /\ now' = now /\ finding' = finding /\ seen' = seen
        /\ calls' = calls /\ ledger' = ledger
        /\ pass'[p].at = "Close Digest Run" /\ pass'[p].covered = pass[p].covered
        /\ briefing'[p].is = "stored" /\ briefing'[p].generated = briefing[p].generated
        /\ briefing'[p].covered = briefing[p].covered
        /\ \A q \in Passes : q # p => pass'[q] = pass[q] /\ briefing'[q] = briefing[q]
    BY ZenonT(40) DEF StoreBriefing, Only, IInv, TypeOK
  <1>2. briefing[p].is = "begun"
    BY <1>1 DEF IInv, BriefingFollowsItsPass
  <1>3. p \notin Stored /\ Stored' = Stored \cup {p} /\ Written' = Written
    BY <1>1, <1>2 DEF Stored, Written
  <1>4. TypeOK'
    <2>1. pass' \in [Passes -> [at : Nodes \cup Ended, covered : SUBSET Findings]]
      BY DEF StoreBriefing, Only, IInv, TypeOK, Nodes
    <2>2. briefing' \in [Passes -> [is : RowStates, generated : Instants,
                                    covered : SUBSET Findings]]
      <3>1. briefing[p] \in [is : RowStates, generated : Instants, covered : SUBSET Findings]
        BY DEF IInv, TypeOK
      <3>2. [briefing[p] EXCEPT !.is = "stored"]
              \in [is : RowStates, generated : Instants, covered : SUBSET Findings]
        BY <3>1 DEF RowStates
      <3>3. briefing' = [briefing EXCEPT ![p] = [briefing[p] EXCEPT !.is = "stored"]]
        BY DEF StoreBriefing
      <3> QED
        BY <3>2, <3>3 DEF IInv, TypeOK
    <2> QED
      BY <1>1, <2>1, <2>2 DEF IInv, TypeOK
  <1>5. BriefingFollowsItsPass'
    BY <1>1, <1>2 DEF IInv, BriefingFollowsItsPass, Held
  <1>6. AskedBeforeCharged'
    BY <1>1 DEF IInv, AskedBeforeCharged
  <1>7. SeenWasThere'
    BY <1>1, <1>3 DEF IInv, SeenWasThere
  <1>8. \A q \in Passes : /\ briefing'[q].generated = briefing[q].generated
                          /\ briefing'[q].covered = briefing[q].covered
                          /\ pass'[q].covered = pass[q].covered
    BY <1>1
  <1>9. CoveredIsOlder'
    BY <1>1, <1>3, <1>8 DEF IInv, CoveredIsOlder, Drafted
  <1>10. PeriodOpens'
    BY <1>1, <1>8 DEF IInv, PeriodOpens, TypeOK
  <1>11. \A q \in Passes : \A f \in Findings : PassedOver(q, f) => PassedOver(q, f)'
    BY <1>1, <1>8 DEF PassedOver, IInv, TypeOK
  <1>12. SeenIsCoveredOrPassedOver'
    <2> SUFFICES ASSUME NEW q \in Passes, NEW f \in seen[q].findings
                 PROVE  /\ pass'[q].at \in Held => f \in pass'[q].covered \/ PassedOver(q, f)'
                        /\ briefing'[q].is # "absent" =>
                              f \in briefing'[q].covered \/ PassedOver(q, f)'
      BY <1>1 DEF SeenIsCoveredOrPassedOver
    <2>1. f \in Findings
      BY DEF IInv, TypeOK
    <2>2. CASE q = p
      BY <1>1, <1>2, <1>11, <2>1, <2>2 DEF IInv, SeenIsCoveredOrPassedOver, Held
    <2>3. CASE q # p
      BY <1>1, <1>11, <2>1, <2>3 DEF IInv, SeenIsCoveredOrPassedOver
    <2> QED
      BY <2>2, <2>3
  <1>13. \A q \in Stored : \A f \in Findings : WrittenDuring(f, q) => WrittenDuring(f, q)'
    BY <1>1, <1>8 DEF WrittenDuring, Stored
  <1>14. AccountedFor'
    <2> SUFFICES ASSUME NEW f \in Written, NEW r \in Stored \cup {p},
                        finding[f].created < briefing[r].generated
                 PROVE  \E q \in Stored \cup {p} : f \in briefing'[q].covered \/ WrittenDuring(f, q)'
      BY <1>1, <1>3, <1>8 DEF AccountedFor, Stored
    <2>0. f \in Findings
      BY DEF Written
    <2>1. ASSUME NEW s \in Stored, finding[f].created < briefing[s].generated
          PROVE  \E q \in Stored \cup {p} : f \in briefing'[q].covered \/ WrittenDuring(f, q)'
      <3>1. PICK q \in Stored : f \in briefing[q].covered \/ WrittenDuring(f, q)
        BY <2>1 DEF IInv, AccountedFor
      <3> QED
        BY <1>8, <1>13, <2>0, <3>1 DEF Stored
    <2>2. CASE r \in Stored
      BY <2>1, <2>2
    <2>3. CASE r = p /\ f \notin seen[p].findings
      BY <1>1, <2>3 DEF WrittenDuring
    <2>4. CASE r = p /\ f \in seen[p].findings
      <3>1. f \in briefing[p].covered \/ PassedOver(p, f)
        BY <1>2, <2>4 DEF IInv, SeenIsCoveredOrPassedOver
      <3>2. CASE f \in briefing[p].covered
        BY <1>8, <3>2
      <3>3. CASE PassedOver(p, f)
        BY <2>1, <3>3 DEF PassedOver, IInv, SeenWasThere
      <3> QED
        BY <3>1, <3>2, <3>3
    <2> QED
      BY <2>2, <2>3, <2>4
  <1> QED
    BY <1>4, <1>5, <1>6, <1>7, <1>9, <1>10, <1>12, <1>14 DEF IInv

\* A pass that dies leaves its stored briefing, and no other trace.
LEMMA StopStep == ASSUME IInv, NEW p \in Passes, PassStops(p) PROVE IInv'
  <1>1. /\ pass[p].at \in Nodes
        /\ now' = now /\ finding' = finding /\ seen' = seen
        /\ calls' = calls /\ ledger' = ledger
    BY DEF PassStops
  <1>2. /\ pass'[p].at = "stopped" /\ pass'[p].covered \subseteq pass[p].covered
        /\ pass' \in [Passes -> [at : Nodes \cup Ended, covered : SUBSET Findings]]
        /\ \A q \in Passes : q # p => pass'[q] = pass[q]
    <2>1. pass \in [Passes -> [at : Nodes \cup Ended, covered : SUBSET Findings]]
      BY DEF IInv, TypeOK
    <2>2. CASE briefing[p].is = "stored"
      <3>1. pass' = [pass EXCEPT ![p] = [pass[p] EXCEPT !.at = "stopped"]]
        BY <2>2 DEF PassStops, Only
      <3> QED
        BY <2>1, <3>1 DEF Ended
    <2>3. CASE briefing[p].is # "stored"
      <3>1. pass' = [pass EXCEPT ![p] = [Fresh EXCEPT !.at = "stopped"]]
        BY <2>3 DEF PassStops, Only
      <3> QED
        BY <2>1, <3>1 DEF Ended, Fresh
    <2> QED
      BY <2>2, <2>3
  <1>3. /\ briefing'[p] = IF briefing[p].is = "begun" THEN NoBriefing ELSE briefing[p]
        /\ \A q \in Passes : q # p => briefing'[q] = briefing[q]
    BY DEF PassStops, IInv, TypeOK
  <1>4. NoBriefing.is = "absent" /\ NoBriefing.covered = {}
        /\ NoBriefing \in [is : RowStates, generated : Instants, covered : SUBSET Findings]
    BY ZeroIsAnInstant DEF NoBriefing, RowStates
  <1>5. \A q \in Passes :
            /\ briefing'[q].is = "stored" <=> briefing[q].is = "stored"
            /\ briefing[q].is = "stored" => briefing'[q] = briefing[q]
            /\ briefing'[q].is # "absent" => briefing'[q] = briefing[q]
            /\ briefing'[q] = briefing[q] \/ briefing'[q].covered = {}
    BY <1>3, <1>4
  <1>6. Stored' = Stored /\ Written' = Written
    BY <1>1, <1>5 DEF Stored, Written
  <1>7. TypeOK'
    <2>1. briefing' \in [Passes -> [is : RowStates, generated : Instants,
                                    covered : SUBSET Findings]]
      BY <1>4 DEF PassStops, IInv, TypeOK
    <2> QED
      BY <1>1, <1>2, <2>1 DEF IInv, TypeOK
  <1>8. BriefingFollowsItsPass'
    BY <1>2, <1>3, <1>4 DEF IInv, BriefingFollowsItsPass, Held
  <1>9. AskedBeforeCharged'
    BY <1>1, <1>2 DEF IInv, AskedBeforeCharged
  <1>10. SeenWasThere'
    BY <1>1, <1>6 DEF IInv, SeenWasThere
  <1>11. CoveredIsOlder'
    <2>1. ASSUME NEW q \in Passes, NEW f \in pass'[q].covered
          PROVE  f \in Written' /\ (pass'[q].at \in Drafted => finding'[f].created < now')
      BY <1>1, <1>2, <1>6, <2>1 DEF IInv, CoveredIsOlder, Drafted
    <2>2. ASSUME NEW q \in Passes, NEW f \in briefing'[q].covered
          PROVE  f \in Written' /\ finding'[f].created < briefing'[q].generated
      BY <1>1, <1>5, <1>6, <2>2 DEF IInv, CoveredIsOlder
    <2> QED
      BY <1>1, <2>1, <2>2 DEF IInv, CoveredIsOlder
  <1>12. \A q \in Passes : \A r \in seen[q].briefings : briefing'[r] = briefing[r]
    BY <1>5 DEF IInv, SeenWasThere, Stored
  <1>13. PeriodOpens'
    <2> SUFFICES ASSUME NEW q \in Passes, NEW f \in pass'[q].covered \cup briefing'[q].covered,
                        NEW r \in seen[q].briefings
                 PROVE  briefing[r].generated <= finding[f].created
      BY <1>1, <1>12 DEF PeriodOpens
    <2>1. f \in pass[q].covered \cup briefing[q].covered
      BY <1>2, <1>5
    <2> QED
      BY <2>1 DEF IInv, PeriodOpens
  <1>14. \A q \in Passes : \A f \in Findings : PassedOver(q, f) => PassedOver(q, f)'
    BY <1>1, <1>12 DEF PassedOver
  <1>15. SeenIsCoveredOrPassedOver'
    <2> SUFFICES ASSUME NEW q \in Passes, NEW f \in seen[q].findings
                 PROVE  /\ pass'[q].at \in Held => f \in pass'[q].covered \/ PassedOver(q, f)'
                        /\ briefing'[q].is # "absent" =>
                              f \in briefing'[q].covered \/ PassedOver(q, f)'
      BY <1>1 DEF SeenIsCoveredOrPassedOver
    <2>1. f \in Findings
      BY DEF IInv, TypeOK
    <2>2. pass'[q].at \in Held => pass'[q] = pass[q]
      BY <1>2 DEF Held
    <2> QED
      BY <1>5, <1>14, <2>1, <2>2 DEF IInv, SeenIsCoveredOrPassedOver
  <1>16. AccountedFor'
    <2>1. \A q \in Stored : briefing'[q] = briefing[q]
      BY <1>5 DEF Stored
    <2>2. \A q \in Stored : \A f \in Findings : WrittenDuring(f, q) => WrittenDuring(f, q)'
      BY <1>1, <2>1 DEF WrittenDuring
    <2> QED
      BY <1>1, <1>6, <2>1, <2>2 DEF IInv, AccountedFor, Written
  <1> QED
    BY <1>7, <1>8, <1>9, <1>10, <1>11, <1>13, <1>15, <1>16 DEF IInv

\* A finding is dated by the beginning of its INSERT, and seen by nobody before it
\* commits.
LEMMA FindingStep ==
    ASSUME IInv, NEW g \in Findings, BeginFinding(g) \/ StoreFinding(g) PROVE IInv'
  <1>1. /\ now' = now /\ briefing' = briefing /\ pass' = pass /\ seen' = seen
        /\ calls' = calls /\ ledger' = ledger
        /\ g \notin Written
        /\ \A f \in Findings : f # g => finding'[f] = finding[f]
        /\ finding'[g].created \in {now, finding[g].created}
        /\ finding' \in [Findings -> [is : RowStates, created : Instants]]
    <2>1. CASE BeginFinding(g)
      <3>1. /\ finding' = [finding EXCEPT ![g] = [@ EXCEPT !.is = "begun", !.created = now]]
            /\ finding[g].is = "absent"
        BY <2>1 DEF BeginFinding
      <3>2. /\ finding \in [Findings -> [is : RowStates, created : Instants]]
            /\ now \in Instants
        BY DEF IInv, TypeOK
      <3>3. /\ [finding[g] EXCEPT !.is = "begun", !.created = now]
                 \in [is : RowStates, created : Instants]
            /\ [finding[g] EXCEPT !.is = "begun", !.created = now].created = now
        BY <3>2 DEF RowStates
      <3>4. /\ finding' \in [Findings -> [is : RowStates, created : Instants]]
            /\ finding'[g].created = now
            /\ \A f \in Findings : f # g => finding'[f] = finding[f]
        BY <3>1, <3>2, <3>3
      <3>5. g \notin Written
        BY <3>1 DEF Written
      <3> QED
        BY <2>1, <3>4, <3>5 DEF BeginFinding
    <2>2. CASE StoreFinding(g)
      <3>1. finding' = [finding EXCEPT ![g] = [finding[g] EXCEPT !.is = "stored"]]
        BY <2>2 DEF StoreFinding
      <3> QED
        BY <2>2, <3>1 DEF StoreFinding, IInv, TypeOK, RowStates, Written
    <2> QED
      BY <2>1, <2>2
  <1>2. TypeOK'
    BY <1>1 DEF IInv, TypeOK
  <1>3. Stored' = Stored /\ Written \subseteq Written' /\ Written' \subseteq Written \cup {g}
    BY <1>1 DEF Stored, Written
  <1>4. BriefingFollowsItsPass'
    BY <1>1 DEF IInv, BriefingFollowsItsPass
  <1>5. AskedBeforeCharged'
    BY <1>1 DEF IInv, AskedBeforeCharged
  <1>6. SeenWasThere'
    BY <1>1, <1>3 DEF IInv, SeenWasThere
  <1>7. \A f \in Written : f \in Findings /\ finding'[f] = finding[f]
    BY <1>1 DEF Written
  <1>8. CoveredIsOlder'
    <2>1. \A f \in Findings : finding'[f].created <= now'
      <3>1. finding[g].created <= now /\ now <= now
        BY DEF IInv, TypeOK, CoveredIsOlder, Instants
      <3> QED
        BY <1>1, <3>1 DEF IInv, CoveredIsOlder
    <2> QED
      BY <1>1, <1>3, <1>7, <2>1 DEF IInv, CoveredIsOlder
  <1>9. PeriodOpens'
    BY <1>1, <1>7 DEF IInv, PeriodOpens, CoveredIsOlder
  <1>10. \A q \in Passes : \A f \in Written : PassedOver(q, f) => PassedOver(q, f)'
    BY <1>1, <1>7 DEF PassedOver
  <1>11. SeenIsCoveredOrPassedOver'
    <2> SUFFICES ASSUME NEW q \in Passes, NEW f \in seen[q].findings
                 PROVE  /\ pass[q].at \in Held => f \in pass[q].covered \/ PassedOver(q, f)'
                        /\ briefing[q].is # "absent" =>
                              f \in briefing[q].covered \/ PassedOver(q, f)'
      BY <1>1 DEF SeenIsCoveredOrPassedOver
    <2>1. f \in Written
      BY DEF IInv, SeenWasThere
    <2> QED
      BY <1>10, <2>1 DEF IInv, SeenIsCoveredOrPassedOver
  <1>12. AccountedFor'
    <2> SUFFICES ASSUME NEW f \in Written', NEW p \in Stored,
                        finding'[f].created < briefing[p].generated
                 PROVE  \E q \in Stored : f \in briefing[q].covered \/ WrittenDuring(f, q)'
      BY <1>1, <1>3 DEF AccountedFor
    <2>1. CASE f = g
      <3>1. g \notin seen[p].findings
        BY <1>1 DEF IInv, SeenWasThere, Stored
      <3> QED
        BY <1>1, <2>1, <3>1 DEF WrittenDuring
    <2>2. CASE f # g
      <3>1. f \in Written /\ finding'[f] = finding[f]
        BY <1>3, <1>7, <2>2
      <3>2. PICK q \in Stored : f \in briefing[q].covered \/ WrittenDuring(f, q)
        BY <3>1 DEF IInv, AccountedFor
      <3> QED
        BY <1>1, <3>1, <3>2 DEF WrittenDuring
    <2> QED
      BY <2>1, <2>2
  <1> QED
    BY <1>2, <1>4, <1>5, <1>6, <1>8, <1>9, <1>11, <1>12 DEF IInv
-----------------------------------------------------------------------------
LEMMA NextInv == IInv /\ [Next]_vars => IInv'
  <1> SUFFICES ASSUME IInv, [Next]_vars PROVE IInv'
    OBVIOUS
  <1>1. CASE UNCHANGED vars
    <2>1. TypeOK' /\ BriefingFollowsItsPass' /\ AskedBeforeCharged'
      BY <1>1 DEF vars, IInv, TypeOK, BriefingFollowsItsPass, AskedBeforeCharged
    <2>2. now \in Int
      BY DEF IInv, TypeOK, Instants
    <2> QED
      BY <1>1, <2>1, <2>2, QuietStep DEF vars
  <1>2. ASSUME NEW p \in Passes, PassStep(p) \/ PassStops(p)
        PROVE  IInv'
    BY <1>2, SelectStep, ChainStep, BeginStoreStep, StoreStep, StopStep DEF PassStep
  <1>3. ASSUME NEW f \in Findings, BeginFinding(f) \/ StoreFinding(f)
        PROVE  IInv'
    BY <1>3, FindingStep
  <1>4. CASE Advance
    BY <1>4, AdvanceStep
  <1> QED
    BY <1>1, <1>2, <1>3, <1>4 DEF Next

\* Every variable keeps its type, and no pass is charged for a call it did not make.
THEOREM DigestTypes == Spec => []TypeOK
  <1>1. IInv => TypeOK
    BY DEF IInv
  <1> QED
    BY InitInv, NextInv, <1>1, PTL DEF Spec

\* The period moves past a stored finding that no briefing tells of only where it was
\* being written while a briefing was being drafted.
THEOREM OnlyADraftMisses == Spec => []OnlyADraftMissesAFinding
  <1>1. IInv => OnlyADraftMissesAFinding
    BY DEF IInv, AccountedFor, OnlyADraftMissesAFinding, Missed
  <1> QED
    BY InitInv, NextInv, <1>1, PTL DEF Spec

\* Two briefings tell of one finding only where neither was stored when the other
\* pass selected.
THEOREM ToldTwiceByAnOverlap == Spec => []ToldTwiceOnlyByAnOverlap
  <1>1. IInv => ToldTwiceOnlyByAnOverlap
    <2> SUFFICES ASSUME IInv, NEW p \in Stored, NEW q \in Stored,
                        NEW f \in briefing[p].covered \cap briefing[q].covered,
                        p \in seen[q].briefings
                 PROVE  FALSE
      BY DEF ToldTwiceOnlyByAnOverlap
    <2>1. p \in Passes /\ q \in Passes /\ f \in Findings
      BY DEF Stored, IInv, TypeOK
    <2>2. finding[f].created < briefing[p].generated
      BY <2>1 DEF IInv, CoveredIsOlder
    <2>3. briefing[p].generated <= finding[f].created
      BY <2>1 DEF IInv, PeriodOpens
    <2> QED
      BY <2>1, <2>2, <2>3 DEF IInv, TypeOK, Instants
  <1> QED
    BY InitInv, NextInv, <1>1, PTL DEF Spec
=============================================================================
