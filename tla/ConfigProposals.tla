-------------------------- MODULE ConfigProposals --------------------------
(***************************************************************************)
(* The second gate: proposals for the parser config of one source, ruled   *)
(* on from a terminal (scripts/approve.ts, one statement each) and through *)
(* the API (approveSourceConfig: a read, then one transaction of three     *)
(* statements under READ COMMITTED).  The source itself may be patched by  *)
(* hand past all of it.                                                    *)
(*                                                                         *)
(* A transaction's writes are seen at its commit and stamped with the time *)
(* of its BEGIN; until it ends it holds the lock of the proposal's row     *)
(* from its first statement and of the source's from its second.  A        *)
(* proposal stands for its two documents.                                  *)
(***************************************************************************)
EXTENDS Naturals

CONSTANTS
    Proposals,
    Rulings,            \* calls of the API
    Given,              \* what the source was created with
    Patched,            \* what a person writes onto it by hand
    TerminalLimit       \* rulings from a terminal

ASSUME ProposalAssumption ==
    /\ {Given, Patched} \cap Proposals = {}
    /\ TerminalLimit \in Nat

VARIABLES
    proposal,           \* rows of source_config_proposals
    inForce,            \* the two documents on the source
    ruling,             \* what each call of the API is at
    overlap,            \* history: the calls that were ever under way together
    clock,              \* counts the instants that were stamped
    terminal            \* rulings from a terminal so far

rulingVars == <<proposal, inForce, ruling, overlap, clock, terminal>>

None == 0       \* no instant is 0, and no proposal

Stamp == Nat

Absent == [status |-> "absent", approvedAt |-> None, appliedAt |-> None]

Statuses == {"absent", "pending", "approved", "skipped"}

Idle == [at |-> "idle", of |-> None, began |-> None]

\* Under way: admitted on what was read, in a transaction, holding one lock, both.
UnderWay == {"admitted", "begun", "approved", "written"}

RulingInit ==
    /\ proposal = [p \in Proposals |-> Absent]
    /\ inForce = Given
    /\ ruling = [r \in Rulings |-> Idle]
    /\ overlap = {}
    /\ clock = 1
    /\ terminal = 0
-----------------------------------------------------------------------------
\* coalesce(column, now())
KeptStamp(column, instant) == IF column = None THEN instant ELSE column

RowLocked(p) == \E r \in Rulings : ruling[r].at \in {"approved", "written"} /\ ruling[r].of = p

SourceLocked == \E r \in Rulings : ruling[r].at = "written"

\* The row proposalToPendingRow builds is inserted.
Propose(p) ==
    /\ proposal[p] = Absent
    /\ proposal' = [proposal EXCEPT ![p].status = "pending"]
    /\ UNCHANGED <<inForce, ruling, overlap, clock, terminal>>

\* Mutant: an application is refused as little as a ratification is.
AdmitAny(r, p) ==
    /\ ruling[r] = Idle
    /\ proposal[p] # Absent
    /\ ruling' = [ruling EXCEPT ![r] = [at |-> "admitted", of |-> p, began |-> None]]
    /\ overlap' = overlap \cup
            {s \in SUBSET Rulings : \E q \in Rulings \ {r} :
                ruling[q].at \in UnderWay /\ s = {q, r}}
    /\ UNCHANGED <<proposal, inForce, clock, terminal>>

\* The call reads the row and goes on unless it is stamped applied; its status
\* is not asked.  A refused call changes nothing.
Admit(r, p) ==
    /\ ruling[r] = Idle
    /\ proposal[p] # Absent
    /\ proposal[p].appliedAt = None
    /\ ruling' = [ruling EXCEPT ![r] = [at |-> "admitted", of |-> p, began |-> None]]
    /\ overlap' = overlap \cup
            {s \in SUBSET Rulings : \E q \in Rulings \ {r} :
                ruling[q].at \in UnderWay /\ s = {q, r}}
    /\ UNCHANGED <<proposal, inForce, clock, terminal>>

Begin(r) ==
    /\ ruling[r].at = "admitted"
    /\ ruling' = [ruling EXCEPT ![r].at = "begun", ![r].began = clock]
    /\ clock' = clock + 1
    /\ UNCHANGED <<proposal, inForce, overlap, terminal>>

\* UPDATE source_config_proposals, waiting for the row.
ApproveInTransaction(r) ==
    /\ ruling[r].at = "begun"
    /\ ~ RowLocked(ruling[r].of)
    /\ ruling' = [ruling EXCEPT ![r].at = "approved"]
    /\ UNCHANGED <<proposal, inForce, overlap, clock, terminal>>

\* Mutant: the source is written through a client of its own, and at once.
WriteSourceOutside(r) ==
    /\ ruling[r].at = "approved"
    /\ ~ SourceLocked
    /\ ruling' = [ruling EXCEPT ![r].at = "written"]
    /\ inForce' = ruling[r].of
    /\ UNCHANGED <<proposal, overlap, clock, terminal>>

\* UPDATE sources from the row just approved, waiting for the source's row.
WriteSource(r) ==
    /\ ruling[r].at = "approved"
    /\ ~ SourceLocked
    /\ ruling' = [ruling EXCEPT ![r].at = "written"]
    /\ UNCHANGED <<proposal, inForce, overlap, clock, terminal>>

\* Mutant: an application is dated by its approval.
RuledWhenApproved(row, instant) ==
    [status     |-> "approved",
     approvedAt |-> KeptStamp(row.approvedAt, instant),
     appliedAt  |-> KeptStamp(row.appliedAt, KeptStamp(row.approvedAt, instant))]

\* The row as the transaction leaves it.
Ruled(row, instant) ==
    [status     |-> "approved",
     approvedAt |-> KeptStamp(row.approvedAt, instant),
     appliedAt  |-> KeptStamp(row.appliedAt, instant)]

\* The third statement, on a row the transaction holds already, and COMMIT.
StampAndCommit(r) ==
    LET p == ruling[r].of
    IN  /\ ruling[r].at = "written"
        /\ ruling' = [ruling EXCEPT ![r].at = "applied"]
        /\ proposal' = [proposal EXCEPT ![p] = Ruled(@, ruling[r].began)]
        /\ inForce' = p
        /\ UNCHANGED <<overlap, clock, terminal>>

\* The call fails, before its transaction or inside it: nothing is left of it.
RollBack(r) ==
    /\ ruling[r].at \in UnderWay
    /\ ruling' = [ruling EXCEPT ![r].at = "failed"]
    /\ UNCHANGED <<proposal, inForce, overlap, clock, terminal>>

\* approve.ts rules by id, asks nothing of the row and applies nothing.
ApproveProposalById(p) ==
    /\ terminal < TerminalLimit
    /\ proposal[p] # Absent /\ ~ RowLocked(p)
    /\ proposal' = [proposal EXCEPT
            ![p].status = "approved", ![p].approvedAt = KeptStamp(@, clock)]
    /\ clock' = clock + 1
    /\ terminal' = terminal + 1
    /\ UNCHANGED <<inForce, ruling, overlap>>

RejectProposalById(p) ==
    /\ terminal < TerminalLimit
    /\ proposal[p] # Absent /\ ~ RowLocked(p)
    /\ proposal' = [proposal EXCEPT ![p].status = "skipped"]
    /\ terminal' = terminal + 1
    /\ UNCHANGED <<inForce, ruling, overlap, clock>>

\* PATCH /sources/:id replaces the documents whole and leaves no stamp.
PatchSource ==
    /\ ~ SourceLocked
    /\ inForce' = Patched
    /\ UNCHANGED <<proposal, ruling, overlap, clock, terminal>>

RulingStep(r) ==
    \/ \E p \in Proposals : Admit(r, p)
    \/ Begin(r) \/ ApproveInTransaction(r) \/ WriteSource(r) \/ StampAndCommit(r)

RulingNext ==
    \/ \E p \in Proposals : Propose(p) \/ ApproveProposalById(p) \/ RejectProposalById(p)
    \/ \E r \in Rulings : RulingStep(r) \/ RollBack(r)
    \/ PatchSource

RulingSpec == RulingInit /\ [][RulingNext]_rulingVars
-----------------------------------------------------------------------------
\* Every variable holds values of its kind, and source_config_proposals_approval_check
\* holds of every row.
RulingTypeOK ==
    /\ proposal \in [Proposals -> [status : Statuses, approvedAt : Stamp, appliedAt : Stamp]]
    /\ \A p \in Proposals : proposal[p].appliedAt # None => proposal[p].approvedAt # None
    /\ inForce \in Proposals \cup {Given, Patched}
    /\ ruling \in [Rulings -> [at    : {"idle", "applied", "failed"} \cup UnderWay,
                               of    : Proposals \cup {None},
                               began : Stamp]]
    /\ overlap \subseteq SUBSET Rulings
    /\ clock \in Nat \ {0}
    /\ terminal \in 0..TerminalLimit

\* What a source is read by, where no person wrote it by hand, is accounted for:
\* the proposal it came from is stamped approved and applied, whichever of the
\* calls that raced for it died and wherever.
InForceIsAccountedFor ==
    inForce \in Proposals =>
        proposal[inForce].approvedAt # None /\ proposal[inForce].appliedAt # None

Applications(p) == {r \in Rulings : ruling[r].at = "applied" /\ ruling[r].of = p}

\* A proposal is written onto its source a second time only by a call that was
\* under way with the first, whose answer it did not see.
AppliedAgainOnlyByAnOverlap ==
    \A p \in Proposals : \A q, r \in Applications(p) :
        q # r => {q, r} \in overlap

\* Of two proposals the one applied last by its stamp is the one in force,
\* unless the calls that applied them were under way together.
LaterStampIsInForce ==
    \A p \in Proposals \ {inForce} :
        /\ inForce \in Proposals
        /\ proposal[inForce].appliedAt < proposal[p].appliedAt
        => \E r \in Applications(inForce), s \in Applications(p) : {r, s} \in overlap
=============================================================================
