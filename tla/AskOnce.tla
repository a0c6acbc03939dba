------------------------------ MODULE AskOnce ------------------------------
(***************************************************************************)
(* What the corpus promises about spending, whatever fills it: material    *)
(* is kept once stored, a model is asked about stored material only and    *)
(* never twice, a call is put on the ledger after it was made, and a       *)
(* finding is made of something that was asked about and paid for.         *)
(***************************************************************************)
CONSTANT Items

VARIABLES stored, asked, ledgered, found

vars == <<stored, asked, ledgered, found>>

Init == stored = {} /\ asked = {} /\ ledgered = {} /\ found = {}

Store(i) ==
    /\ stored' = stored \cup {i}
    /\ UNCHANGED <<asked, ledgered, found>>

Ask(i) ==
    /\ i \in stored \ asked
    /\ asked' = asked \cup {i}
    /\ UNCHANGED <<stored, ledgered, found>>

Ledger(i) ==
    /\ i \in asked \ ledgered
    /\ ledgered' = ledgered \cup {i}
    /\ UNCHANGED <<stored, asked, found>>

Find(i) ==
    /\ i \in ledgered \ found
    /\ found' = found \cup {i}
    /\ UNCHANGED <<stored, asked, ledgered>>

Next == \E i \in Items : Store(i) \/ Ask(i) \/ Ledger(i) \/ Find(i)

Spec == Init /\ [][Next]_vars
=============================================================================
