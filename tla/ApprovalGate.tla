---------------------------- MODULE ApprovalGate ----------------------------
(***************************************************************************)
(* What an approval gate promises, whatever stands behind it: something is *)
(* noticed, a person consents to it, only then is it acted on, and it is   *)
(* closed only when it has been acted on.  Nothing is ever taken back: a   *)
(* consent outlives a later change of mind, and a closed row stays closed. *)
(***************************************************************************)
CONSTANT Intentions

VARIABLES raised, consented, acted, closed

vars == <<raised, consented, acted, closed>>

Init == raised = {} /\ consented = {} /\ acted = {} /\ closed = {}

Raise(s) ==
    /\ raised' = raised \cup s
    /\ UNCHANGED <<consented, acted, closed>>

Consent(i) ==
    /\ i \in raised
    /\ consented' = consented \cup {i}
    /\ UNCHANGED <<raised, acted, closed>>

\* Acting may happen more than once, by whoever read the consent in time, but
\* does not begin on what is closed and was never acted on.
Act(i) ==
    /\ i \in consented
    /\ acted' = acted \cup {i}
    /\ UNCHANGED <<raised, consented, closed>>

Close(s) ==
    /\ s \subseteq acted
    /\ closed' = closed \cup s
    /\ UNCHANGED <<raised, consented, acted>>

Next ==
    \/ \E s \in SUBSET Intentions : Raise(s) \/ Close(s)
    \/ \E i \in Intentions : Consent(i) \/ Act(i)

Spec == Init /\ [][Next]_vars
=============================================================================
