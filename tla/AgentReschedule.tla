-------------------------- MODULE AgentReschedule --------------------------
(***************************************************************************)
(* The end of ar-research: whether a pass asks the topic behind it to come *)
(* round sooner, and the statement that writes the sooner time, the count  *)
(* of how many such times were written in a row, and the run that reports  *)
(* it.  One topic and its domain, passes that may overlap, the dispatcher  *)
(* and the operators writing the same next_run_at, and an operator moving  *)
(* the domain's ceiling on consecutive agent reschedules.                  *)
(*                                                                         *)
(* Close Research Run is one statement under READ COMMITTED: `walk` reads  *)
(* the snapshot it began under, and the UPDATE, once it has the row's      *)
(* lock, reads the topic as the last writer left it.  So it is two         *)
(* actions, and another pass may close between them.  How long a gap is is *)
(* Schedule!ClampInterval; here a gap is proposed or it is not.            *)
(***************************************************************************)
EXTENDS Integers

CONSTANTS
    Executions, \* executions of ar-research that may overlap
    Ceilings    \* the values maxAgentReschedules may take

ASSUME CeilingsAssumption == Ceilings \subseteq Nat /\ Ceilings # {}

VARIABLES
    life,       \* the topic, deleted by itself or with its domain
    ceiling,    \* domains.settings.maxAgentReschedules
    setBy,      \* the mode that last wrote next_run_at
    streak,     \* topics.agent_reschedules
    node,       \* the node each pass runs next
    handed,     \* whether the invocation named the topic
    proposes,   \* whether the pass proposes a gap
    seen,       \* what `walk` read of the topic and its domain
    report,     \* scheduled_by of the run each pass inserted
    walk        \* history: gaps written since a pass last proposed none

topicVars == <<life, ceiling, setBy, streak, walk>>
rescheduleVars ==
    <<life, ceiling, setBy, streak, node, handed, proposes, seen, report, walk>>

\* What `walk` answers: no row, or the topic's count beside its domain's ceiling.
Reading == [found : BOOLEAN, streak : Nat, cap : Nat]
NoReading == [found |-> FALSE, streak |-> 0, cap |-> 0]

RescheduleInit ==
    /\ life = "live"
    /\ ceiling \in Ceilings
    /\ setBy = "interval"
    /\ streak = 0 /\ walk = 0
    /\ node = [p \in Executions |-> "ended"]
    /\ handed = [p \in Executions |-> FALSE]
    /\ proposes = [p \in Executions |-> FALSE]
    /\ seen = [p \in Executions |-> NoReading]
    /\ report = [p \in Executions |-> "none"]

-----------------------------------------------------------------------------
(* A pass.                                                                 *)

\* Research Candidates invokes the workflow, with the claim or without it.
Invoke(p, topic) ==
    /\ node[p] = "ended"
    /\ node' = [node EXCEPT ![p] = "propose"]
    /\ handed' = [handed EXCEPT ![p] = topic]
    /\ report' = [report EXCEPT ![p] = "none"]
    /\ UNCHANGED <<topicVars, proposes, seen>>

\* The only ground for a proposal is approved work left behind.
ProposeNextRun(p, leftBehind) ==
    /\ node[p] = "propose"
    /\ proposes' = [proposes EXCEPT ![p] = leftBehind /\ handed[p]]
    /\ node' = [node EXCEPT ![p] = "close"]
    /\ UNCHANGED <<topicVars, handed, seen, report>>

BeginClose(p) ==
    /\ node[p] = "close"
    /\ seen' = [seen EXCEPT ![p] =
                  IF handed[p] /\ life = "live"
                  THEN [found |-> TRUE, streak |-> streak, cap |-> ceiling]
                  ELSE NoReading]
    /\ node' = [node EXCEPT ![p] = "closing"]
    /\ UNCHANGED <<topicVars, handed, proposes, report>>

\* Mutants: the arms decided on the count the snapshot held; a run attributed to
\* what the pass meant to do.
WritesOnSnapshot(p) == proposes[p] /\ seen[p].streak < seen[p].cap
GapProposed(p) == proposes[p]

\* Whether the UPDATE writes the gap, what RETURNING says of it, and the run.
Writes(p) == proposes[p] /\ streak < seen[p].cap
GapWritten(p) == proposes[p] /\ seen[p].streak < seen[p].cap
ScheduledBy(p) == IF GapWritten(p) THEN "agent" ELSE "interval"

\* One UPDATE with an arm per outcome, and the run in the same statement: the
\* gap and the increment, the reset, or both columns as they were.  A topic
\* that has gone is a row not found.
FinishClose(p) ==
    /\ node[p] = "closing" /\ life # "domainDeleted"
    /\ IF seen[p].found /\ life = "live"
       THEN /\ setBy' = IF Writes(p) THEN "agent" ELSE setBy
            /\ streak' = IF ~proposes[p] THEN 0 ELSE IF Writes(p) THEN streak + 1 ELSE streak
            /\ walk' = IF ~proposes[p] THEN 0 ELSE IF Writes(p) THEN walk + 1 ELSE walk
            /\ report' = [report EXCEPT ![p] = ScheduledBy(p)]
       ELSE /\ report' = [report EXCEPT ![p] = "interval"]
            /\ UNCHANGED <<setBy, streak, walk>>
    /\ node' = [node EXCEPT ![p] = "ended"]
    /\ UNCHANGED <<life, ceiling, handed, proposes, seen>>

\* A batch with nothing in it ends above these nodes; an execution dies; the
\* run's domain has gone and the statement is refused.  No account is left.
Stop(p) ==
    /\ node[p] # "ended"
    /\ node' = [node EXCEPT ![p] = "ended"]
    /\ UNCHANGED <<topicVars, handed, proposes, seen, report>>

-----------------------------------------------------------------------------
(* The other writers of the topic.                                         *)

\* ar-dispatch's increment, and the two operator verbs.  No counter moves.
WriteNextRun(mode) ==
    /\ life = "live"
    /\ setBy' = mode
    /\ UNCHANGED <<life, ceiling, streak, walk, node, handed, proposes, seen, report>>

SetCeiling(c) ==
    /\ life # "domainDeleted"
    /\ ceiling' = c
    /\ UNCHANGED <<life, setBy, streak, walk, node, handed, proposes, seen, report>>

Delete(end) ==
    /\ life # "domainDeleted"
    /\ life' = end
    /\ UNCHANGED <<ceiling, setBy, streak, walk, node, handed, proposes, seen, report>>

ExecutionStep(p) ==
    \/ \E topic \in BOOLEAN : Invoke(p, topic)
    \/ \E leftBehind \in BOOLEAN : ProposeNextRun(p, leftBehind)
    \/ BeginClose(p)
    \/ FinishClose(p)
    \/ Stop(p)

TopicStep ==
    \/ \E mode \in {"interval", "operator"} : WriteNextRun(mode)
    \/ \E c \in Ceilings : SetCeiling(c)
    \/ \E end \in {"deleted", "domainDeleted"} : Delete(end)

RescheduleNext == TopicStep \/ \E p \in Executions : ExecutionStep(p)

RescheduleSpec == RescheduleInit /\ [][RescheduleNext]_rescheduleVars

-----------------------------------------------------------------------------
(* What the ceiling promises.                                              *)

\* The type of every variable; agent_reschedules is a count and never NULL.
RescheduleTypeOK ==
    /\ life \in {"live", "deleted", "domainDeleted"}
    /\ ceiling \in Ceilings
    /\ setBy \in {"interval", "operator", "agent"}
    /\ streak \in Nat /\ walk \in Nat
    /\ node \in [Executions -> {"ended", "propose", "close", "closing"}]
    /\ handed \in [Executions -> BOOLEAN]
    /\ proposes \in [Executions -> BOOLEAN]
    /\ seen \in [Executions -> Reading]
    /\ report \in [Executions -> {"none", "agent", "interval"}]

Closes(p) == node[p] = "closing" /\ node'[p] = "ended" /\ report'[p] # "none"
Moved == walk' = walk + 1

\* However passes overlap, none moves the topic's due time when as many passes
\* before it, in a row, as the ceiling it read have moved it already.
\* (t.agent_reschedules < w.cap in the UPDATE of Close Research Run.)
WalkStaysUnderItsCeiling ==
    [][\A p \in Executions : Closes(p) /\ Moved => walk < seen[p].cap]_rescheduleVars

\* The run says agent exactly where its pass moved the due time, as long as no
\* other pass moved the count while this one waited for the row.  (scheduled_by
\* read off gap_written in Close Research Run.)
AttributionHoldsUnlessOvertaken ==
    [][\A p \in Executions :
          Closes(p) /\ streak = seen[p].streak => (report'[p] = "agent" <=> Moved)]_rescheduleVars

-----------------------------------------------------------------------------
(* What the repository says of it and the code does not do.                *)

\* "agent is written where the UPDATE below actually moved the due time": the
\* comment above Close Research Run.
AttributionIsReadOffTheWrite ==
    [][\A p \in Executions : Closes(p) => (report'[p] = "agent" <=> Moved)]_rescheduleVars
=============================================================================
