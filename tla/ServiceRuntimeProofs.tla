------------------------ MODULE ServiceRuntimeProofs ------------------------
(***************************************************************************)
(* Proofs about ServiceRuntime, for every number of dependencies, every    *)
(* set of requests and of signals, and every threshold of the circuit.     *)
(***************************************************************************)
EXTENDS ServiceRuntime, TLAPS

USE RuntimeAssumption, BreakerThresholdAssumption

-----------------------------------------------------------------------------
(* The rows of the callers.                                                *)

Places == {"idle", "starting", "calling", "draining", "stopping", "stopped"} \cup Hooks

CallerRow == [at : Places, dep : 0 .. N, connected : BOOLEAN, opened : BOOLEAN]

\* Three fields written at once.
LEMMA RowGoesOn ==
    ASSUME NEW x \in CallerRow, NEW here, NEW d, NEW on
    PROVE  [x EXCEPT !.at = here, !.dep = d, !.connected = on]
              = [at |-> here, dep |-> d, connected |-> on, opened |-> x.opened]
  <1> DEFINE y == [x EXCEPT !.at = here, !.dep = d, !.connected = on]
  <1>1. y.at = here /\ y.dep = d /\ y.connected = on /\ y.opened = x.opened
    BY DEF CallerRow
  <1>2. /\ DOMAIN y = {"at", "dep", "connected", "opened"}
        /\ y = [i \in DOMAIN y |-> y[i]]
    BY DEF CallerRow
  <1> HIDE DEF y
  <1>3. y = [at |-> here, dep |-> d, connected |-> on, opened |-> x.opened]
    BY <1>1, <1>2
  <1> QED
    BY <1>3 DEF y

\* A caller that goes on keeps everyone else's row and what it knows of its call.
LEMMA CallerGoesOn ==
    ASSUME caller \in [Callers -> CallerRow],
           NEW c \in Callers, NEW here \in Places, NEW d \in 0 .. N, At(c, here, d)
    PROVE  /\ caller' \in [Callers -> CallerRow]
           /\ \A o \in Callers \ {c} : caller'[o] = caller[o]
           /\ caller'[c].at = here /\ caller'[c].dep = d
           /\ caller'[c].connected =
                (caller[c].connected \/ (c \in Requests /\ ~ Working(c)))
           /\ caller'[c].opened = caller[c].opened
  <1> DEFINE on == caller[c].connected \/ (c \in Requests /\ ~ Working(c))
             row == [at |-> here, dep |-> d, connected |-> on, opened |-> caller[c].opened]
  <1>1. caller[c] \in CallerRow
    OBVIOUS
  <1>2. on \in BOOLEAN
    BY <1>1 DEF CallerRow
  <1>3. caller' = [caller EXCEPT ![c] = [caller[c] EXCEPT !.at = here, !.dep = d, !.connected = on]]
    BY DEF At
  <1> HIDE DEF on
  <1>4. [caller[c] EXCEPT !.at = here, !.dep = d, !.connected = on] = row
    BY <1>1, RowGoesOn
  <1>5. row \in CallerRow
    BY <1>1, <1>2 DEF CallerRow
  <1>6. caller' = [caller EXCEPT ![c] = row]
    BY <1>3, <1>4
  <1> QED
    BY <1>5, <1>6 DEF on

LEMMA CallerAnswers ==
    ASSUME caller \in [Callers -> CallerRow], NEW c \in Callers, Answered(c)
    PROVE  /\ caller' \in [Callers -> CallerRow]
           /\ \A o \in Callers \ {c} : caller'[o] = caller[o]
           /\ caller'[c] = Idle
  BY DEF Answered, Idle, CallerRow, Places

\* What a request that goes upstream becomes.
LEMMA CallRow ==
    /\ [Idle EXCEPT !.at = "calling", !.connected = TRUE] \in CallerRow
    /\ [Idle EXCEPT !.at = "calling", !.connected = TRUE].at = "calling"
    /\ [Idle EXCEPT !.at = "calling", !.connected = TRUE].dep = 0
  <1> DEFINE y == [Idle EXCEPT !.at = "calling", !.connected = TRUE]
  <1>1. y.at = "calling" /\ y.dep = 0 /\ y.connected = TRUE /\ y.opened = FALSE
    BY DEF Idle
  <1>2. /\ DOMAIN y = {"at", "dep", "connected", "opened"}
        /\ y = [i \in DOMAIN y |-> y[i]]
    BY DEF Idle
  <1> HIDE DEF y
  <1>3. y = [at |-> "calling", dep |-> 0, connected |-> TRUE, opened |-> FALSE]
    BY <1>1, <1>2
  <1>4. y \in CallerRow
    BY <1>3 DEF CallerRow, Places
  <1> QED
    BY <1>1, <1>4 DEF y

\* Who calls what: the three kinds of callers are apart.
LEMMA CallersAreApart ==
    /\ Boot \in Callers /\ Boot \notin Requests /\ Boot \notin Signals
    /\ \A q \in Requests : q \in Callers /\ q # Boot /\ q \notin Signals
    /\ \A s \in Signals : s \in Callers /\ s # Boot /\ s \notin Requests
  BY DEF Callers

\* A call that settles leaves the others where they are.
LEMMA CallAnswers ==
    ASSUME caller \in [Callers -> CallerRow], NEW q \in Requests, CallSettles(q)
    PROVE  /\ caller'[q] = Idle
           /\ \A o \in Callers \ {q} :
                /\ caller'[o].at = caller[o].at
                /\ caller'[o].dep = caller[o].dep
                /\ caller'[o].connected = caller[o].connected
  <1>1. CASE Answered(q)
    BY <1>1, CallerAnswers, CallersAreApart
  <1>2. CASE ~ Answered(q)
    <2>1. caller' = [c \in Callers |->
                IF c = q THEN Idle
                ELSE IF breaker'.state = "open" /\ caller[c].at = "calling"
                     THEN [caller[c] EXCEPT !.opened = TRUE] ELSE caller[c]]
      BY <1>2 DEF CallSettles
    <2>2. \A x \in CallerRow : /\ [x EXCEPT !.opened = TRUE].at = x.at
                               /\ [x EXCEPT !.opened = TRUE].dep = x.dep
                               /\ [x EXCEPT !.opened = TRUE].connected = x.connected
      BY DEF CallerRow
    <2>3. caller'[q] = Idle
      BY <2>1, CallersAreApart
    <2>4. ASSUME NEW o \in Callers \ {q}
          PROVE  /\ caller'[o].at = caller[o].at
                 /\ caller'[o].dep = caller[o].dep
                 /\ caller'[o].connected = caller[o].connected
      <3>1. caller[o] \in CallerRow
        OBVIOUS
      <3>2. caller'[o] = caller[o] \/ caller'[o] = [caller[o] EXCEPT !.opened = TRUE]
        BY <2>1
      <3> QED
        BY <2>2, <3>1, <3>2
    <2> QED
      BY <2>3, <2>4
  <1> QED
    BY <1>1, <1>2

\* A client that goes away leaves its request at work.
LEMMA ClientLeaves ==
    ASSUME caller \in [Callers -> CallerRow], NEW q \in Requests, Disconnects(q)
    PROVE  \A o \in Callers :
                /\ caller'[o].at = caller[o].at
                /\ caller'[o].dep = caller[o].dep
                /\ caller'[o].connected => caller[o].connected
  <1>1. \A x \in CallerRow : /\ [x EXCEPT !.connected = FALSE].at = x.at
                             /\ [x EXCEPT !.connected = FALSE].dep = x.dep
                             /\ [x EXCEPT !.connected = FALSE].connected = FALSE
    BY DEF CallerRow
  <1>2. caller' = [caller EXCEPT ![q] = [caller[q] EXCEPT !.connected = FALSE]]
    BY DEF Disconnects
  <1> QED
    BY <1>1, <1>2, CallersAreApart

-----------------------------------------------------------------------------
(* The types, and where each kind of caller can be.                        *)

CircuitType == breaker \in Breaker /\ streak \in 0 .. BreakerThreshold

Resource == {"released", "held", "unreleased"}

ProcessType ==
    /\ status \in [Deps -> {"stopped", "starting", "running", "paused", "stopping", "error"}]
    /\ resource \in [Deps -> Resource]
    /\ overlapped \subseteq Deps
    /\ phase \in {"booting", "listening", "closing", "aborted", "exited", "killed"}
    /\ shutting \in BOOLEAN
    /\ handled \subseteq Signals

LEMMA TypeParts ==
    TypeOK <=> CircuitType /\ ProcessType /\ caller \in [Callers -> CallerRow]
  BY DEF TypeOK, CircuitType, ProcessType, Resource, CallerRow, Places

BootAt == {"idle", "starting", "onStart"}
RequestAt == {"idle", "calling", "starting"} \cup Hooks
SignalAt == {"idle", "draining", "stopping", "onStop", "stopped"}

\* Away from a dependency: nothing under way, a call upstream, or the drain.
Away == {"idle", "calling", "draining"}

InPlace ==
    /\ caller[Boot].at \in BootAt
    /\ \A q \in Requests : caller[q].at \in RequestAt
    /\ \A s \in Signals : caller[s].at \in SignalAt
    /\ \A c \in Callers : caller[c].at \notin Away => caller[c].dep \in Deps

LEMMA RowTypes ==
    ASSUME TypeOK
    PROVE  /\ caller \in [Callers -> CallerRow]
           /\ \A c \in Callers : caller[c] \in CallerRow /\ caller[c].dep \in 0 .. N
  BY TypeParts DEF CallerRow

\* What a step that is not of the circuit does to the callers: one of them goes
\* on or answers.
OneMoves ==
    \/ UNCHANGED caller
    \/ \E c \in Callers :
        \/ Answered(c)
        \/ \E here \in Places \ {"calling"}, d \in 0 .. N : At(c, here, d)

LEMMA StepMoves ==
    ASSUME TypeOK, InPlace, [Next]_vars
    PROVE  \/ \E q \in Requests : Call(q) \/ CallSettles(q) \/ Disconnects(q)
           \/ TimeoutElapses
           \/ OneMoves /\ UNCHANGED <<breaker, streak>>
  <1> USE CallersAreApart DEF OneMoves, Places, Hooks
  <1> DEFINE Quiet == OneMoves /\ UNCHANGED <<breaker, streak>>
  <1>0. N \in 0 .. N /\ 0 \in 0 .. N /\ \A d \in Deps : d \in 0 .. N
    BY DEF Deps
  <1>1. \A c \in Callers : caller[c].dep \in 0 .. N
    BY RowTypes
  <1>2. CASE UNCHANGED vars
    BY <1>2 DEF vars
  <1>3. ASSUME NEW c \in Callers, BeginStart(c) PROVE Quiet
    BY <1>1, <1>3 DEF BeginStart
  <1>4. ASSUME BootSettles PROVE Quiet
    <2>1. CASE caller[Boot].dep < N
      <3>1. caller[Boot].dep + 1 \in 0 .. N
        BY <1>1, <2>1
      <3> QED
        BY <1>4, <2>1, <3>1 DEF BootSettles
    <2>2. CASE ~ (caller[Boot].dep < N)
      BY <1>4, <2>2 DEF BootSettles
    <2> QED
      BY <2>1, <2>2
  <1>5. ASSUME NEW q \in Requests, StartRefused(q) \/ HookSettles(q) PROVE Quiet
    <2>1. CASE StartRefused(q)
      BY <2>1 DEF StartRefused
    <2>2. CASE HookSettles(q)
      BY <1>1, <2>2 DEF HookSettles
    <2> QED
      BY <1>5, <2>1, <2>2
  <1>6. ASSUME NEW s \in Signals, ShutdownStep(s) PROVE Quiet
    <2>1. CASE Drained(s)
      BY <1>0, <2>1 DEF Drained
    <2>2. CASE ShutdownStops(s)
      BY <1>1, <2>2 DEF ShutdownStops, Stop
    <2>3. CASE ShutdownHookSettles(s)
      BY <1>1, <2>3 DEF ShutdownHookSettles
    <2>4. CASE ShutdownGoesOn(s)
      <3>1. CASE caller[s].dep > 1
        <4>1. caller[s].dep - 1 \in 0 .. N
          BY <1>1, <3>1
        <4> QED
          BY <2>4, <3>1, <4>1 DEF ShutdownGoesOn
      <3>2. CASE ~ (caller[s].dep > 1)
        BY <2>4, <3>2 DEF ShutdownGoesOn
      <3> QED
        BY <3>1, <3>2
    <2> QED
      BY <1>6, <2>1, <2>2, <2>3, <2>4 DEF ShutdownStep
  <1>7. ASSUME NEW q \in Requests, NEW d \in Deps, Restart(q, d) \/ Pause(q, d) \/ Resume(q, d)
        PROVE  Quiet
    BY <1>0, <1>7 DEF Restart, Stop, Pause, Resume, BeginHook
  <1>8. ASSUME NEW s \in Signals, Signal(s) PROVE Quiet
    BY <1>0, <1>8 DEF Signal
  <1> QED
    BY <1>2, <1>3, <1>4, <1>5, <1>6, <1>7, <1>8 DEF Next, ProcessStep

-----------------------------------------------------------------------------
(* The circuit.                                                            *)

LEMMA CircuitOfStep ==
    ASSUME TypeOK, InPlace, CircuitFollowsItsCalls, [Next]_vars
    PROVE  CircuitType' /\ CircuitFollowsItsCalls' /\ (caller \in [Callers -> CallerRow])'
  <1> USE CallersAreApart DEF CircuitFollowsItsCalls, CircuitType, Breaker
  <1>1. /\ CircuitType /\ caller \in [Callers -> CallerRow]
        /\ \A c \in Callers : caller[c] \in CallerRow
    BY TypeParts
  <1>2. CASE OneMoves /\ UNCHANGED <<breaker, streak>>
    <2>1. CASE UNCHANGED caller
      BY <1>1, <1>2, <2>1
    <2>2. ASSUME NEW c \in Callers, Answered(c)
          PROVE  /\ (caller \in [Callers -> CallerRow])'
                 /\ \A q \in Requests : caller'[q].at = "calling" => caller'[q] = caller[q]
      BY <1>1, <2>2, CallerAnswers DEF Idle
    <2>3. ASSUME NEW c \in Callers, NEW here \in Places \ {"calling"}, NEW d \in 0 .. N,
                 At(c, here, d)
          PROVE  /\ (caller \in [Callers -> CallerRow])'
                 /\ \A q \in Requests : caller'[q].at = "calling" => caller'[q] = caller[q]
      BY <1>1, <2>3, CallerGoesOn
    <2> QED
      BY <1>1, <1>2, <2>1, <2>2, <2>3 DEF OneMoves
  <1>3. ASSUME NEW q \in Requests, Call(q)
        PROVE  CircuitType' /\ CircuitFollowsItsCalls' /\ (caller \in [Callers -> CallerRow])'
    <2>1. breaker' = CheckTimeout(breaker) /\ streak' = streak
      BY <1>3 DEF Call
    <2>2. breaker' \in Breaker /\ (breaker'.state = "closed" => breaker' = breaker)
      BY <1>1, <2>1 DEF CheckTimeout
    <2>3. breaker'.state = "open" => breaker' = breaker /\ caller' = caller
      BY <1>1, <1>3, <2>1 DEF CheckTimeout, Call, LetsThrough
    <2>4. (caller \in [Callers -> CallerRow])'
      BY <1>1, <1>3, CallRow DEF Call
    <2> QED
      BY <1>1, <2>1, <2>2, <2>3, <2>4
  <1>4. ASSUME NEW q \in Requests, CallSettles(q)
        PROVE  CircuitType' /\ CircuitFollowsItsCalls' /\ (caller \in [Callers -> CallerRow])'
    <2>1. CASE breaker' = OnSuccess(breaker) /\ streak' = 0 /\ Answered(q)
      BY <1>1, <2>1, CallerAnswers DEF OnSuccess, NewBreaker
    <2>2. CASE /\ breaker' = OnFailure(breaker)
               /\ streak' = IF streak < BreakerThreshold THEN streak + 1 ELSE streak
               /\ caller' = [c \in Callers |->
                    IF c = q THEN Idle
                    ELSE IF breaker'.state = "open" /\ caller[c].at = "calling"
                         THEN [caller[c] EXCEPT !.opened = TRUE] ELSE caller[c]]
      <3>1. CircuitType'
        BY <1>1, <2>2 DEF OnFailure
      <3>2. breaker'.state = "closed" => breaker'.failures = streak'
        BY <1>1, <2>2 DEF OnFailure
      <3>3. \A x \in CallerRow : [x EXCEPT !.opened = TRUE] \in CallerRow
                                  /\ [x EXCEPT !.opened = TRUE].opened
                                  /\ [x EXCEPT !.opened = TRUE].at = x.at
        BY DEF CallerRow
      <3>4. (caller \in [Callers -> CallerRow])'
        BY <1>1, <2>2, <3>3 DEF Idle, CallerRow, Places
      <3>5. breaker'.state = "open" =>
                \A c \in Requests : caller'[c].at = "calling" => caller'[c].opened
        BY <1>1, <2>2, <3>3 DEF Idle
      <3> QED
        BY <3>1, <3>2, <3>4, <3>5
    <2> QED
      BY <1>4, <2>1, <2>2 DEF CallSettles
  <1>5. ASSUME NEW q \in Requests, Disconnects(q)
        PROVE  CircuitType' /\ CircuitFollowsItsCalls' /\ (caller \in [Callers -> CallerRow])'
    <2>1. \A x \in CallerRow : /\ [x EXCEPT !.connected = FALSE] \in CallerRow
                               /\ [x EXCEPT !.connected = FALSE].at = x.at
                               /\ [x EXCEPT !.connected = FALSE].opened = x.opened
      BY DEF CallerRow
    <2>2. UNCHANGED <<breaker, streak>> /\ caller' = [caller EXCEPT ![q] = [caller[q] EXCEPT !.connected = FALSE]]
      BY <1>5 DEF Disconnects
    <2> QED
      BY <1>1, <2>1, <2>2
  <1>6. ASSUME TimeoutElapses
        PROVE  CircuitType' /\ CircuitFollowsItsCalls' /\ (caller \in [Callers -> CallerRow])'
    BY <1>1, <1>6 DEF TimeoutElapses, TimeoutElapsed
  <1> QED
    BY <1>2, <1>3, <1>4, <1>5, <1>6, StepMoves

-----------------------------------------------------------------------------
(* The types and the places of the callers.                                *)

LEMMA ProcessTypeOfStep ==
    ASSUME TypeOK, InPlace, [Next]_vars
    PROVE  ProcessType'
  <1> USE CallersAreApart DEF ProcessType
  <1>1. ProcessType /\ \A c \in Callers : caller[c].dep \in 0 .. N
    BY TypeParts, RowTypes
  <1>2. \A d \in Deps, next \in {"running", "paused", "stopped", "error"}, leaves \in Resource :
            Settled(d, next, leaves) =>
                /\ status' \in [Deps -> {"stopped", "starting", "running", "paused", "stopping", "error"}]
                /\ resource' \in [Deps -> Resource]
    BY <1>1 DEF Settled
  <1>3. ASSUME NEW d \in Deps,
               Started(d) \/ StartFailed(d) \/ Released(d) \/ StopFailed(d)
                    \/ \E next \in {"running", "paused", "error"} : Settled(d, next, resource[d])
        PROVE  /\ status' \in [Deps -> {"stopped", "starting", "running", "paused", "stopping", "error"}]
               /\ resource' \in [Deps -> Resource]
    <2>1. PICK next \in {"running", "paused", "stopped", "error"}, leaves \in Resource :
            Settled(d, next, leaves)
      BY <1>1, <1>3 DEF Started, StartFailed, Released, StopFailed, Resource
    <2> QED
      BY <1>2, <2>1
  <1>4. \A c, d : d \in Deps /\ Overlaps(c, d) => overlapped' \subseteq Deps
    BY <1>1 DEF Overlaps
  <1>5. CASE UNCHANGED vars
    BY <1>1, <1>5 DEF vars
  <1>6. ASSUME NEW c \in Callers, BeginStart(c) PROVE ProcessType'
    <2>1. caller[c].dep \in Deps
      BY <1>6 DEF BeginStart, InPlace, Away
    <2> QED
      BY <1>1, <1>4, <1>6, <2>1 DEF BeginStart
  <1>7. ASSUME BootSettles PROVE ProcessType'
    <2>1. caller[Boot].dep \in Deps
      BY <1>7 DEF BootSettles, InPlace, Away
    <2> QED
      BY <1>1, <1>3, <1>7, <2>1 DEF BootSettles
  <1>8. ASSUME NEW q \in Requests, Call(q) \/ CallSettles(q) \/ Disconnects(q) PROVE ProcessType'
    BY <1>1, <1>8 DEF Call, CallSettles, Disconnects
  <1>9. ASSUME NEW q \in Requests, NEW d \in Deps, Restart(q, d) \/ Pause(q, d) \/ Resume(q, d)
        PROVE  ProcessType'
    BY <1>1, <1>4, <1>9 DEF Restart, Stop, Pause, Resume, BeginHook
  <1>10. ASSUME NEW q \in Requests, StartRefused(q) PROVE ProcessType'
    BY <1>1, <1>10 DEF StartRefused
  <1>11. ASSUME NEW q \in Requests, HookSettles(q) PROVE ProcessType'
    <2>1. caller[q].dep \in Deps
      BY <1>11 DEF HookSettles, InPlace, Away
    <2> DEFINE d == caller[q].dep
    <2>2. Started(d) \/ StartFailed(d) \/ Released(d) \/ StopFailed(d)
            \/ \E next \in {"running", "paused", "error"} : Settled(d, next, resource[d])
      BY <1>11 DEF HookSettles
    <2>3. UNCHANGED <<overlapped, phase, shutting, handled>>
      BY <1>11 DEF HookSettles
    <2>4. d \in Deps
      BY <2>1
    <2> HIDE DEF d
    <2> QED
      BY <1>1, <1>3, <2>2, <2>3, <2>4
  <1>12. ASSUME NEW s \in Signals, Signal(s) PROVE ProcessType'
    BY <1>1, <1>12 DEF Signal
  <1>13. ASSUME NEW s \in Signals, ShutdownStep(s) PROVE ProcessType'
    <2>1. CASE Drained(s)
      BY <1>1, <2>1 DEF Drained
    <2>2. CASE ShutdownStops(s)
      <3>1. caller[s].dep \in Deps
        BY <2>2 DEF ShutdownStops, InPlace, Away
      <3> QED
        BY <1>1, <1>4, <2>2, <3>1 DEF ShutdownStops, Stop
    <2>3. CASE ShutdownHookSettles(s)
      <3>1. caller[s].dep \in Deps
        BY <2>3 DEF ShutdownHookSettles, InPlace, Away
      <3> QED
        BY <1>1, <1>3, <2>3, <3>1 DEF ShutdownHookSettles
    <2>4. CASE ShutdownGoesOn(s)
      BY <1>1, <2>4 DEF ShutdownGoesOn
    <2> QED
      BY <1>13, <2>1, <2>2, <2>3, <2>4 DEF ShutdownStep
  <1>14. ASSUME TimeoutElapses PROVE ProcessType'
    BY <1>1, <1>14 DEF TimeoutElapses
  <1> QED
    BY <1>5, <1>6, <1>7, <1>8, <1>9, <1>10, <1>11, <1>12, <1>13, <1>14 DEF Next, ProcessStep

LEMMA PlacesOfStep ==
    ASSUME TypeOK, InPlace, [Next]_vars
    PROVE  InPlace'
  <1> USE CallersAreApart
  <1>1. /\ caller \in [Callers -> CallerRow]
        /\ \A c \in Callers : caller[c].dep \in 0 .. N
        /\ N \in 0 .. N /\ N \in Deps /\ 0 \in 0 .. N /\ \A d \in Deps : d \in 0 .. N
    BY RowTypes DEF Deps
  <1>2. ASSUME NEW c \in Callers, Answered(c) PROVE InPlace'
    BY <1>1, <1>2, CallerAnswers DEF InPlace, Idle, BootAt, RequestAt, SignalAt, Away
  <1>3. ASSUME NEW c \in Callers, NEW here \in Places, NEW d \in 0 .. N, At(c, here, d),
               here \in Away \/ d \in Deps,
               c = Boot => here \in BootAt,
               c \in Requests => here \in RequestAt,
               c \in Signals => here \in SignalAt
        PROVE  InPlace'
    BY <1>1, <1>3, CallerGoesOn DEF InPlace
  <1>4. CASE UNCHANGED caller
    BY <1>4 DEF InPlace
  <1>5. ASSUME NEW c \in Callers, BeginStart(c) PROVE InPlace'
    <2>1. c \notin Signals /\ caller[c].dep \in Deps
      BY <1>5 DEF BeginStart, InPlace, SignalAt, Away
    <2> QED
      BY <1>1, <1>3, <1>5, <2>1 DEF BeginStart, Places, Hooks, BootAt, RequestAt
  <1>6. ASSUME BootSettles PROVE InPlace'
    <2>1. CASE Answered(Boot)
      BY <1>2, <2>1
    <2>2. CASE ~ Answered(Boot)
      <3>1. caller[Boot].dep < N /\ At(Boot, "starting", caller[Boot].dep + 1)
        BY <1>6, <2>2 DEF BootSettles
      <3>2. caller[Boot].dep + 1 \in Deps
        BY <1>1, <3>1 DEF Deps
      <3> QED
        BY <1>1, <1>3, <3>1, <3>2 DEF Places, BootAt
    <2> QED
      BY <2>1, <2>2
  <1>7. ASSUME NEW q \in Requests, Call(q) PROVE InPlace'
    <2>1. \A o \in Callers : caller'[o] = caller[o]
                              \/ (o = q /\ caller'[o].at = "calling")
      BY <1>1, <1>7, CallRow DEF Call
    <2> QED
      BY <2>1 DEF InPlace, RequestAt, Away
  <1>8. ASSUME NEW q \in Requests, CallSettles(q) PROVE InPlace'
    BY <1>1, <1>8, CallAnswers DEF InPlace, Idle, RequestAt, Away
  <1>9. ASSUME NEW q \in Requests, Disconnects(q) PROVE InPlace'
    BY <1>1, <1>9, ClientLeaves DEF InPlace
  <1>10. ASSUME NEW q \in Requests, NEW d \in Deps, Restart(q, d) \/ Pause(q, d) \/ Resume(q, d)
         PROVE  InPlace'
    BY <1>1, <1>3, <1>10 DEF Restart, Stop, Pause, Resume, BeginHook, Places, Hooks, RequestAt
  <1>11. ASSUME NEW q \in Requests, StartRefused(q) \/ HookSettles(q) PROVE InPlace'
    <2>1. CASE Answered(q)
      BY <1>2, <2>1
    <2>2. CASE ~ Answered(q)
      <3>1. At(q, "starting", caller[q].dep) /\ caller[q].at = "onStop"
        <4>1. HookSettles(q)
          BY <1>11, <2>2 DEF StartRefused
        <4>2. caller[q].at = "onStop"
          BY <2>2, <4>1 DEF HookSettles
        <4> QED
          BY <2>2, <4>1, <4>2 DEF HookSettles
      <3>2. caller[q].dep \in Deps
        BY <3>1 DEF InPlace, Away
      <3> QED
        BY <1>1, <1>3, <3>1, <3>2 DEF Places, RequestAt
    <2> QED
      BY <2>1, <2>2
  <1>12. ASSUME NEW s \in Signals, Signal(s) PROVE InPlace'
    BY <1>1, <1>3, <1>4, <1>12 DEF Signal, Places, Away, SignalAt
  <1>13. ASSUME NEW s \in Signals, ShutdownStep(s) PROVE InPlace'
    <2>1. CASE Drained(s)
      BY <1>1, <1>3, <2>1 DEF Drained, Places, SignalAt
    <2>2. CASE ShutdownStops(s)
      <3>1. caller[s].dep \in Deps
        BY <2>2 DEF ShutdownStops, InPlace, Away
      <3> QED
        BY <1>1, <1>3, <2>2, <3>1 DEF ShutdownStops, Stop, Places, Hooks, SignalAt
    <2>3. CASE ShutdownHookSettles(s)
      <3>1. caller[s].dep \in Deps
        BY <2>3 DEF ShutdownHookSettles, InPlace, Away
      <3> QED
        BY <1>1, <1>3, <2>3, <3>1 DEF ShutdownHookSettles, Places, SignalAt
    <2>4. CASE ShutdownGoesOn(s)
      <3>1. CASE Answered(s)
        BY <1>2, <3>1
      <3>2. CASE ~ Answered(s)
        <4>1. caller[s].dep > 1 /\ At(s, "stopping", caller[s].dep - 1)
          BY <2>4, <3>2 DEF ShutdownGoesOn
        <4>2. caller[s].dep - 1 \in Deps /\ caller[s].dep - 1 \in 0 .. N
          BY <1>1, <4>1 DEF Deps
        <4> QED
          BY <1>3, <4>1, <4>2 DEF Places, SignalAt
      <3> QED
        BY <3>1, <3>2
    <2> QED
      BY <1>13, <2>1, <2>2, <2>3, <2>4 DEF ShutdownStep
  <1>14. ASSUME TimeoutElapses PROVE InPlace'
    BY <1>4, <1>14 DEF TimeoutElapses
  <1> QED
    BY <1>4, <1>5, <1>6, <1>7, <1>8, <1>9, <1>10, <1>11, <1>12, <1>13, <1>14
       DEF Next, ProcessStep, vars

-----------------------------------------------------------------------------
(* The phases of the process.                                              *)

Passing == {"stopping", "onStop", "stopped"}

\* The boot works alone, and one signal at a time once the server is closing;
\* past its drain no client is left.
Phases ==
    /\ phase = "booting" <=> Working(Boot)
    /\ phase = "booting" => \A c \in Callers \ {Boot} : ~ Working(c)
    /\ phase = "closing" => shutting
    /\ \A s \in Signals : Working(s) => shutting /\ phase \in {"closing", "killed"}
    /\ \A s, t \in Signals : Working(s) /\ Working(t) => s = t
    /\ \A s \in Signals : caller[s].at \in Passing => \A q \in Requests : ~ caller[q].connected

LEMMA PhasesOfStep ==
    ASSUME TypeOK, InPlace, Phases, Next
    PROVE  Phases'
  <1> USE CallersAreApart DEF Alive
  <1>1. /\ caller \in [Callers -> CallerRow]
        /\ \A c \in Callers : caller[c].dep \in 0 .. N
        /\ N \in 0 .. N /\ 0 \in 0 .. N /\ \A d \in Deps : d \in 0 .. N
        /\ phase \in {"booting", "listening", "closing"}
    BY RowTypes DEF Deps, Next
  <1>2. ASSUME NEW q \in Requests, Answered(q), UNCHANGED <<phase, shutting>>
        PROVE  Phases'
    <2>1. /\ ~ Working(q)' /\ ~ caller'[q].connected
          /\ \A o \in Callers \ {q} : caller'[o] = caller[o] /\ (Working(o)' <=> Working(o))
      BY <1>1, <1>2, CallerAnswers DEF Idle, Working
    <2> QED
      BY <1>2, <2>1 DEF Phases
  <1>3. ASSUME NEW q \in Requests, NEW here \in Places \ {"idle"}, NEW d \in 0 .. N,
               At(q, here, d), Working(q) \/ phase = "listening", phase # "booting",
               UNCHANGED <<phase, shutting>>
        PROVE  Phases'
    <2>1. /\ Working(q)'
          /\ \A o \in Callers \ {q} : caller'[o] = caller[o] /\ (Working(o)' <=> Working(o))
          /\ Working(q) => (caller'[q].connected => caller[q].connected)
      BY <1>1, <1>3, CallerGoesOn DEF Working
    <2>2. CASE Working(q)
      BY <1>3, <2>1, <2>2 DEF Phases
    <2>3. CASE phase = "listening"
      <3>1. \A s \in Signals : ~ Working(s)
        BY <2>3 DEF Phases
      <3>2. \A s \in Signals : ~ Working(s)' /\ caller'[s].at \notin Passing
        BY <2>1, <3>1 DEF Working, Passing
      <3> QED
        BY <1>3, <2>1, <2>3, <3>2 DEF Phases
    <2> QED
      BY <1>3, <2>2, <2>3
  <1>4. ASSUME NEW s \in Signals, NEW here \in Passing, NEW d \in 0 .. N, At(s, here, d),
               Working(s), \A q \in Requests : ~ caller[q].connected,
               UNCHANGED <<phase, shutting>>
        PROVE  Phases'
    <2>1. /\ Working(s)'
          /\ \A o \in Callers \ {s} : caller'[o] = caller[o] /\ (Working(o)' <=> Working(o))
      BY <1>1, <1>4, CallerGoesOn DEF Working, Passing, Places, Hooks
    <2> QED
      BY <1>4, <2>1 DEF Phases
  <1>5. CASE UNCHANGED <<caller, phase, shutting>>
    BY <1>5 DEF Phases, Working
  <1>6. ASSUME NEW q \in Requests, Working(q) PROVE phase # "booting"
    BY <1>6 DEF Phases
  <1>7. ASSUME NEW c \in Callers, BeginStart(c) PROVE Phases'
    <2>1. c \notin Signals /\ Working(c) /\ UNCHANGED <<phase, shutting>>
      BY <1>7 DEF BeginStart, InPlace, SignalAt, Working
    <2>2. CASE c \in Requests
      BY <1>1, <1>3, <1>6, <1>7, <2>1, <2>2 DEF BeginStart, Places, Hooks
    <2>3. CASE c = Boot
      <3>1. /\ Working(Boot)'
            /\ \A o \in Callers \ {Boot} : caller'[o] = caller[o] /\ (Working(o)' <=> Working(o))
        BY <1>1, <1>7, <2>3, CallerGoesOn DEF BeginStart, Working, Places, Hooks
      <3> QED
        BY <2>1, <2>3, <3>1 DEF Phases
    <2> QED
      BY <2>1, <2>2, <2>3 DEF Callers
  <1>8. ASSUME BootSettles PROVE Phases'
    <2>1. Working(Boot) /\ phase = "booting" /\ shutting' = shutting
      BY <1>8 DEF BootSettles, Working, Phases
    <2>2. CASE Answered(Boot) /\ phase' \in {"listening", "aborted"}
      <3>1. /\ ~ Working(Boot)'
            /\ \A o \in Callers \ {Boot} : caller'[o] = caller[o] /\ (Working(o)' <=> Working(o))
        BY <1>1, <2>2, CallerAnswers DEF Idle, Working
      <3> QED
        BY <2>1, <2>2, <3>1 DEF Phases
    <2>3. CASE ~ (Answered(Boot) /\ phase' \in {"listening", "aborted"})
      <3>1. caller[Boot].dep < N /\ At(Boot, "starting", caller[Boot].dep + 1) /\ phase' = phase
        BY <1>8, <2>3 DEF BootSettles
      <3>2. caller[Boot].dep + 1 \in 0 .. N
        BY <1>1, <3>1
      <3>3. /\ Working(Boot)'
            /\ \A o \in Callers \ {Boot} : caller'[o] = caller[o] /\ (Working(o)' <=> Working(o))
        BY <1>1, <3>1, <3>2, CallerGoesOn DEF Working, Places
      <3> QED
        BY <2>1, <3>1, <3>3 DEF Phases
    <2> QED
      BY <2>2, <2>3
  <1>9. ASSUME NEW q \in Requests, Call(q) PROVE Phases'
    <2>1. phase = "listening" /\ UNCHANGED <<phase, shutting>>
      BY <1>9 DEF Call, Arrives
    <2>2. \A o \in Callers \ {q} : caller'[o] = caller[o] /\ (Working(o)' <=> Working(o))
      BY <1>1, <1>9 DEF Call, Working
    <2>3. \A s \in Signals : ~ Working(s)
      BY <2>1 DEF Phases
    <2>4. \A s \in Signals : ~ Working(s)' /\ caller'[s].at \notin Passing
      BY <2>2, <2>3 DEF Working, Passing
    <2> QED
      BY <2>1, <2>2, <2>4 DEF Phases
  <1>10. ASSUME NEW q \in Requests, CallSettles(q) \/ Disconnects(q) PROVE Phases'
    <2>1. Working(q) \/ Disconnects(q)
      BY <1>10 DEF CallSettles, Working
    <2>2. UNCHANGED <<phase, shutting>>
      BY <1>10 DEF CallSettles, Disconnects
    <2>3. \A o \in Callers : /\ Working(o)' => Working(o)
                             /\ o # q => caller'[o].at = caller[o].at /\ (Working(o)' <=> Working(o))
                             /\ o \in Requests => (caller'[o].connected => caller[o].connected)
      <3>1. CASE CallSettles(q)
        BY <1>1, <3>1, CallAnswers DEF Working, Idle
      <3>2. CASE Disconnects(q)
        BY <1>1, <3>2, ClientLeaves DEF Working
      <3> QED
        BY <1>10, <3>1, <3>2
    <2> QED
      BY <2>2, <2>3 DEF Phases
  <1>11. ASSUME NEW q \in Requests, NEW d \in Deps, Restart(q, d) \/ Pause(q, d) \/ Resume(q, d)
         PROVE  Phases'
    BY <1>1, <1>3, <1>11 DEF Restart, Stop, Pause, Resume, BeginHook, Arrives, Places, Hooks
  <1>12. ASSUME NEW q \in Requests, StartRefused(q) \/ HookSettles(q) PROVE Phases'
    <2>1. Working(q) /\ UNCHANGED <<phase, shutting>>
      BY <1>12 DEF StartRefused, HookSettles, Working
    <2>2. CASE Answered(q)
      BY <1>2, <2>1, <2>2
    <2>3. CASE ~ Answered(q)
      <3>1. At(q, "starting", caller[q].dep)
        <4>1. HookSettles(q)
          BY <1>12, <2>3 DEF StartRefused
        <4>2. caller[q].at = "onStop"
          BY <2>3, <4>1 DEF HookSettles
        <4> QED
          BY <2>3, <4>1, <4>2 DEF HookSettles
      <3> QED
        BY <1>1, <1>3, <1>6, <2>1, <3>1 DEF Places
    <2> QED
      BY <2>2, <2>3
  <1>13. ASSUME NEW s \in Signals, Signal(s) PROVE Phases'
    <2>1. CASE s \in handled \cap Once
      BY <1>13, <2>1 DEF Signal, Phases, Working
    <2>2. CASE s \notin handled \cap Once /\ shutting
      <3>1. UNCHANGED <<caller, phase>> /\ shutting' = TRUE
        BY <1>13, <2>2 DEF Signal
      <3> QED
        BY <2>2, <3>1 DEF Phases, Working
    <2>3. CASE s \notin handled \cap Once /\ ~ shutting
      <3>1. phase' = "closing" /\ shutting' = TRUE /\ At(s, "draining", 0) /\ phase # "booting"
        BY <1>13, <2>3 DEF Signal
      <3>2. /\ Working(s)' /\ caller'[s].at = "draining"
            /\ \A o \in Callers \ {s} : caller'[o] = caller[o] /\ (Working(o)' <=> Working(o))
        BY <1>1, <3>1, CallerGoesOn DEF Working, Places
      <3>3. \A t \in Signals : ~ Working(t)
        BY <2>3 DEF Phases
      <3>4. \A t \in Signals : caller'[t].at \notin Passing /\ (Working(t)' => t = s)
        BY <3>2, <3>3 DEF Working, Passing
      <3> QED
        BY <3>1, <3>2, <3>4 DEF Phases
    <2> QED
      BY <2>1, <2>2, <2>3
  <1>14. ASSUME NEW s \in Signals, ShutdownStep(s) PROVE Phases'
    <2>1. CASE Drained(s)
      BY <1>1, <1>4, <2>1 DEF Drained, Passing, Working
    <2>2. CASE ShutdownStops(s)
      <3>1. caller[s].at \in Passing /\ Working(s) /\ UNCHANGED <<phase, shutting>>
        BY <2>2 DEF ShutdownStops, Stop, Passing, Working
      <3>2. \A q \in Requests : ~ caller[q].connected
        BY <3>1 DEF Phases
      <3> QED
        BY <1>1, <1>4, <2>2, <3>1, <3>2 DEF ShutdownStops, Stop, Passing
    <2>3. CASE ShutdownHookSettles(s)
      <3>1. caller[s].at \in Passing /\ Working(s) /\ UNCHANGED <<phase, shutting>>
        BY <2>3 DEF ShutdownHookSettles, Passing, Working
      <3>2. \A q \in Requests : ~ caller[q].connected
        BY <3>1 DEF Phases
      <3> QED
        BY <1>1, <1>4, <2>3, <3>1, <3>2 DEF ShutdownHookSettles, Passing
    <2>4. CASE ShutdownGoesOn(s)
      <3>1. caller[s].at \in Passing /\ Working(s) /\ shutting' = shutting
        BY <2>4 DEF ShutdownGoesOn, Passing, Working
      <3>2. \A q \in Requests : ~ caller[q].connected
        BY <3>1 DEF Phases
      <3>3. CASE caller[s].dep > 1
        <4>1. caller[s].dep - 1 \in 0 .. N
          BY <1>1, <3>3
        <4> QED
          BY <1>4, <2>4, <3>1, <3>2, <3>3, <4>1 DEF ShutdownGoesOn, Passing
      <3>4. CASE ~ (caller[s].dep > 1)
        <4>1. Answered(s) /\ phase' = "exited"
          BY <2>4, <3>4 DEF ShutdownGoesOn
        <4>2. /\ ~ Working(s)' /\ caller'[s].at \notin Passing
              /\ \A o \in Callers \ {s} : caller'[o] = caller[o] /\ (Working(o)' <=> Working(o))
          BY <1>1, <4>1, CallerAnswers DEF Idle, Working, Passing
        <4>3. \A t \in Signals : Working(t) => t = s
          BY <3>1 DEF Phases
        <4>4. \A t \in Signals : ~ Working(t)' /\ caller'[t].at \notin Passing
          BY <4>2, <4>3 DEF Working, Passing
        <4>5. ~ Working(Boot)'
          BY <1>1, <3>1, <4>2 DEF Phases
        <4> QED
          BY <4>1, <4>4, <4>5 DEF Phases
      <3> QED
        BY <3>3, <3>4
    <2> QED
      BY <1>14, <2>1, <2>2, <2>3, <2>4 DEF ShutdownStep
  <1>15. ASSUME TimeoutElapses PROVE Phases'
    BY <1>5, <1>15 DEF TimeoutElapses
  <1> QED
    BY <1>7, <1>8, <1>9, <1>10, <1>11, <1>12, <1>13, <1>14, <1>15 DEF Next, ProcessStep

-----------------------------------------------------------------------------
(* The operations on a dependency, and its resource.                       *)

\* A caller is at work on d.
On(c, d) == Working(c) /\ caller[c].dep = d

\* The shutdown has been at d, and has begun on it.
Behind(s, d) == caller[s].at \in Passing /\ d > caller[s].dep
Begun(s, d) == Behind(s, d) \/ (caller[s].at \in {"onStop", "stopped"} /\ caller[s].dep = d)
Done(s, d) == Behind(s, d) \/ (caller[s].at = "stopped" /\ caller[s].dep = d)

\* What no two operations were ever under way on has one request at work on it,
\* and none that a shutdown has begun on.
ApartOn(d) ==
    /\ \A q, r \in Requests : On(q, d) /\ On(r, d) => q = r
    /\ \A s \in Signals : Begun(s, d) => \A q \in Requests : ~ On(q, d)

Apart == \A d \in Deps \ overlapped : ApartOn(d)

LEMMA ApartOfStep ==
    ASSUME TypeOK, InPlace, Phases, Apart, Next
    PROVE  Apart'
  <1> USE CallersAreApart DEF Alive
  <1>1. /\ caller \in [Callers -> CallerRow]
        /\ \A c \in Callers : caller[c].dep \in 0 .. N
        /\ N \in 0 .. N /\ 0 \in 0 .. N /\ \A d \in Deps : d \in 0 .. N /\ d \in Int
        /\ phase \in {"booting", "listening", "closing"}
    BY RowTypes DEF Deps, Next
  \* Nobody comes to a dependency, and no shutdown goes further.
  <1>2. ASSUME overlapped \subseteq overlapped',
               \A q \in Requests, d \in Deps : On(q, d)' => On(q, d),
               \A s \in Signals, d \in Deps \ overlapped' : Begun(s, d)' => Begun(s, d)
        PROVE  Apart'
    BY <1>2 DEF Apart, ApartOn
  \* A request comes to a dependency, while no shutdown is under way.
  <1>3. ASSUME NEW q \in Requests, NEW here \in Places, NEW d \in Deps, At(q, here, d), Overlaps(q, d),
               phase = "listening"
        PROVE  Apart'
    <2>1. /\ \A o \in Callers \ {q} : caller'[o] = caller[o]
          /\ caller'[q].dep = d
      BY <1>1, <1>3, CallerGoesOn
    <2>2. \A s \in Signals : ~ Working(s)
      BY <1>3 DEF Phases
    <2>3. \A s \in Signals, e \in Deps : ~ Begun(s, e)'
      BY <2>1, <2>2 DEF Begun, Behind, Working, Passing
    <2>4. overlapped \subseteq overlapped'
      BY <1>3 DEF Overlaps
    <2>5. ASSUME NEW e \in Deps, e \notin overlapped', NEW x \in Requests, NEW y \in Requests,
                 On(x, e)', On(y, e)'
          PROVE  x = y
      <3>1. CASE x # q /\ y # q
        BY <2>1, <2>4, <2>5, <3>1 DEF Apart, ApartOn, On, Working
      <3>2. ASSUME NEW z \in Requests, z # q, On(q, e)', On(z, e)' PROVE FALSE
        <4>1. e = d /\ Working(z) /\ caller[z].dep = d
          BY <2>1, <3>2 DEF On, Working
        <4> QED
          BY <1>3, <2>5, <3>2, <4>1 DEF Overlaps
      <3> QED
        BY <2>5, <3>1, <3>2
    <2> QED
      BY <2>3, <2>5 DEF Apart, ApartOn
  \* A request goes on where it is, or is done.
  <1>4. ASSUME NEW q \in Requests, NEW here \in Places, At(q, here, caller[q].dep), Working(q),
               overlapped \subseteq overlapped'
        PROVE  Apart'
    <2>1. /\ \A o \in Callers \ {q} : caller'[o] = caller[o]
          /\ caller'[q].dep = caller[q].dep
      BY <1>1, <1>4, CallerGoesOn
    <2> QED
      BY <1>2, <1>4, <2>1 DEF On, Begun, Behind, Working
  <1>5. ASSUME NEW q \in Callers, Answered(q), overlapped' = overlapped
        PROVE  Apart'
    BY <1>1, <1>2, <1>5, CallerAnswers DEF Idle, On, Begun, Behind, Working, Passing
  \* A signal goes on to a dependency it has not begun on.
  <1>6. ASSUME NEW s \in Signals, NEW here \in Places, NEW d \in 0 .. N, At(s, here, d),
               overlapped \subseteq overlapped',
               \A e \in Deps \ overlapped' : Begun(s, e)' => Begun(s, e)
        PROVE  Apart'
    <2>1. \A o \in Callers \ {s} : caller'[o] = caller[o]
      BY <1>1, <1>6, CallerGoesOn
    <2> QED
      BY <1>2, <1>6, <2>1 DEF On, Begun, Behind, Working
  <1>7. ASSUME NEW c \in Callers, BeginStart(c) PROVE Apart'
    <2>1. c \notin Signals /\ Working(c) /\ overlapped \subseteq overlapped'
          /\ At(c, "onStart", caller[c].dep)
      BY <1>7 DEF BeginStart, InPlace, SignalAt, Working, Overlaps
    <2>2. CASE c \in Requests
      BY <1>4, <2>1, <2>2 DEF Places, Hooks
    <2>3. CASE c = Boot
      <3>1. \A o \in Callers \ {Boot} : caller'[o] = caller[o]
        BY <1>1, <2>1, <2>3, CallerGoesOn DEF Places, Hooks
      <3> QED
        BY <1>2, <2>1, <3>1 DEF On, Begun, Behind, Working
    <2> QED
      BY <2>1, <2>2, <2>3 DEF Callers
  <1>8. ASSUME BootSettles PROVE Apart'
    <2>1. overlapped' = overlapped
      BY <1>8 DEF BootSettles
    <2>2. CASE Answered(Boot)
      BY <1>5, <2>1, <2>2
    <2>3. CASE ~ Answered(Boot)
      <3>1. caller[Boot].dep < N /\ At(Boot, "starting", caller[Boot].dep + 1)
        BY <1>8, <2>3 DEF BootSettles
      <3>2. caller[Boot].dep + 1 \in 0 .. N
        BY <1>1, <3>1
      <3>3. \A o \in Callers \ {Boot} : caller'[o] = caller[o]
        BY <1>1, <3>1, <3>2, CallerGoesOn DEF Places
      <3> QED
        BY <1>2, <2>1, <3>3 DEF On, Begun, Behind, Working
    <2> QED
      BY <2>2, <2>3
  <1>9. ASSUME NEW q \in Requests, Call(q) PROVE Apart'
    <2>1. \A o \in Callers : caller'[o] = caller[o] \/ (o = q /\ caller'[o].dep = 0)
      BY <1>1, <1>9, CallRow DEF Call
    <2>2. \A d \in Deps : d # 0
      BY DEF Deps
    <2> QED
      BY <1>2, <1>9, <2>1, <2>2 DEF Call, On, Begun, Behind, Working
  <1>10. ASSUME NEW q \in Requests, CallSettles(q) \/ Disconnects(q) PROVE Apart'
    <2>1. /\ \A o \in Callers \ {q} : caller'[o].at = caller[o].at /\ caller'[o].dep = caller[o].dep
          /\ \/ caller'[q].at = "idle"
             \/ caller'[q].at = caller[q].at /\ caller'[q].dep = caller[q].dep
          /\ overlapped' = overlapped
      <3>1. CASE CallSettles(q)
        BY <1>1, <3>1, CallAnswers DEF Idle, CallSettles
      <3>2. CASE Disconnects(q)
        BY <1>1, <3>2, ClientLeaves DEF Disconnects
      <3> QED
        BY <1>10, <3>1, <3>2
    <2> QED
      BY <1>2, <2>1 DEF On, Begun, Behind, Working
  <1>11. ASSUME NEW q \in Requests, NEW d \in Deps, Restart(q, d) \/ Pause(q, d) \/ Resume(q, d)
         PROVE  Apart'
    BY <1>1, <1>3, <1>11 DEF Restart, Stop, Pause, Resume, BeginHook, Arrives, Places, Hooks
  <1>12. ASSUME NEW q \in Requests, StartRefused(q) \/ HookSettles(q) PROVE Apart'
    <2>1. Working(q) /\ overlapped' = overlapped
      BY <1>12 DEF StartRefused, HookSettles, Working
    <2>2. CASE Answered(q)
      BY <1>5, <2>1, <2>2
    <2>3. CASE ~ Answered(q)
      <3>1. At(q, "starting", caller[q].dep)
        <4>1. HookSettles(q)
          BY <1>12, <2>3 DEF StartRefused
        <4>2. caller[q].at = "onStop"
          BY <2>3, <4>1 DEF HookSettles
        <4> QED
          BY <2>3, <4>1, <4>2 DEF HookSettles
      <3> QED
        BY <1>4, <2>1, <3>1 DEF Places
    <2> QED
      BY <2>2, <2>3
  <1>13. ASSUME NEW s \in Signals, Signal(s) PROVE Apart'
    <2>1. overlapped' = overlapped
      BY <1>13 DEF Signal
    <2>2. CASE UNCHANGED caller
      BY <1>2, <2>1, <2>2 DEF On, Begun, Behind, Working
    <2>3. CASE At(s, "draining", 0)
      <3>1. caller'[s].at = "draining"
        BY <1>1, <2>3, CallerGoesOn DEF Places
      <3> QED
        BY <1>1, <1>6, <2>1, <2>3, <3>1 DEF Places, Begun, Behind, Passing
    <2> QED
      BY <1>13, <2>2, <2>3 DEF Signal
  <1>14. ASSUME NEW s \in Signals, Drained(s) PROVE Apart'
    <2>1. At(s, "stopping", N) /\ overlapped' = overlapped
      BY <1>14 DEF Drained
    <2>2. caller'[s].at = "stopping" /\ caller'[s].dep = N
      BY <1>1, <2>1, CallerGoesOn DEF Places
    <2>3. \A e \in Deps : ~ (e > N)
      BY DEF Deps
    <2> QED
      BY <1>1, <1>6, <2>1, <2>2, <2>3 DEF Places, Begun, Behind
  <1>15. ASSUME NEW s \in Signals, ShutdownStops(s) PROVE Apart'
    <2> DEFINE d == caller[s].dep
    <2>1. PICK here \in {"onStop", "stopped"} : At(s, here, d)
      BY <1>15 DEF ShutdownStops, Stop
    <2>2. Overlaps(s, d) /\ caller[s].at = "stopping" /\ d \in Deps /\ here \in Places
      BY <1>15 DEF ShutdownStops, Stop, InPlace, Away, Places, Hooks
    <2>3. /\ \A o \in Callers \ {s} : caller'[o] = caller[o]
          /\ caller'[s].at = here /\ caller'[s].dep = d
      BY <1>1, <2>1, <2>2, CallerGoesOn
    <2>4. overlapped \subseteq overlapped'
          /\ (d \notin overlapped' => \A q \in Requests : ~ On(q, d))
      BY <2>2 DEF Overlaps, On
    <2>5. \A q \in Requests, e \in Deps : On(q, e)' <=> On(q, e)
      BY <2>3 DEF On, Working
    <2>6. \A t \in Signals, e \in Deps : Begun(t, e)' => Begun(t, e) \/ e = d
      BY <2>2, <2>3 DEF Begun, Behind, Passing
    <2> HIDE DEF d
    <2> QED
      BY <2>4, <2>5, <2>6 DEF Apart, ApartOn
  <1>16. ASSUME NEW s \in Signals, ShutdownHookSettles(s) PROVE Apart'
    <2>1. At(s, "stopped", caller[s].dep) /\ overlapped' = overlapped /\ caller[s].at = "onStop"
      BY <1>16 DEF ShutdownHookSettles
    <2>2. caller'[s].at = "stopped" /\ caller'[s].dep = caller[s].dep
      BY <1>1, <2>1, CallerGoesOn DEF Places
    <2> QED
      BY <1>1, <1>6, <2>1, <2>2 DEF Places, Begun, Behind, Passing
  <1>17. ASSUME NEW s \in Signals, ShutdownGoesOn(s) PROVE Apart'
    <2>1. overlapped' = overlapped /\ caller[s].at = "stopped"
      BY <1>17 DEF ShutdownGoesOn
    <2>2. CASE Answered(s)
      BY <1>5, <2>1, <2>2
    <2>3. CASE ~ Answered(s)
      <3>1. At(s, "stopping", caller[s].dep - 1) /\ caller[s].dep > 1
        BY <1>17, <2>3 DEF ShutdownGoesOn
      <3>2. caller[s].dep - 1 \in 0 .. N
        BY <1>1, <3>1
      <3>3. caller'[s].at = "stopping" /\ caller'[s].dep = caller[s].dep - 1
        BY <1>1, <3>1, <3>2, CallerGoesOn DEF Places
      <3>4. \A e \in Deps : e > caller[s].dep - 1 => e = caller[s].dep \/ e > caller[s].dep
        BY <1>1
      <3>5. \A e \in Deps : Begun(s, e)' => Begun(s, e)
        BY <2>1, <3>3, <3>4 DEF Begun, Behind, Passing
      <3> QED
        BY <1>6, <2>1, <3>1, <3>2, <3>5 DEF Places
    <2> QED
      BY <2>2, <2>3
  <1>18. ASSUME TimeoutElapses PROVE Apart'
    BY <1>2, <1>18 DEF TimeoutElapses, On, Begun, Behind, Working
  <1> QED
    BY <1>7, <1>8, <1>9, <1>10, <1>11, <1>12, <1>13, <1>14, <1>15, <1>16, <1>17, <1>18
       DEF Next, ProcessStep, ShutdownStep

\* What the status of d tells of its resource: the second half only where no two
\* operations were ever under way on it.
ResourceOf(d) ==
    /\ status[d] = "stopped" => resource[d] # "held"
    /\ status[d] = "stopping" => \E c \in Callers : caller[c].at = "onStop" /\ caller[c].dep = d

ApartResourceOf(d) ==
    /\ status[d] \in {"running", "paused"} => resource[d] = "held"
    /\ \A q \in Requests :
            caller[q].at \in {"onPause", "onResume"} /\ caller[q].dep = d => resource[d] = "held"
    /\ \A s \in Signals : Done(s, d) => resource[d] # "held"

Resources == \A d \in Deps :
    /\ ResourceOf(d)
    /\ d \notin overlapped => ApartResourceOf(d)

\* An operation that settles says of its dependency what it has done to it.
LEMMA SettledResource ==
    ASSUME ProcessType, NEW d \in Deps, NEW next, NEW leaves, Settled(d, next, leaves)
    PROVE  /\ status'[d] = next /\ resource'[d] = leaves
           /\ \A e \in Deps \ {d} : status'[e] = status[e] /\ resource'[e] = resource[e]
  BY DEF ProcessType, Settled

\* A stop leaves nothing held, whether its hook resolves or rejects.
LEMMA StopLeaves ==
    ASSUME ProcessType, NEW d \in Deps, Released(d) \/ StopFailed(d)
    PROVE  \E leaves \in Resource : leaves # "held" /\ Settled(d, "stopped", leaves)
  BY DEF ProcessType, Resource, Released, StopFailed

LEMMA ResourcesOfStep ==
    ASSUME TypeOK, InPlace, Phases, Apart, Resources, Next
    PROVE  Resources'
  <1> USE CallersAreApart DEF Alive
  <1>1. /\ caller \in [Callers -> CallerRow]
        /\ ProcessType
        /\ \A c \in Callers : caller[c].dep \in 0 .. N
        /\ N \in 0 .. N /\ 0 \in 0 .. N /\ \A d \in Deps : d \in 0 .. N /\ d \in Int
        /\ phase \in {"booting", "listening", "closing"}
    BY RowTypes, TypeParts DEF Deps, Next
  \* Nothing about the dependencies changes, and nobody begins or ends there.
  <1>2. ASSUME UNCHANGED <<status, resource>>, overlapped \subseteq overlapped',
               \A c \in Callers, d \in Deps : caller[c].at = "onStop" /\ caller[c].dep = d
                    => caller'[c].at = "onStop" /\ caller'[c].dep = d,
               \A q \in Requests, d \in Deps :
                    caller'[q].at \in {"onPause", "onResume"} /\ caller'[q].dep = d
                    => caller[q].at \in {"onPause", "onResume"} /\ caller[q].dep = d,
               \A s \in Signals, d \in Deps : Done(s, d)' => Done(s, d)
        PROVE  Resources'
    BY <1>2 DEF Resources, ResourceOf, ApartResourceOf
  \* A request that settles is the only one at its dependency, and no shutdown
  \* has begun on it, unless operations overlapped there.
  <1>3. ASSUME NEW q \in Requests, NEW d \in Deps, NEW next, NEW leaves \in Resource,
               Working(q), caller[q].dep = d,
               Settled(d, next, leaves), overlapped' = overlapped,
               next # "stopping", next = "stopped" => leaves # "held",
               next \in {"running", "paused"} => leaves = "held" \/ d \in overlapped,
               \A o \in Callers \ {q} : caller'[o] = caller[o],
               caller'[q].at \notin {"onPause", "onResume"}
        PROVE  Resources'
    <2>1. /\ status'[d] = next /\ resource'[d] = leaves
          /\ \A e \in Deps \ {d} : status'[e] = status[e] /\ resource'[e] = resource[e]
      BY <1>1, <1>3, SettledResource
    <2>2. ASSUME NEW e \in Deps, e # d
          PROVE  ResourceOf(e)' /\ (e \notin overlapped' => ApartResourceOf(e)')
      <3>1. /\ status'[e] = status[e] /\ resource'[e] = resource[e]
            /\ \A c \in Callers : caller[c].dep = e => c # q
        BY <1>3, <2>1, <2>2
      <3> QED
        BY <1>3, <2>2, <3>1 DEF Resources, ResourceOf, ApartResourceOf, Done, Behind
    <2>3. ResourceOf(d)'
      BY <1>3, <2>1 DEF ResourceOf
    <2>4. d \notin overlapped' => ApartResourceOf(d)'
      <3> SUFFICES ASSUME d \notin overlapped PROVE ApartResourceOf(d)'
        BY <1>3
      <3>1. \A r \in Requests \ {q} : ~ On(r, d)
        BY <1>3 DEF Apart, ApartOn, On
      <3>2. \A s \in Signals : ~ Begun(s, d)
        BY <1>3 DEF Apart, ApartOn, On
      <3>3. \A r \in Requests : ~ (caller'[r].at \in {"onPause", "onResume"} /\ caller'[r].dep = d)
        BY <1>3, <3>1 DEF On, Working
      <3>4. \A s \in Signals : ~ Done(s, d)'
        BY <1>3, <3>2 DEF Begun, Done, Behind
      <3> QED
        BY <1>3, <2>1, <3>3, <3>4 DEF ApartResourceOf
    <2> QED
      BY <2>2, <2>3, <2>4 DEF Resources
  <1>4. ASSUME NEW c \in Callers, BeginStart(c) PROVE Resources'
    <2> DEFINE d == caller[c].dep
    <2>1. /\ d \in Deps /\ c \notin Signals
          /\ caller[c].at = "starting"
          /\ status' = [status EXCEPT ![d] = "starting"] /\ resource' = resource
          /\ overlapped \subseteq overlapped'
          /\ At(c, "onStart", d)
      BY <1>4 DEF BeginStart, InPlace, SignalAt, Away, Overlaps
    <2>2. /\ \A o \in Callers \ {c} : caller'[o] = caller[o]
          /\ caller'[c].at = "onStart" /\ caller'[c].dep = d
      BY <1>1, <2>1, CallerGoesOn DEF Places, Hooks
    <2>3. \A s \in Signals, e \in Deps : Done(s, e)' <=> Done(s, e)
      BY <2>1, <2>2 DEF Done, Behind
    <2>4. \A e \in Deps : status'[e] = status[e] \/ status'[e] = "starting"
      BY <1>1, <2>1 DEF ProcessType
    <2> HIDE DEF d
    <2> QED
      BY <2>1, <2>2, <2>3, <2>4 DEF Resources, ResourceOf, ApartResourceOf
  <1>5. ASSUME BootSettles PROVE Resources'
    <2>1. caller[Boot].dep \in Deps /\ Working(Boot) /\ overlapped' = overlapped
      BY <1>5 DEF BootSettles, InPlace, Away, Working
    <2>0. PICK d \in Deps : d = caller[Boot].dep
      BY <2>1
    <2>2. \A c \in Callers \ {Boot} : ~ Working(c)
      BY <2>1 DEF Phases
    <2>3. \/ Settled(d, "running", "held")
          \/ Settled(d, "error", resource[d])
      BY <1>5, <2>0 DEF BootSettles, Started, StartFailed
    <2>4. \A o \in Callers \ {Boot} : caller'[o] = caller[o]
      <3>1. CASE Answered(Boot)
        BY <1>1, <3>1, CallerAnswers
      <3>2. CASE ~ Answered(Boot)
        <4>1. caller[Boot].dep < N /\ At(Boot, "starting", caller[Boot].dep + 1)
          BY <1>5, <3>2 DEF BootSettles
        <4>2. caller[Boot].dep + 1 \in 0 .. N
          BY <1>1, <4>1
        <4> QED
          BY <1>1, <4>1, <4>2, CallerGoesOn DEF Places
      <3> QED
        BY <3>1, <3>2
    <2>5. /\ \A s \in Signals, e \in Deps : ~ Done(s, e)'
          /\ \A q \in Requests : caller'[q].at = "idle"
      BY <2>2, <2>4 DEF Done, Behind, Working, Passing
    <2>6. ASSUME NEW e \in Deps, e # d
          PROVE  ResourceOf(e)' /\ (e \notin overlapped' => ApartResourceOf(e)')
      <3>1. status'[e] = status[e] /\ resource'[e] = resource[e]
        BY <1>1, <2>3, <2>6, SettledResource
      <3>2. caller[Boot].at # "onStop"
        BY DEF InPlace, BootAt
      <3> QED
        BY <2>1, <2>4, <2>5, <2>6, <3>1, <3>2 DEF Resources, ResourceOf, ApartResourceOf
    <2>7. ResourceOf(d)' /\ ApartResourceOf(d)'
      <3>1. \/ status'[d] = "running" /\ resource'[d] = "held"
            \/ status'[d] = "error"
        BY <1>1, <2>3, SettledResource
      <3> QED
        BY <2>1, <2>5, <3>1 DEF ResourceOf, ApartResourceOf
    <2> QED
      BY <2>6, <2>7 DEF Resources
  <1>6. ASSUME NEW q \in Requests, Call(q) PROVE Resources'
    <2>1. \A o \in Callers : \/ caller'[o] = caller[o]
                             \/ o = q /\ caller'[o].at = "calling" /\ caller[o].at = "idle"
      <3>1. caller[q].at = "idle"
        BY <1>6 DEF Call, Arrives, Working
      <3> QED
        BY <1>1, <1>6, <3>1, CallRow DEF Call
    <2> QED
      BY <1>2, <1>6, <2>1 DEF Call, Done, Behind
  <1>7. ASSUME NEW q \in Requests, CallSettles(q) \/ Disconnects(q) PROVE Resources'
    <2>1. /\ \A o \in Callers \ {q} : caller'[o].at = caller[o].at /\ caller'[o].dep = caller[o].dep
          /\ \/ caller[q].at = "calling" /\ caller'[q].at = "idle"
             \/ caller'[q].at = caller[q].at /\ caller'[q].dep = caller[q].dep
          /\ UNCHANGED <<status, resource, overlapped>>
      <3>1. CASE CallSettles(q)
        BY <1>1, <3>1, CallAnswers DEF Idle, CallSettles
      <3>2. CASE Disconnects(q)
        BY <1>1, <3>2, ClientLeaves DEF Disconnects
      <3> QED
        BY <1>7, <3>1, <3>2
    <2> QED
      BY <1>2, <2>1 DEF Done, Behind
  <1>8. ASSUME NEW q \in Requests, NEW d \in Deps, Restart(q, d) PROVE Resources'
    <2>1. PICK here \in {"starting", "onStop"} :
            /\ At(q, here, d)
            /\ \/ status' = status
               \/ here = "onStop" /\ status' = [status EXCEPT ![d] = "stopping"]
            /\ resource' = resource /\ overlapped \subseteq overlapped'
            /\ caller[q].at = "idle"
      BY <1>8 DEF Restart, Stop, Overlaps, Arrives, Working
    <2>2. /\ \A o \in Callers \ {q} : caller'[o] = caller[o]
          /\ caller'[q].at = here /\ caller'[q].dep = d
      BY <1>1, <2>1, CallerGoesOn DEF Places, Hooks
    <2>3. \A s \in Signals, e \in Deps : Done(s, e)' <=> Done(s, e)
      BY <2>2 DEF Done, Behind
    <2>4. \A e \in Deps : \/ status'[e] = status[e]
                          \/ e = d /\ here = "onStop" /\ status'[e] = "stopping"
      <3>1. CASE status' = status
        BY <3>1
      <3>2. CASE here = "onStop" /\ status' = [status EXCEPT ![d] = "stopping"]
        BY <1>1, <3>2 DEF ProcessType
      <3> QED
        BY <2>1, <3>1, <3>2
    <2> QED
      BY <2>1, <2>2, <2>3, <2>4 DEF Resources, ResourceOf, ApartResourceOf
  <1>9. ASSUME NEW q \in Requests, NEW d \in Deps, Pause(q, d) \/ Resume(q, d) PROVE Resources'
    <2>1. PICK here \in {"onPause", "onResume"} :
            /\ At(q, here, d)
            /\ status[d] \in {"running", "paused"}
            /\ UNCHANGED <<status, resource>> /\ overlapped \subseteq overlapped'
            /\ caller[q].at = "idle"
      BY <1>9 DEF Pause, Resume, BeginHook, Overlaps, Arrives, Working
    <2>2. /\ \A o \in Callers \ {q} : caller'[o] = caller[o]
          /\ caller'[q].at = here /\ caller'[q].dep = d
      BY <1>1, <2>1, CallerGoesOn DEF Places, Hooks
    <2>3. \A s \in Signals, e \in Deps : Done(s, e)' <=> Done(s, e)
      BY <2>2 DEF Done, Behind
    <2> QED
      BY <2>1, <2>2, <2>3 DEF Resources, ResourceOf, ApartResourceOf
  <1>10. ASSUME NEW q \in Requests, StartRefused(q) PROVE Resources'
    BY <1>1, <1>2, <1>10, CallerAnswers DEF StartRefused, Idle, Done, Behind
  <1>11. ASSUME NEW q \in Requests, HookSettles(q) PROVE Resources'
    <2> DEFINE d == caller[q].dep
    <2>1. /\ d \in Deps /\ Working(q) /\ overlapped' = overlapped
          /\ resource[d] \in Resource
      BY <1>1, <1>11 DEF HookSettles, InPlace, Away, Working, ProcessType
    <2>2. /\ \A o \in Callers \ {q} : caller'[o] = caller[o]
          /\ caller'[q].at \in {"idle", "starting"}
      <3>1. CASE Answered(q)
        BY <1>1, <3>1, CallerAnswers DEF Idle
      <3>2. CASE ~ Answered(q)
        <4>1. caller[q].at = "onStop"
          BY <1>11, <3>2 DEF HookSettles
        <4>2. At(q, "starting", d)
          BY <1>11, <3>2, <4>1 DEF HookSettles
        <4> QED
          BY <1>1, <4>2, CallerGoesOn DEF Places
      <3> QED
        BY <3>1, <3>2
    <2>3. PICK next \in {"running", "paused", "stopped", "error"}, leaves \in Resource :
            /\ Settled(d, next, leaves)
            /\ next = "stopped" => leaves # "held"
            /\ next \in {"running", "paused"} => leaves = "held" \/ d \in overlapped
      <3>1. CASE caller[q].at = "onStart"
        <4>1. Started(d) \/ StartFailed(d)
          BY <1>11, <3>1 DEF HookSettles
        <4> HIDE DEF d
        <4>2. Settled(d, "running", "held") \/ Settled(d, "error", resource[d])
          BY <4>1 DEF Started, StartFailed
        <4> QED
          BY <2>1, <4>2 DEF Resource
      <3>2. CASE caller[q].at = "onStop"
        <4>1. Released(d) \/ StopFailed(d)
          BY <1>11, <3>2 DEF HookSettles
        <4> HIDE DEF d
        <4> QED
          BY <1>1, <2>1, <4>1, StopLeaves
      <3>3. CASE caller[q].at \in {"onPause", "onResume"}
        <4>1. resource[d] = "held" \/ d \in overlapped
          BY <2>1, <3>3 DEF Resources, ApartResourceOf
        <4>2. \E next \in {"paused", "running", "error"} : Settled(d, next, resource[d])
          BY <1>11, <3>3 DEF HookSettles
        <4> HIDE DEF d
        <4> QED
          BY <2>1, <4>1, <4>2
      <3> QED
        BY <1>11, <3>1, <3>2, <3>3 DEF HookSettles
    <2> HIDE DEF d
    <2>4. d = caller[q].dep
      BY DEF d
    <2> QED
      BY <1>3, <2>1, <2>2, <2>3, <2>4
  <1>12. ASSUME NEW s \in Signals, Signal(s) PROVE Resources'
    <2>1. UNCHANGED <<status, resource, overlapped>>
      BY <1>12 DEF Signal
    <2>2. CASE UNCHANGED caller
      BY <1>2, <2>1, <2>2 DEF Done, Behind
    <2>3. CASE ~ UNCHANGED caller
      <3>1. At(s, "draining", 0) /\ ~ shutting
        BY <1>12, <2>3 DEF Signal
      <3>2. /\ caller'[s].at = "draining"
            /\ \A o \in Callers \ {s} : caller'[o] = caller[o]
            /\ caller[s].at = "idle"
        BY <1>1, <3>1, CallerGoesOn DEF Places, Phases, Working
      <3> QED
        BY <1>2, <2>1, <3>2 DEF Done, Behind, Passing
    <2> QED
      BY <2>2, <2>3
  <1>13. ASSUME NEW s \in Signals, Drained(s) PROVE Resources'
    <2>1. At(s, "stopping", N) /\ UNCHANGED <<status, resource, overlapped>> /\ caller[s].at = "draining"
      BY <1>13 DEF Drained
    <2>2. /\ caller'[s].at = "stopping" /\ caller'[s].dep = N
          /\ \A o \in Callers \ {s} : caller'[o] = caller[o]
      BY <1>1, <2>1, CallerGoesOn DEF Places
    <2>3. \A e \in Deps : ~ (e > N)
      BY DEF Deps
    <2> QED
      BY <1>2, <2>1, <2>2, <2>3 DEF Done, Behind
  <1>14. ASSUME NEW s \in Signals, ShutdownStops(s) PROVE Resources'
    <2> DEFINE d == caller[s].dep
    <2>1. /\ caller[s].at = "stopping" /\ d \in Deps /\ resource' = resource
          /\ overlapped \subseteq overlapped' /\ Overlaps(s, d)
      BY <1>14 DEF ShutdownStops, Stop, InPlace, Away, Overlaps
    <2>2. CASE status[d] \in {"stopped", "stopping"}
      <3>1. At(s, "stopped", d) /\ status' = status
        BY <1>14, <2>2 DEF ShutdownStops, Stop
      <3>2. /\ caller'[s].at = "stopped" /\ caller'[s].dep = d
            /\ \A o \in Callers \ {s} : caller'[o] = caller[o]
        BY <1>1, <3>1, CallerGoesOn DEF Places
      <3>3. d \notin overlapped' => resource[d] # "held"
        <4>1. CASE status[d] = "stopped"
          BY <2>1, <4>1 DEF Resources, ResourceOf
        <4>2. CASE status[d] = "stopping"
          <5>1. PICK c \in Callers : caller[c].at = "onStop" /\ caller[c].dep = d
            BY <2>1, <4>2 DEF Resources, ResourceOf
          <5>2. c # s /\ Working(c)
            BY <2>1, <5>1 DEF Working
          <5> QED
            BY <2>1, <5>1, <5>2 DEF Overlaps
        <4> QED
          BY <2>2, <4>1, <4>2
      <3>4. \A t \in Signals, e \in Deps : Done(t, e)' => Done(t, e) \/ e = d
        BY <2>1, <3>2 DEF Done, Behind, Passing
      <3> HIDE DEF d
      <3> QED
        BY <2>1, <3>1, <3>2, <3>3, <3>4 DEF Resources, ResourceOf, ApartResourceOf
    <2>3. CASE status[d] \notin {"stopped", "stopping"}
      <3>1. At(s, "onStop", d) /\ status' = [status EXCEPT ![d] = "stopping"]
        BY <1>14, <2>3 DEF ShutdownStops, Stop
      <3>2. /\ caller'[s].at = "onStop" /\ caller'[s].dep = d
            /\ \A o \in Callers \ {s} : caller'[o] = caller[o]
        BY <1>1, <3>1, CallerGoesOn DEF Places, Hooks
      <3>3. \A t \in Signals, e \in Deps : Done(t, e)' => Done(t, e)
        BY <2>1, <3>2 DEF Done, Behind, Passing
      <3>4. \A e \in Deps : status'[e] = status[e] \/ (e = d /\ status'[e] = "stopping")
        BY <1>1, <3>1 DEF ProcessType
      <3> HIDE DEF d
      <3> QED
        BY <2>1, <3>2, <3>3, <3>4 DEF Resources, ResourceOf, ApartResourceOf
    <2> QED
      BY <2>2, <2>3
  <1>15. ASSUME NEW s \in Signals, ShutdownHookSettles(s) PROVE Resources'
    <2>0. PICK d \in Deps : d = caller[s].dep
      BY <1>15 DEF ShutdownHookSettles, InPlace, Away
    <2>1. /\ caller[s].at = "onStop" /\ caller[s].dep = d /\ overlapped' = overlapped
          /\ Released(d) \/ StopFailed(d)
          /\ At(s, "stopped", d)
      BY <1>15, <2>0 DEF ShutdownHookSettles
    <2>9. PICK leaves \in Resource : leaves # "held" /\ Settled(d, "stopped", leaves)
      BY <1>1, <2>0, <2>1, StopLeaves
    <2>2. /\ caller'[s].at = "stopped" /\ caller'[s].dep = d
          /\ \A o \in Callers \ {s} : caller'[o] = caller[o]
      BY <1>1, <2>1, CallerGoesOn DEF Places
    <2>3. /\ status'[d] = "stopped" /\ resource'[d] # "held"
          /\ \A e \in Deps \ {d} : status'[e] = status[e] /\ resource'[e] = resource[e]
      BY <1>1, <2>0, <2>9, SettledResource
    <2>4. \A t \in Signals, e \in Deps : Done(t, e)' => Done(t, e) \/ e = d
      BY <2>1, <2>2 DEF Done, Behind, Passing
    <2>5. d \notin overlapped => \A q \in Requests : ~ On(q, d)
      BY <2>1 DEF Apart, ApartOn, Begun
    <2>6. \A c \in Callers, e \in Deps \ {d} : caller[c].at = "onStop" /\ caller[c].dep = e
                => caller'[c] = caller[c]
      BY <2>1, <2>2
    <2>7. ASSUME NEW e \in Deps, e # d
          PROVE  ResourceOf(e)' /\ (e \notin overlapped' => ApartResourceOf(e)')
      BY <2>1, <2>2, <2>3, <2>4, <2>6, <2>7 DEF Resources, ResourceOf, ApartResourceOf
    <2>8. ResourceOf(d)' /\ (d \notin overlapped' => ApartResourceOf(d)')
      BY <2>1, <2>2, <2>3, <2>5 DEF ResourceOf, ApartResourceOf, On, Working
    <2> QED
      BY <2>7, <2>8 DEF Resources
  <1>16. ASSUME NEW s \in Signals, ShutdownGoesOn(s) PROVE Resources'
    <2>1. UNCHANGED <<status, resource, overlapped>> /\ caller[s].at = "stopped"
      BY <1>16 DEF ShutdownGoesOn
    <2>2. CASE Answered(s)
      BY <1>1, <1>2, <2>1, <2>2, CallerAnswers DEF Idle, Done, Behind, Passing
    <2>3. CASE ~ Answered(s)
      <3>1. At(s, "stopping", caller[s].dep - 1) /\ caller[s].dep > 1
        BY <1>16, <2>3 DEF ShutdownGoesOn
      <3>2. caller[s].dep - 1 \in 0 .. N
        BY <1>1, <3>1
      <3>3. /\ caller'[s].at = "stopping" /\ caller'[s].dep = caller[s].dep - 1
            /\ \A o \in Callers \ {s} : caller'[o] = caller[o]
        BY <1>1, <3>1, <3>2, CallerGoesOn DEF Places
      <3>4. \A e \in Deps : e > caller[s].dep - 1 => e = caller[s].dep \/ e > caller[s].dep
        BY <1>1
      <3>5. \A t \in Signals, e \in Deps : Done(t, e)' => Done(t, e)
        BY <2>1, <3>3, <3>4 DEF Done, Behind, Passing
      <3> QED
        BY <1>2, <2>1, <3>3, <3>5
    <2> QED
      BY <2>2, <2>3
  <1>17. ASSUME TimeoutElapses PROVE Resources'
    BY <1>2, <1>17 DEF TimeoutElapses, Done, Behind
  <1> QED
    BY <1>4, <1>5, <1>6, <1>7, <1>8, <1>9, <1>10, <1>11, <1>12, <1>13, <1>14, <1>15, <1>16, <1>17
       DEF Next, ProcessStep, ShutdownStep

-----------------------------------------------------------------------------
(* The invariant.                                                          *)

RuntimeInv ==
    TypeOK /\ InPlace /\ CircuitFollowsItsCalls /\ Phases /\ Apart /\ Resources

LEMMA InitRuntime == Init => RuntimeInv
  <1> SUFFICES ASSUME Init PROVE RuntimeInv
    OBVIOUS
  <1> USE CallersAreApart
  <1>1. /\ caller[Boot] = [Idle EXCEPT !.at = "starting", !.dep = 1]
        /\ \A c \in Callers \ {Boot} : caller[c] = Idle
    BY DEF Init
  <1>2. [Idle EXCEPT !.at = "starting", !.dep = 1]
            = [at |-> "starting", dep |-> 1, connected |-> FALSE, opened |-> FALSE]
    <2> DEFINE y == [Idle EXCEPT !.at = "starting", !.dep = 1]
    <2>1. y.at = "starting" /\ y.dep = 1 /\ y.connected = FALSE /\ y.opened = FALSE
      BY DEF Idle
    <2>2. /\ DOMAIN y = {"at", "dep", "connected", "opened"}
          /\ y = [i \in DOMAIN y |-> y[i]]
      BY DEF Idle
    <2> HIDE DEF y
    <2>3. y = [at |-> "starting", dep |-> 1, connected |-> FALSE, opened |-> FALSE]
      BY <2>1, <2>2
    <2> QED
      BY <2>3 DEF y
  <1>3. 1 \in Deps /\ 1 \in 0 .. N /\ 0 \in 0 .. N
    BY DEF Deps
  <1>4. caller \in [Callers -> CallerRow]
    <2>1. \A c \in Callers : caller[c] \in CallerRow
      <3>1. Idle \in CallerRow
        BY <1>3 DEF Idle, CallerRow, Places
      <3>2. [at |-> "starting", dep |-> 1, connected |-> FALSE, opened |-> FALSE] \in CallerRow
        BY <1>3 DEF CallerRow, Places
      <3> QED
        BY <1>1, <1>2, <3>1, <3>2
    <2>2. caller = [c \in Callers |-> caller[c]]
      BY DEF Init
    <2> QED
      BY <2>1, <2>2
  <1>5. ProcessType /\ CircuitType
    <2>1. NewBreaker \in Breaker
      BY DEF Breaker, NewBreaker
    <2>2. CircuitType
      BY <2>1 DEF Init, CircuitType
    <2>3. ProcessType
      BY DEF Init, ProcessType, Resource
    <2> QED
      BY <2>2, <2>3
  <1>6. InPlace
    BY <1>1, <1>2, <1>3 DEF InPlace, Idle, BootAt, RequestAt, SignalAt, Away
  <1>7. \A c \in Callers \ {Boot} : ~ Working(c) /\ ~ caller[c].connected
                                     /\ caller[c].at = "idle"
    BY <1>1 DEF Idle, Working
  <1>8. Working(Boot) /\ phase = "booting"
    BY <1>1, <1>2 DEF Init, Working
  <1>9. Phases
    BY <1>7, <1>8 DEF Phases, Passing
  <1>10. CircuitFollowsItsCalls
    BY <1>7 DEF Init, NewBreaker, CircuitFollowsItsCalls
  <1>11. Apart
    BY <1>7 DEF Apart, ApartOn, On, Begun, Behind, Passing
  <1>12. \A d \in Deps : status[d] = "stopped" /\ resource[d] = "released"
    BY DEF Init
  <1>13. Resources
    BY <1>7, <1>12 DEF Resources, ResourceOf, ApartResourceOf, Done, Behind, Passing
  <1> QED
    BY <1>4, <1>5, <1>6, <1>9, <1>10, <1>11, <1>13, TypeParts DEF RuntimeInv

LEMMA StepRuntime == RuntimeInv /\ [Next]_vars => RuntimeInv'
  <1> SUFFICES ASSUME RuntimeInv, [Next]_vars PROVE RuntimeInv'
    OBVIOUS
  <1>1. TypeOK' /\ CircuitFollowsItsCalls'
    <2>1. CircuitType' /\ CircuitFollowsItsCalls' /\ (caller \in [Callers -> CallerRow])'
      BY CircuitOfStep DEF RuntimeInv
    <2>2. ProcessType'
      BY ProcessTypeOfStep DEF RuntimeInv
    <2> QED
      BY <2>1, <2>2 DEF TypeOK, CircuitType, ProcessType, Resource, CallerRow, Places
  <1>2. InPlace'
    BY PlacesOfStep DEF RuntimeInv
  <1>3. CASE Next
    BY <1>1, <1>2, <1>3, PhasesOfStep, ApartOfStep, ResourcesOfStep DEF RuntimeInv
  <1>4. CASE UNCHANGED vars
    BY <1>1, <1>2, <1>4 DEF RuntimeInv, Phases, Apart, ApartOn, Resources, ResourceOf,
       ApartResourceOf, On, Begun, Done, Behind, Working, vars
  <1> QED
    BY <1>3, <1>4

LEMMA RuntimeInvHolds == Spec => []RuntimeInv
  BY InitRuntime, StepRuntime, PTL DEF Spec

\* Every variable keeps its type: the counter of the breaker stays below its
\* threshold, and a shutdown never walks past the first dependency.
THEOREM RuntimeTypes == Spec => []TypeOK
  BY RuntimeInvHolds, PTL DEF RuntimeInv

\* A circuit tells its calls, however late they settle and whatever happened to
\* it meanwhile: closed, it has counted each failure since the last success, and
\* open, it has let through nothing that is still under way.
THEOREM CircuitFollows == Spec => []CircuitFollowsItsCalls
  BY RuntimeInvHolds, PTL DEF RuntimeInv

\* A dependency that says running or paused holds its resource, as long as no two
\* operations were under way on it at once.
THEOREM StatusTells == Spec => []StatusTellsTheResource
  <1>1. RuntimeInv => StatusTellsTheResource
    BY DEF RuntimeInv, Resources, ApartResourceOf, StatusTellsTheResource
  <1> QED
    BY <1>1, RuntimeInvHolds, PTL

\* A shutdown comes to a dependency with no client left, and after every one
\* registered behind it has given its resource back or failed to, for any number
\* of them; what is held behind it was brought back by an operation that
\* overlapped with it.
THEOREM ShutdownInOrder == Spec => []ShutdownOrder
  <1>1. RuntimeInv => ShutdownOrder
    <2> SUFFICES ASSUME RuntimeInv, NEW s \in Signals, caller[s].at \in Passing
                 PROVE  /\ \A q \in Requests : ~ caller[q].connected
                        /\ \A d \in caller[s].dep + 1 .. N :
                                resource[d] \in {"released", "unreleased"} \/ d \in overlapped
      BY DEF ShutdownOrder, Passing
    <2>1. caller[s].dep \in 0 .. N
      BY RowTypes, CallersAreApart DEF RuntimeInv
    <2>2. \A d \in caller[s].dep + 1 .. N : d \in Deps /\ Done(s, d)
      BY <2>1 DEF Deps, Done, Behind
    <2>3. \A d \in Deps : resource[d] \in {"released", "held", "unreleased"}
      BY DEF RuntimeInv, TypeOK
    <2> QED
      BY <2>2, <2>3 DEF RuntimeInv, Phases, Resources, ApartResourceOf
  <1> QED
    BY <1>1, RuntimeInvHolds, PTL
=============================================================================
