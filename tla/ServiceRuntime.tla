--------------------------- MODULE ServiceRuntime ---------------------------
(***************************************************************************)
(* The process a service runs in: its dependencies are started in order,   *)
(* requests then come in over connections and call upstream through the    *)
(* circuit breaker or drive the lifecycle of a dependency from the control *)
(* plane, and a signal closes the server, waits for the connections and    *)
(* stops the dependencies in reverse.                                      *)
(*                                                                         *)
(* One thread runs it all and gives way at each await: a step is what      *)
(* happens between two of them.  A caller of start, stop, pause or resume  *)
(* waits on the hook of the dependency, whose status others may change     *)
(* meanwhile.                                                              *)
(***************************************************************************)
EXTENDS CircuitBreaker

CONSTANTS
    N,          \* the dependencies are 1 .. N, in registration order
    Requests,
    Signals,    \* that start a shutdown
    Once        \* those of them whose handler is registered once

Boot == "boot"

ASSUME RuntimeAssumption ==
    /\ N \in Nat \ {0}
    /\ Once \subseteq Signals
    /\ Requests \cap Signals = {}
    /\ Boot \notin Requests \cup Signals

VARIABLES
    status,     \* of each dependency
    resource,   \* of each: what its onStart acquired, and whether an onStop gave it back
    overlapped, \* the dependencies two operations were ever under way on (history)
    phase,      \* of the process
    shutting,
    handled,    \* the signals whose handler has run
    breaker,
    streak,     \* calls failed since the last that succeeded (history)
    caller      \* what each request, each shutdown and the boot are doing

vars == <<status, resource, overlapped, phase, shutting, handled, breaker, streak, caller>>

Deps == 1 .. N
Callers == Requests \cup Signals \cup {Boot}

Hooks == {"onStart", "onStop", "onPause", "onResume"}

Idle == [at |-> "idle", dep |-> 0, connected |-> FALSE, opened |-> FALSE]

Init ==
    /\ status = [d \in Deps |-> "stopped"]
    /\ resource = [d \in Deps |-> "released"]
    /\ overlapped = {}
    /\ phase = "booting"
    /\ shutting = FALSE
    /\ handled = {}
    /\ breaker = NewBreaker
    /\ streak = 0
    /\ caller = [c \in Callers |-> IF c = Boot
                                   THEN [Idle EXCEPT !.at = "starting", !.dep = 1] ELSE Idle]

Alive == phase \in {"booting", "listening", "closing"}
Working(c) == caller[c].at # "idle"

\* A caller is at a place and about a dependency, a request on its connection.
At(c, here, d) ==
    caller' = [caller EXCEPT ![c].at = here, ![c].dep = d,
                             ![c].connected = @ \/ (c \in Requests /\ ~ Working(c))]

\* A request that has answered leaves its connection.
Answered(c) == caller' = [caller EXCEPT ![c] = Idle]

\* Another operation is under way on d, a restart between its two halves included.
Overlaps(c, d) ==
    overlapped' = overlapped \cup
        {e \in {d} : \E o \in Callers \ {c} : Working(o) /\ caller[o].dep = d}
-----------------------------------------------------------------------------
\* start(): refused from running and starting, and from nowhere else.
Startable(d) == status[d] \notin {"running", "starting"}

BeginStart(c) ==
    LET d == caller[c].dep
    IN  /\ caller[c].at = "starting"
        /\ Startable(d)
        /\ status' = [status EXCEPT ![d] = "starting"]
        /\ At(c, "onStart", d)
        /\ Overlaps(c, d)
        /\ UNCHANGED <<resource, phase, shutting, handled, breaker, streak>>

\* stop(): the hook is awaited where the dependency is neither stopped nor
\* stopping, and the caller goes on to "then" at once where it is.
Stop(c, d, then) ==
    /\ IF status[d] \in {"stopped", "stopping"}
       THEN At(c, then, d) /\ UNCHANGED status
       ELSE At(c, "onStop", d) /\ status' = [status EXCEPT ![d] = "stopping"]
    /\ Overlaps(c, d)
    /\ UNCHANGED <<resource, phase, shutting, handled, breaker, streak>>

\* What a hook settles: whoever else wrote the status meanwhile is overwritten.
Settled(d, next, leaves) ==
    /\ status' = [status EXCEPT ![d] = next]
    /\ resource' = [resource EXCEPT ![d] = leaves]

\* An onStart that rejects acquires nothing.  An onStop that rejects gives nothing
\* back, and its dependency is stopped like another.
Started(d) == Settled(d, "running", "held")
StartFailed(d) == Settled(d, "error", resource[d])
Released(d) == Settled(d, "stopped", "released")
StopFailed(d) ==
    Settled(d, "stopped", IF resource[d] = "held" THEN "unreleased" ELSE resource[d])

\* The first await of createService: the dependencies come up one by one, the
\* server listens after the last, and one that fails ends the process.
BootSettles ==
    LET d == caller[Boot].dep
    IN  /\ caller[Boot].at = "onStart"
        /\ \/ /\ Started(d)
              /\ IF d < N THEN At(Boot, "starting", d + 1) /\ UNCHANGED phase
                 ELSE Answered(Boot) /\ phase' = "listening"
           \/ /\ StartFailed(d)
              /\ Answered(Boot)
              /\ phase' = "aborted"
        /\ UNCHANGED <<overlapped, shutting, handled, breaker, streak>>
-----------------------------------------------------------------------------
\* A request arrives on a connection while the server takes them.
Arrives(q) == phase = "listening" /\ q \in Requests /\ ~ Working(q)

\* breaker.call: refused while open, and otherwise awaited, its retries included.
Call(q) ==
    /\ Arrives(q)
    /\ breaker' = CheckTimeout(breaker)
    /\ IF LetsThrough(breaker)
       THEN caller' = [caller EXCEPT ![q] = [Idle EXCEPT !.at = "calling", !.connected = TRUE]]
       ELSE UNCHANGED caller
    /\ UNCHANGED <<status, resource, overlapped, phase, shutting, handled, streak>>

\* The call settles, and the circuit hears of it whatever it has become.
CallSettles(q) ==
    /\ q \in Requests /\ caller[q].at = "calling"
    /\ \/ /\ breaker' = OnSuccess(breaker)
          /\ streak' = 0
          /\ Answered(q)
       \/ /\ breaker' = OnFailure(breaker)
          /\ streak' = IF streak < BreakerThreshold THEN streak + 1 ELSE streak
          /\ caller' = [c \in Callers |->
                IF c = q THEN Idle
                ELSE IF breaker'.state = "open" /\ caller[c].at = "calling"
                     THEN [caller[c] EXCEPT !.opened = TRUE] ELSE caller[c]]
    /\ UNCHANGED <<status, resource, overlapped, phase, shutting, handled>>

TimeoutElapses ==
    /\ breaker.state = "open" /\ ~ breaker.elapsed
    /\ breaker' = TimeoutElapsed(breaker)
    /\ UNCHANGED <<status, resource, overlapped, phase, shutting, handled, streak, caller>>

\* The restart route stops, awaits, and starts.
Restart(q, d) == Arrives(q) /\ Stop(q, d, "starting")

\* Mutant: pauses and resumes from any status.
BeginHookUnchecked(q, d, from, hook) ==
    /\ Arrives(q)
    /\ At(q, hook, d)
    /\ Overlaps(q, d)
    /\ UNCHANGED <<status, resource, phase, shutting, handled, breaker, streak>>

\* pause() and resume(): refused from any status but one, read before the await.
BeginHook(q, d, from, hook) ==
    /\ Arrives(q)
    /\ status[d] = from
    /\ At(q, hook, d)
    /\ Overlaps(q, d)
    /\ UNCHANGED <<status, resource, phase, shutting, handled, breaker, streak>>

Pause(q, d) == BeginHook(q, d, "running", "onPause")
Resume(q, d) == BeginHook(q, d, "paused", "onResume")

\* start() throws under a restart that finds it started, and the route answers.
StartRefused(q) ==
    /\ q \in Requests
    /\ caller[q].at = "starting" /\ ~ Startable(caller[q].dep)
    /\ Answered(q)
    /\ UNCHANGED <<status, resource, overlapped, phase, shutting, handled, breaker, streak>>

HookSettles(q) ==
    LET d == caller[q].dep
    IN  /\ q \in Requests
        /\ CASE caller[q].at = "onStart" ->
                    /\ Started(d) \/ StartFailed(d)
                    /\ Answered(q)
             [] caller[q].at = "onStop" ->
                    \/ Released(d) /\ At(q, "starting", d)
                    \/ StopFailed(d) /\ Answered(q)
             [] caller[q].at = "onPause" ->
                    /\ Settled(d, "paused", resource[d]) \/ Settled(d, "error", resource[d])
                    /\ Answered(q)
             [] caller[q].at = "onResume" ->
                    /\ Settled(d, "running", resource[d]) \/ Settled(d, "error", resource[d])
                    /\ Answered(q)
             [] OTHER -> FALSE
        /\ UNCHANGED <<overlapped, phase, shutting, handled, breaker, streak>>

\* The client goes away, and the handler does not hear of it.
Disconnects(q) ==
    /\ q \in Requests /\ caller[q].connected
    /\ caller' = [caller EXCEPT ![q].connected = FALSE]
    /\ UNCHANGED <<status, resource, overlapped, phase, shutting, handled, breaker, streak>>
-----------------------------------------------------------------------------
\* A signal starts one shutdown; one whose handler was registered once and has
\* run is not handled again, and ends the process.
Signal(s) ==
    /\ phase \in {"listening", "closing"}
    /\ IF s \in handled \cap Once
       THEN phase' = "killed" /\ UNCHANGED <<shutting, handled, caller>>
       ELSE /\ handled' = handled \cup {s}
            /\ shutting' = TRUE
            /\ IF shutting THEN UNCHANGED <<phase, caller>>
               ELSE phase' = "closing" /\ At(s, "draining", 0)
    /\ UNCHANGED <<status, resource, overlapped, breaker, streak>>

\* Mutant: goes on without awaiting server.close.
DrainedAtOnce(s) ==
    /\ caller[s].at = "draining"
    /\ At(s, "stopping", N)
    /\ UNCHANGED <<status, resource, overlapped, phase, shutting, handled, breaker, streak>>

\* server.close resolves when the last connection has gone: the timer that would
\* close them is armed after that.
Drained(s) ==
    /\ caller[s].at = "draining"
    /\ \A q \in Requests : ~ caller[q].connected
    /\ At(s, "stopping", N)
    /\ UNCHANGED <<status, resource, overlapped, phase, shutting, handled, breaker, streak>>

\* Mutant: goes on without awaiting dep.stop.
StopsUnawaited(s) ==
    /\ caller[s].at = "stopping"
    /\ status' = [status EXCEPT ![caller[s].dep] = "stopping"]
    /\ At(s, "stopped", caller[s].dep)
    /\ Overlaps(s, caller[s].dep)
    /\ UNCHANGED <<resource, phase, shutting, handled, breaker, streak>>

\* The dependency is stopped, and the shutdown waits on its hook.
ShutdownStops(s) == caller[s].at = "stopping" /\ Stop(s, caller[s].dep, "stopped")

\* A stop that failed is logged, and the shutdown goes on.
ShutdownHookSettles(s) ==
    /\ caller[s].at = "onStop"
    /\ Released(caller[s].dep) \/ StopFailed(caller[s].dep)
    /\ At(s, "stopped", caller[s].dep)
    /\ UNCHANGED <<overlapped, phase, shutting, handled, breaker, streak>>

\* On to the dependency registered before it, and out after the first.
ShutdownGoesOn(s) ==
    /\ caller[s].at = "stopped"
    /\ IF caller[s].dep > 1
       THEN At(s, "stopping", caller[s].dep - 1) /\ UNCHANGED phase
       ELSE Answered(s) /\ phase' = "exited"
    /\ UNCHANGED <<status, resource, overlapped, shutting, handled, breaker, streak>>

ShutdownStep(s) ==
    Drained(s) \/ ShutdownStops(s) \/ ShutdownHookSettles(s) \/ ShutdownGoesOn(s)

\* The steps the process takes by itself; a call may stay unanswered for ever.
ProcessStep ==
    \/ \E c \in Callers : BeginStart(c)
    \/ BootSettles
    \/ \E q \in Requests : StartRefused(q) \/ HookSettles(q)
    \/ \E s \in Signals : ShutdownStep(s)

Next ==
    /\ Alive
    /\ \/ ProcessStep
       \/ \E q \in Requests :
            \/ Call(q) \/ CallSettles(q) \/ Disconnects(q)
            \/ \E d \in Deps : Restart(q, d) \/ Pause(q, d) \/ Resume(q, d)
       \/ \E s \in Signals : Signal(s)
       \/ TimeoutElapses

Spec == Init /\ [][Next]_vars

FairSpec == Spec /\ WF_vars(Alive /\ ProcessStep)
-----------------------------------------------------------------------------
TypeOK ==
    /\ status \in [Deps -> {"stopped", "starting", "running", "paused", "stopping", "error"}]
    /\ resource \in [Deps -> {"released", "held", "unreleased"}]
    /\ overlapped \subseteq Deps
    /\ phase \in {"booting", "listening", "closing", "aborted", "exited", "killed"}
    /\ shutting \in BOOLEAN
    /\ handled \subseteq Signals
    /\ breaker \in Breaker
    /\ streak \in 0 .. BreakerThreshold
    /\ caller \in [Callers -> [at : {"idle", "starting", "calling",
                                     "draining", "stopping", "stopped"} \cup Hooks,
                               dep       : 0 .. N,
                               connected : BOOLEAN,
                               opened    : BOOLEAN]]

\* A dependency that says it is running or paused holds its resource, unless two
\* operations were under way on it: the status of the one that settles last then
\* stands, whatever the hooks of the two did.
StatusTellsTheResource ==
    \A d \in Deps : status[d] \in {"running", "paused"} => resource[d] = "held" \/ d \in overlapped

\* A shutdown comes to a dependency when no client is waiting for an answer, and
\* when each one registered behind it has given its resource back or failed to:
\* the shutdown does not stop at a stop that failed, but passes nothing by that
\* nobody tried to stop, and awaits each onStop before the next.  Only an
\* operation that outlived its connection can have brought one of those back.
ShutdownOrder ==
    \A s \in Signals : caller[s].at \in {"stopping", "onStop", "stopped"} =>
        /\ \A q \in Requests : ~ caller[q].connected
        /\ \A d \in caller[s].dep + 1 .. N :
                resource[d] \in {"released", "unreleased"} \/ d \in overlapped

\* A closed circuit has counted each failure since the last success, those of
\* calls let through before it last opened included, and an open one has let
\* nothing through: what can still close it was under way when it opened.
CircuitFollowsItsCalls ==
    /\ breaker.state = "closed" => breaker.failures = streak
    /\ breaker.state = "open" =>
        \A q \in Requests : caller[q].at = "calling" => caller[q].opened

\* gracefulStop: "waits up to drainTimeout ms for existing connections to drain
\* before force-closing", so a shutdown does not wait on a client.
ShutdownEnds == (phase = "closing") ~> (phase \in {"exited", "killed"})
=============================================================================
