----------------------------- MODULE EngineLoop -----------------------------
(* The engine loop (Engine.run) and its dispatcher (process): which worker   *)
(* hears of which change.  on_state_changed and refresh_states put changed   *)
(* entities into dirty_entities and set wake_event; the loop hands them to   *)
(* at most one worker per target, and what comes for a busy target waits in  *)
(* pending_target_changes until a callback of that worker makes it ready.    *)
EXTENDS Integers, FiniteSets

CONSTANTS LoopTargets, Sources,
          Deps,          \* event_dependencies of the agents of a target
          Workers,       \* control_worker_count
          PerTick,       \* startup_warmup_targets_per_tick
          MaxArrivals, MaxTimers,
          MaxFaults      \* failed reads of the routing index

ASSUME LoopAssumption ==
    /\ LoopTargets \subseteq Sources /\ IsFiniteSet(LoopTargets)
    /\ Deps \in [LoopTargets -> SUBSET Sources] /\ \A t \in LoopTargets : t \in Deps[t]
    /\ Workers \in Nat \ {0} /\ PerTick \in Nat \ {0}
    /\ MaxArrivals \in Nat /\ MaxTimers \in Nat /\ MaxFaults \in Nat

VARIABLES dirty,    \* dirty_entities
          wake,     \* wake_event
          startup,  \* the gate: inference_enabled and startup_inference_not_before
          loop,     \* what the engine thread is doing
          busy,     \* targets whose in_flight future is not done
          stale,    \* those of them whose snapshot is not the current state
          pend,     \* pending_target_changes
          ready,    \* ready_target_changes
          hooked,   \* resubmit_targets
          ended,    \* of these, those whose future is done, the callback still to come
          cold,     \* startup targets that have not been scheduled
          due,      \* targets whose timer has run out
          spent,    \* counts of what the bounds limit
          owes,     \* history: changes no worker of the target was started for
          dropped      \* history: those a failed routing read dropped

loopVars == <<dirty, wake, startup, loop, busy, stale, pend, ready, hooked, ended,
              cold, due, spent, owes, dropped>>
queues   == <<pend, ready, hooked, ended>>

Nothing   == [t \in LoopTargets |-> {}]
Quiet  == [pc |-> "wait", woke |-> FALSE, event |-> FALSE, warm |-> FALSE, changed |-> {}, retries |-> Nothing,
           left |-> {}, old |-> FALSE, handled |-> FALSE]
EntitySets == [LoopTargets -> SUBSET Sources]

LoopTypeOK ==
    /\ dirty \subseteq Sources /\ wake \in BOOLEAN /\ startup \in {"closed", "grace", "open"}
    /\ loop \in [pc : {"wait", "clear", "take", "route", "dispatch", "warm", "timer"},
                 woke : BOOLEAN, event : BOOLEAN, warm : BOOLEAN,
                 changed : SUBSET Sources, retries : EntitySets, left : SUBSET LoopTargets, old : BOOLEAN,
                 handled : BOOLEAN]
    /\ stale \subseteq busy /\ busy \subseteq LoopTargets
    /\ pend \in EntitySets /\ ready \in EntitySets
    /\ ended \subseteq hooked /\ hooked \subseteq LoopTargets
    /\ cold \subseteq LoopTargets /\ due \subseteq LoopTargets
    /\ spent \in [arrivals : 0 .. MaxArrivals, timers : 0 .. MaxTimers, faults : 0 .. MaxFaults]
    /\ owes \in EntitySets /\ dropped \in EntitySets

LoopInit ==
    /\ dirty = {} /\ wake = FALSE /\ startup = "closed" /\ loop = Quiet
    /\ busy = {} /\ stale = {} /\ pend = Nothing /\ ready = Nothing
    /\ hooked = {} /\ ended = {} /\ cold = LoopTargets /\ due = {}
    /\ spent = [arrivals |-> 0, timers |-> 0, faults |-> 0]
    /\ owes = Nothing /\ dropped = Nothing

-----------------------------------------------------------------------------
(* What the loop listens to                                                  *)

\* An accepted change of one entity (module StateSync).
Arrive(e) ==
    /\ spent.arrivals < MaxArrivals /\ spent' = [spent EXCEPT !.arrivals = @ + 1]
    /\ dirty' = dirty \cup {e} /\ wake' = TRUE
    /\ stale' = busy /\ loop' = [loop EXCEPT !.old = loop.pc = "dispatch"]
    /\ owes' = [t \in LoopTargets |-> IF e \in Deps[t] THEN owes[t] \cup {e} ELSE owes[t]]
    /\ UNCHANGED <<startup, busy, queues, cold, due, dropped>>

\* The heartbeat or another deadline of an agent that has run before.
TimerRuns(t) ==
    /\ spent.timers < MaxTimers /\ spent' = [spent EXCEPT !.timers = @ + 1]
    /\ t \notin cold /\ t \notin due /\ due' = due \cup {t}
    /\ UNCHANGED <<dirty, wake, startup, loop, busy, stale, queues, cold, owes,
                   dropped>>

\* The end of startup opens the gate; a grace of three seconds follows.
OpenGate ==
    /\ startup = "closed" /\ startup' = "grace" /\ wake' = TRUE
    /\ UNCHANGED <<dirty, loop, busy, stale, queues, cold, due, spent, owes,
                   dropped>>

GraceEnds ==
    /\ startup = "grace" /\ startup' = "open"
    /\ UNCHANGED <<dirty, wake, loop, busy, stale, queues, cold, due, spent, owes,
                   dropped>>

-----------------------------------------------------------------------------
(* Workers                                                                   *)

\* A finished future calls its callback, if it has one.
Called(t) == IF t \in hooked THEN ended \cup {t} ELSE ended

\* process_target ends; a newer state wakes the loop.
TargetDone(t) ==
    /\ t \in busy /\ busy' = busy \ {t} /\ stale' = stale \ {t}
    /\ wake' = (wake \/ t \in stale)
    /\ ended' = Called(t)
    /\ UNCHANGED <<dirty, startup, loop, pend, ready, hooked, cold, due, spent,
                   owes, dropped>>

\* retry_completed: what waited becomes ready, for this target only.
RetryToAll(t)  == dirty' = dirty \cup pend[t] /\ UNCHANGED ready
RetryToOwn(t)  == ready' = [ready EXCEPT ![t] = @ \cup pend[t]] /\ UNCHANGED dirty

RetryCompleted(t) ==
    /\ t \in ended /\ ended' = ended \ {t} /\ hooked' = hooked \ {t}
    /\ RetryToOwn(t) /\ pend' = [pend EXCEPT ![t] = {}]
    /\ wake' = (wake \/ pend[t] # {})
    /\ UNCHANGED <<startup, loop, busy, stale, cold, due, spent, owes, dropped>>

-----------------------------------------------------------------------------
(* The engine thread                                                         *)

\* wake_event.wait(tick) returns, and only then is the event cleared.
Wait ==
    /\ loop.pc = "wait" /\ loop' = [loop EXCEPT !.pc = "clear", !.woke = wake]
    /\ UNCHANGED <<dirty, wake, startup, busy, stale, queues, cold, due, spent,
                   owes, dropped>>

ClearWake ==
    /\ loop.pc = "clear" /\ loop' = [loop EXCEPT !.pc = "take"] /\ wake' = FALSE
    /\ UNCHANGED <<dirty, startup, busy, stale, queues, cold, due, spent, owes,
                   dropped>>

\* A turn that was woken takes the changes; behind a closed gate they go back.
Changed == IF loop.woke THEN dirty ELSE {}

TakeDirty ==
    /\ loop.pc = "take"
    /\ IF startup # "open"
       THEN UNCHANGED dirty /\ loop' = Quiet
       ELSE /\ dirty' = dirty \ Changed
            /\ loop' = IF Changed # {} \/ \E t \in LoopTargets : ready[t] # {}
                       THEN [Quiet EXCEPT !.pc = "route", !.event = TRUE, !.changed = Changed]
                       ELSE [Quiet EXCEPT !.pc = "warm"]
    /\ UNCHANGED <<wake, startup, busy, stale, queues, cold, due, spent, owes,
                   dropped>>

\* process: retries are taken, the agents concerned are looked up and one
\* snapshot is made for all of them.
Concerned(t, changed, retries) == Deps[t] \cap changed # {} \/ retries[t] # {}

Route ==
    LET retries == IF loop.event THEN ready ELSE Nothing IN
    /\ loop.pc = "route"
    /\ ready' = IF loop.event THEN Nothing ELSE ready
    /\ loop' = [loop EXCEPT !.pc = "dispatch", !.retries = retries, !.old = FALSE,
                   !.left = {t \in LoopTargets : Concerned(t, loop.changed, retries)}]
    /\ UNCHANGED <<dirty, wake, startup, busy, stale, pend, hooked, ended, cold, due, spent,
                   owes, dropped>>

\* The look-up raises and ends the turn: retries are put back, fresh changes
\* are not.
KeptDropped == Nothing
Kept == ready

RouteFails ==
    /\ loop.pc = "route" /\ spent.faults < MaxFaults
    /\ spent' = [spent EXCEPT !.faults = @ + 1]
    /\ ready' = Kept
    /\ wake' = (wake \/ (loop.event /\ \E t \in LoopTargets : ready[t] # {}))
    /\ dropped' = IF loop.event THEN [t \in LoopTargets |-> dropped[t] \cup (loop.changed \cap owes[t])]
               ELSE dropped
    /\ loop' = Quiet /\ cold' = IF loop.warm THEN cold \cup loop.changed ELSE cold
    /\ UNCHANGED <<dirty, startup, busy, stale, pend, hooked, ended, due, owes>>

\* One target of the pass: what concerns it goes to a worker, or waits for the
\* busy one.  A pass of the timer or of the warm-up leaves a busy target alone.
Triggers(t) == (loop.changed \cup loop.retries[t]) \cap Deps[t]

HookNever(t) == UNCHANGED hooked
HookOnce(t)  == hooked' = hooked \cup {t}

Dispatch(t) ==
    /\ loop.pc = "dispatch" /\ t \in loop.left
    /\ loop' = [loop EXCEPT !.left = @ \ {t}, !.retries[t] = {}]
    /\ IF t \in busy
       THEN /\ IF loop.event
               THEN /\ pend' = [pend EXCEPT ![t] = @ \cup Triggers(t)]
                    /\ HookOnce(t)
               ELSE UNCHANGED <<pend, hooked>>
            /\ UNCHANGED <<busy, stale, cold, owes>>
       ELSE /\ busy' = busy \cup {t} /\ cold' = cold \ {t}
            /\ stale' = IF loop.old THEN stale \cup {t} ELSE stale
            /\ owes' = [owes EXCEPT ![t] = @ \ (Triggers(t) \ dirty)]
            /\ UNCHANGED <<pend, hooked>>
    /\ UNCHANGED <<dirty, wake, startup, ready, ended, due, spent, dropped>>

Dispatched ==
    /\ loop.pc = "dispatch" /\ loop.left = {}
    /\ loop' = IF loop.event THEN [Quiet EXCEPT !.pc = "warm", !.handled = TRUE] ELSE Quiet
    /\ UNCHANGED <<dirty, wake, startup, busy, stale, queues, cold, due, spent,
                   owes, dropped>>

\* _startup_warmup_step: targets that have not run yet fill the idle workers;
\* then, unless this turn had events or cold targets, the timers.
StillCold == cold \ busy
Room == IF Workers > Cardinality(busy) THEN Workers - Cardinality(busy) ELSE 0

WarmPass(some) == [Quiet EXCEPT !.pc = "route", !.warm = TRUE, !.changed = some]

WarmUp ==
    /\ loop.pc = "warm"
    /\ \E some \in SUBSET StillCold :
         /\ Cardinality(some) =
              CHOOSE n \in 0 .. PerTick :
                 /\ n <= Room /\ n <= Cardinality(StillCold)
                 /\ n = PerTick \/ n = Room \/ n = Cardinality(StillCold)
         /\ cold' = StillCold \ some
         /\ loop' = IF some # {} THEN WarmPass(some)
                    ELSE IF loop.handled \/ StillCold # {} THEN Quiet
                    ELSE [Quiet EXCEPT !.pc = "timer"]
    /\ UNCHANGED <<dirty, wake, startup, busy, stale, queues, due, spent, owes,
                   dropped>>

Timers ==
    /\ loop.pc = "timer" /\ due' = {}
    /\ loop' = IF due = {} THEN Quiet ELSE [Quiet EXCEPT !.pc = "route", !.changed = due]
    /\ UNCHANGED <<dirty, wake, startup, busy, stale, queues, cold, spent, owes,
                   dropped>>

LoopStep == \/ Wait \/ ClearWake \/ TakeDirty \/ Route \/ RouteFails \/ Dispatched \/ WarmUp \/ Timers
            \/ \E t \in LoopTargets : Dispatch(t)

LoopNext ==
    \/ \E e \in Sources : Arrive(e)
    \/ \E t \in LoopTargets : TimerRuns(t) \/ TargetDone(t) \/ RetryCompleted(t)
    \/ OpenGate \/ GraceEnds \/ LoopStep

LoopSpec == LoopInit /\ [][LoopNext]_loopVars

-----------------------------------------------------------------------------
(* Properties                                                                *)

\* A change a target depends on is, until a worker of the target is started for
\* it, in exactly the places the loop will look at, unless a failed look-up
\* dropped it (engine.py:1425-1547).
NoTriggerIsLost ==
    \A t \in LoopTargets : owes[t] \subseteq
        dirty \cup pend[t] \cup ready[t] \cup loop.retries[t] \cup dropped[t]
        \cup (IF loop.event /\ (loop.pc = "route" \/ t \in loop.left) THEN loop.changed ELSE {})

\* What waits for a busy target reaches it without any further event
\* (engine.py:1494-1516).
RetriesAreServed ==
    \A t \in LoopTargets : pend[t] \cup ready[t] # {} ~> pend[t] \cup ready[t] = {}

\* After the last event and the last timer the workers fall idle: targets do not
\* keep each other busy (docs/RELEASE_0_14_172_PL.md).
StormsEnd == <>[](busy = {} /\ hooked = {} /\ ready = Nothing)
=============================================================================
