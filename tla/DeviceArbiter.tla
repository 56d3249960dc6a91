---------------------------- MODULE DeviceArbiter ----------------------------
(* Shared-resource arbitration between agents: device_agents.py and the part *)
(* of Executor (executor.py) that claims resources, locks them and reserves  *)
(* a dispatch.  An agent needs a set of resources: the device of its target, *)
(* perhaps a group or a zone.  The rows of device_resource_state are owner   *)
(* (the Control owner), lease (the dispatch in flight), last (the last       *)
(* completed dispatch) and hold; manual[a] is the agent's own manual hold.   *)
(* Resources are numbered in the canonical order of their keys, in which a   *)
(* device comes before a group and a group before a zone.                    *)
EXTENDS Integers, FiniteSets

CONSTANTS Pilots,       \* agents that may be in Control
          Resources,    \* resource keys, in canonical order
          Hands,        \* threads that carry out requests and submits
          Layouts,      \* what the registry may say: agent -> resource keys
          FirstLayout,
          Dwell,        \* minimum dwell, and the life of a reservation
          HoldFor,      \* length of a manual hold
          MaxNow,
          MaxEvents,    \* requests, submits, holds, registry updates, restarts and ticks
          Registry,     \* the registry worker, a thread of its own
          Nobody

ASSUME ArbiterAssumption ==
    /\ Resources \subseteq Nat \ {0} /\ IsFiniteSet(Pilots)
    /\ Layouts \subseteq [Pilots -> (SUBSET Resources) \ {{}}]
    /\ FirstLayout \in Layouts
    /\ Dwell \in Nat \ {0} /\ HoldFor \in Nat
    /\ MaxNow \in Nat \ {0} /\ MaxEvents \in Nat
    /\ Nobody \notin Pilots \cup Hands \cup {Registry} /\ Registry \notin Hands

VARIABLES now, keys, control, owner, lease, last, hold, manual,
          lock,      \* resource key -> thread that holds its lock
          entry,     \* resource key -> thread that holds the target lock of that device
          hand,      \* Hands -> what the thread is doing
          sweep,     \* reconcile_control_resources in the registry worker
          intents,   \* number of the last ActionIntent
          events,    \* counts what MaxEvents bounds
          wiped,     \* history: agents whose valid claim a reconcile cleared
          moved      \* history: agents remapped while in or entering Control

arbiterVars == <<now, keys, control, owner, lease, last, hold, manual, lock,
                 entry, hand, sweep, intents, events, wiped, moved>>
rows  == <<owner, lease, last, hold>>
times == <<now, intents, events>>

Lowest(S)  == CHOOSE k \in S : \A j \in S : k <= j
Device(a)  == Lowest(keys[a])
Conflicts(a, b) == a # b /\ keys[a] \cap keys[b] # {}
Locked(w)  == {k \in Resources : lock[k] = w}
Entered(w) == {k \in Resources : entry[k] = w}
LocksFree(w, ks) == \A k \in ks : lock[k] \in {w, Nobody}

Resting == [kind |-> "none", agent |-> Nobody, pc |-> "idle", keys |-> {},
            fresh |-> {}, t0 |-> 0, sent |-> 0, until |-> 0, intent |-> 0,
            deaf |-> {}]
NoLease == [intent |-> 0, until |-> 0]
NoLast  == [by |-> Nobody, at |-> 0]
NoSweep == [pc |-> "idle", boot |-> FALSE, modes |-> {}, left |-> {}]

ErrandKinds == {"none", "enter", "submit", "leave", "heavy", "undo"}
Errands ==
    [kind : ErrandKinds, agent : Pilots \cup {Nobody},
     pc : {"idle", "enter", "lock", "handoff", "commit", "recheck", "reserve",
           "service", "owned", "drop"},
     keys : SUBSET Resources, fresh : SUBSET Resources, t0 : Nat, sent : Nat,
     until : Nat, intent : 0 .. MaxEvents, deaf : SUBSET Pilots]
Leases     == [intent : 0 .. MaxEvents, until : Nat]
Dispatches == [by : Pilots \cup {Nobody}, at : Nat]
Sweeps     == [pc : {"idle", "read", "clear", "claim"}, boot : BOOLEAN,
               modes : SUBSET Pilots, left : SUBSET Pilots]

ArbiterTypeOK ==
    /\ now \in 0 .. MaxNow /\ keys \in Layouts /\ control \subseteq Pilots
    /\ owner \in [Resources -> Pilots \cup {Nobody}]
    /\ lease \in [Resources -> Leases] /\ last \in [Resources -> Dispatches]
    /\ hold \in [Resources -> Nat] /\ manual \in [Pilots -> Nat]
    /\ lock \in [Resources -> Hands \cup {Nobody}]
    /\ entry \in [Resources -> Hands \cup {Nobody}]
    /\ hand \in [Hands -> Errands]
    /\ sweep \in Sweeps
    /\ intents \in 0 .. MaxEvents /\ events \in 0 .. MaxEvents
    /\ wiped \subseteq Pilots /\ moved \subseteq Pilots

ArbiterInit ==
    /\ now = 1 /\ keys = FirstLayout /\ control = {}
    /\ owner = [k \in Resources |-> Nobody]
    /\ lease = [k \in Resources |-> NoLease]
    /\ last = [k \in Resources |-> NoLast]
    /\ hold = [k \in Resources |-> 0] /\ manual = [a \in Pilots |-> 0]
    /\ lock = [k \in Resources |-> Nobody] /\ entry = [k \in Resources |-> Nobody]
    /\ hand = [w \in Hands |-> Resting] /\ sweep = NoSweep
    /\ intents = 0 /\ events = 0 /\ wiped = {} /\ moved = {}

-----------------------------------------------------------------------------
(* Manual holds                                                              *)

\* _persist_runtime_manual_holds: the holds of conflicting agents are written
\* to the rows of this agent's resources.
Overheard(a) ==
    LET until == {manual[b] : b \in {x \in Pilots : Conflicts(x, a)}} \cup {0}
        high  == CHOOSE t \in until : \A u \in until : u <= t
    IN  [k \in Resources |->
           IF k \in keys[a] /\ high > now /\ high > hold[k] THEN high ELSE hold[k]]

\* A dispatch that has looked at the holds for the last time does not hear of
\* a hold set, or a sibling made, after that.
Deafened(h, bs) == [h EXCEPT !.deaf = @ \cup bs]
Unheard(bs) ==
    hand' = [w \in Hands |-> IF hand[w].pc \in {"reserve", "service"}
                             THEN Deafened(hand[w], bs) ELSE hand[w]]

Happens == events < MaxEvents /\ events' = events + 1

\* set_manual_hold by the inference of another agent's entity, which is
\* sequential with that agent's own submits but takes no lock.
UserHold(a) ==
    /\ now < MaxNow /\ Happens
    /\ \A w \in Hands : ~ (hand[w].kind = "submit" /\ hand[w].agent = a)
    /\ manual' = [manual EXCEPT ![a] = now + HoldFor]
    /\ Unheard({a})
    /\ UNCHANGED <<rows, now, intents, keys, control, lock, entry, sweep, wiped,
                   moved>>

-----------------------------------------------------------------------------
(* Locks                                                                     *)

Move(w, h) == hand' = [hand EXCEPT ![w] = h]

\* Every with-block of the thread is left: the request is over.
Unwind(w) ==
    /\ lock' = [k \in Resources |-> IF lock[k] = w THEN Nobody ELSE lock[k]]
    /\ entry' = [k \in Resources |-> IF entry[k] = w THEN Nobody ELSE entry[k]]
    /\ Move(w, Resting)

UnlockRows(w) == lock' = [k \in Resources |-> IF lock[k] = w THEN Nobody ELSE lock[k]]

\* A request takes the target lock of the device its target has now.
Begin(w, a, kind) ==
    /\ ~ sweep.boot /\ hand[w].pc = "idle"
    /\ entry[Device(a)] = Nobody
    /\ entry' = [entry EXCEPT ![Device(a)] = w]
    /\ Move(w, [Resting EXCEPT !.kind = kind, !.agent = a, !.pc = "enter", !.t0 = now,
                            !.intent = intents'])
    /\ UNCHANGED <<now, keys, control, owner, lease, last, manual,
                   lock, sweep, wiped, moved>>

Enter(w, a) == a \notin control /\ UNCHANGED <<hold, intents>> /\ Happens /\ Begin(w, a, "enter")
Leave(w, a) == a \in control /\ UNCHANGED <<hold, intents>> /\ Happens /\ Begin(w, a, "leave")
\* Control is given back before training; the mode stays.
Heavy(w, a) == a \in control /\ UNCHANGED <<hold, intents>> /\ Happens /\ Begin(w, a, "heavy")

\* A submit looks at the agent's own hold and at the shared one; an intent that
\* is refused leaves the holds it found in the rows.
Submit(w, a) ==
    /\ a \in control /\ manual[a] <= now
    /\ Happens /\ intents' = intents + 1
    /\ hold' = Overheard(a)
    /\ \A k \in keys[a] : hold'[k] <= now
    /\ Begin(w, a, "submit")

SubmitHeld(w, a) ==
    /\ ~ sweep.boot /\ hand[w].pc = "idle" /\ entry[Device(a)] = Nobody
    /\ a \in control /\ manual[a] <= now
    /\ hold' = Overheard(a)
    /\ \E k \in keys[a] : hold'[k] > now
    /\ UNCHANGED <<owner, lease, last, times, keys, control, manual, lock, entry,
                   hand, sweep, wiped, moved>>

\* take_control and release_control take the target lock again, resolving the
\* device afresh, and read the descriptor.
Resolve(w) ==
    LET a == hand[w].agent IN
    /\ hand[w].pc = "enter" /\ entry[Device(a)] \in {w, Nobody}
    /\ entry' = [entry EXCEPT ![Device(a)] = w]
    /\ Move(w, [hand[w] EXCEPT !.pc = "lock", !.keys = keys[a]])
    /\ UNCHANGED <<rows, times, keys, control, manual, lock, sweep, wiped, moved>>

Wanted(w) == IF hand[w].pc = "lock" THEN hand[w].keys \ Locked(w)
             ELSE IF hand[w].pc = "owned" THEN hand[w].fresh \ Locked(w) ELSE {}

\* lock_resources: one lock after the other, in canonical order.
NextLock(ks) == Lowest(ks)

LockRow(w) ==
    /\ Wanted(w) # {}
    /\ lock[NextLock(Wanted(w))] = Nobody
    /\ lock' = [lock EXCEPT ![NextLock(Wanted(w))] = w]
    /\ UNCHANGED <<rows, times, keys, control, manual, entry, hand, sweep, wiped,
                   moved>>

Holding(w, pc) == hand[w].pc = pc /\ Wanted(w) = {}
Taking(w)    == hand[w].kind \in {"enter", "submit"}

-----------------------------------------------------------------------------
(* Taking Control                                                            *)

\* claim_control_resources, in one transaction: all the keys or none.
ClaimableAnyway(a) == TRUE
Claimable(a)  == \A k \in keys[a] : owner[k] \in {a, Nobody}
Claimed(a)    == [k \in Resources |-> IF k \in keys[a] THEN a ELSE owner[k]]
Rivals(a)     == {b \in control : Conflicts(a, b)}

Claim(w) ==
    LET a == hand[w].agent IN
    /\ Holding(w, "lock") /\ Taking(w)
    /\ hand[w].keys = keys[a] /\ Rivals(a) = {} /\ Claimable(a)
    /\ owner' = Claimed(a)
    /\ Move(w, [hand[w] EXCEPT !.pc = "handoff",
                               !.fresh = {k \in keys[a] : owner[k] # a}])
    /\ UNCHANGED <<lease, last, hold, times, keys, control, manual, lock, entry,
                   sweep, wiped, moved>>

\* Any of the checks under the locks raises.
Refuse(w) ==
    LET a == hand[w].agent IN
    /\ Holding(w, "lock") /\ Taking(w)
    /\ hand[w].keys # keys[a] \/ Rivals(a) # {} \/ ~ Claimable(a)
    /\ Unwind(w)
    /\ UNCHANGED <<rows, times, keys, control, manual, sweep, wiped, moved>>

\* The hand-over of the automations (module ControlHandoff) succeeds.  A submit
\* that switched one off waits for a fresh prediction instead of going on.
TookControl(w) ==
    /\ hand[w].pc = "handoff"
    /\ \/ /\ Move(w, [hand[w] EXCEPT !.fresh = {}, !.pc =
                        IF hand[w].kind = "enter" THEN "commit" ELSE "recheck"])
          /\ UnlockRows(w) /\ UNCHANGED entry
       \/ /\ hand[w].kind = "submit" /\ Unwind(w)
    /\ UNCHANGED <<rows, times, keys, control, manual, sweep, wiped, moved>>

\* It raises: only the newly claimed rows are given back.
DisownedToEmpty(a, ks) ==
    [k \in Resources |-> IF k \in ks /\ owner[k] = a THEN {} ELSE owner[k]]
Disowned(a, ks) == [k \in Resources |-> IF k \in ks /\ owner[k] = a THEN Nobody ELSE owner[k]]

HandoffRaises(w) ==
    /\ hand[w].pc = "handoff"
    /\ owner' = Disowned(hand[w].agent, hand[w].fresh)
    /\ Unwind(w)
    /\ UNCHANGED <<lease, last, hold, times, keys, control, manual, sweep, wiped,
                   moved>>

\* PATCH: the mode is written and the agent's own hold released.
CommitControl(w) ==
    LET a == hand[w].agent IN
    /\ hand[w].pc = "commit"
    /\ control' = control \cup {a}
    /\ manual' = [manual EXCEPT ![a] = 0]
    /\ Unwind(w)
    /\ UNCHANGED <<rows, times, keys, sweep, wiped, moved>>

\* The write of the mode raises and Control is released again.
CommitRaises(w) ==
    /\ hand[w].pc = "commit"
    /\ Move(w, [hand[w] EXCEPT !.kind = "undo", !.pc = "enter"])
    /\ UNCHANGED <<rows, times, keys, control, manual, lock, entry, sweep, wiped,
                   moved>>

-----------------------------------------------------------------------------
(* Giving Control back                                                       *)

\* The automations are restored (or that raises and the request ends) and
\* release_control_resources reads which rows the agent owns.
Restored(w) ==
    LET a == hand[w].agent IN
    /\ Holding(w, "lock") /\ ~ Taking(w)
    /\ \/ /\ Move(w, [hand[w] EXCEPT !.pc = "owned",
                                     !.fresh = {k \in Resources : owner[k] = a}])
          /\ UNCHANGED <<lock, entry>>
       \/ Unwind(w)
    /\ UNCHANGED <<rows, times, keys, control, manual, sweep, wiped, moved>>

Disown(w) ==
    LET h == hand[w] IN
    /\ Holding(w, "owned")
    /\ owner' = Disowned(h.agent, h.fresh)
    /\ IF h.kind = "leave"
       THEN /\ UnlockRows(w) /\ UNCHANGED entry
            /\ Move(w, [h EXCEPT !.pc = "drop", !.fresh = {}])
       ELSE Unwind(w)
    /\ UNCHANGED <<lease, last, hold, times, keys, control, manual, sweep, wiped,
                   moved>>

DropControl(w) ==
    LET a == hand[w].agent IN
    /\ hand[w].pc = "drop"
    /\ control' = control \ {a} /\ wiped' = wiped \ {a}
    /\ moved' = IF \E v \in Hands \ {w} : hand[v].agent = a THEN moved ELSE moved \ {a}
    /\ Unwind(w)
    /\ UNCHANGED <<rows, times, keys, manual, sweep>>

-----------------------------------------------------------------------------
(* Dispatch                                                                  *)

InForce(k, t)   == lease[k].until > t
Dwelling(a, k, t) == last[k].by \notin {a, Nobody} /\ t - last[k].at < Dwell

\* legal_action_mask with the time the submit began, and the fresh read of the
\* agent; the holds it hears of stay in the rows even when it refuses.
Masked(a, t, h) ==
    \E k \in keys[a] : \/ h[k] > t \/ owner[k] \notin {a, Nobody}
                       \/ InForce(k, t) \/ Dwelling(a, k, t)

HeardRowsOnly(a) == hold
Heard(a) == Overheard(a)

Recheck(w) ==
    LET h == hand[w] IN
    /\ h.pc = "recheck" /\ hold' = Heard(h.agent)
    /\ IF Masked(h.agent, h.t0, hold') \/ h.agent \notin control
       THEN Unwind(w)
       ELSE Move(w, [h EXCEPT !.pc = "reserve"]) /\ UNCHANGED <<lock, entry>>
    /\ UNCHANGED <<owner, lease, last, times, keys, control, manual, sweep, wiped,
                   moved>>

\* reserve_dispatch: the rows only, under the resource locks, with the time
\* the submit began.
BlockedUnleased(a, t) == \E k \in keys[a] : hold[k] > t \/ Dwelling(a, k, t)
Blocked(a, t) == Masked(a, t, hold)

Reserve(w) ==
    LET h == hand[w]  a == h.agent IN
    /\ h.pc = "reserve" /\ LocksFree(w, keys[a])
    /\ IF Blocked(a, h.t0)
       THEN Unwind(w) /\ UNCHANGED lease
       ELSE /\ lease' = [k \in Resources |-> IF k \in keys[a]
                           THEN [intent |-> h.intent, until |-> h.t0 + Dwell]
                           ELSE lease[k]]
            /\ Move(w, [h EXCEPT !.pc = "service", !.keys = keys[a], !.sent = now,
                                 !.until = h.t0 + Dwell])
            /\ UNCHANGED <<lock, entry>>
    /\ UNCHANGED <<owner, last, hold, times, keys, control, manual, sweep, wiped,
                   moved>>

\* The service call returns or raises; finish_dispatch frees the rows that
\* still carry this intent and, on success, records the dispatch.
Mine(w, k) == k \in hand[w].keys /\ lease[k].intent = hand[w].intent

FinishDispatch(w) ==
    LET h == hand[w] IN
    /\ h.pc = "service" /\ LocksFree(w, h.keys)
    /\ lease' = [k \in Resources |-> IF Mine(w, k) THEN NoLease ELSE lease[k]]
    /\ \/ last' = [k \in Resources |-> IF Mine(w, k)
                     THEN [by |-> h.agent, at |-> h.sent] ELSE last[k]]
       \/ UNCHANGED last
    /\ Unwind(w)
    /\ UNCHANGED <<owner, hold, times, keys, control, manual, sweep, wiped, moved>>

-----------------------------------------------------------------------------
(* The registry, restarts and time                                           *)

Engaged(a) == a \in control \/ \E w \in Hands : hand[w].agent = a

\* A changed registry payload is applied; then identities are migrated and
\* reconcile_control_resources runs in the same worker.
RegistryUpdate(layout) ==
    /\ sweep.pc = "idle" /\ Happens /\ keys' = layout
    /\ moved' = moved \cup {a \in Pilots : keys[a] # layout[a] /\ Engaged(a)}
    /\ sweep' = [sweep EXCEPT !.pc = "read"]
    /\ Unheard(Pilots)
    /\ UNCHANGED <<rows, now, intents, control, manual, lock, entry, wiped>>

SweepRead ==
    /\ sweep.pc = "read"
    /\ sweep' = [sweep EXCEPT !.pc = "clear", !.modes = control]
    /\ UNCHANGED <<rows, times, keys, control, manual, lock, entry, hand, wiped,
                   moved>>

Stale(k) == owner[k] # Nobody /\ (owner[k] \notin sweep.modes \/ k \notin keys[owner[k]])

\* One transaction, without the resource locks.
SweepClear ==
    /\ sweep.pc = "clear"
    /\ owner' = [k \in Resources |-> IF Stale(k) THEN Nobody ELSE owner[k]]
    /\ wiped' = wiped \cup {a \in Pilots : Engaged(a) /\
                              \E k \in keys[a] : owner[k] = a /\ Stale(k)}
    /\ sweep' = [sweep EXCEPT !.pc = "claim", !.left = sweep.modes]
    /\ UNCHANGED <<lease, last, hold, times, keys, control, manual, lock, entry,
                   hand, moved>>

\* Every agent that was in Control and has no rival claims what is free.
SweepClaim(a) ==
    /\ sweep.pc = "claim" /\ a \in sweep.left
    /\ sweep' = [sweep EXCEPT !.left = @ \ {a}]
    /\ IF \E b \in sweep.modes : Conflicts(a, b)
       THEN UNCHANGED owner
       ELSE /\ LocksFree(Registry, keys[a])
            /\ owner' = IF Claimable(a) THEN Claimed(a) ELSE owner
    /\ UNCHANGED <<lease, last, hold, times, keys, control, manual, lock, entry,
                   hand, wiped, moved>>

SweepDone ==
    /\ sweep.pc = "claim" /\ sweep.left = {} /\ sweep' = NoSweep
    /\ UNCHANGED <<rows, times, keys, control, manual, lock, entry, hand, wiped,
                   moved>>

\* Death and restart: SQLite stays, the start reconciles before any request.
Restart ==
    /\ Happens
    /\ hand' = [w \in Hands |-> Resting] /\ sweep' = [NoSweep EXCEPT !.pc = "read", !.boot = TRUE]
    /\ lock' = [k \in Resources |-> Nobody] /\ entry' = [k \in Resources |-> Nobody]
    /\ UNCHANGED <<rows, now, intents, keys, control, manual, wiped, moved>>

Tick ==
    /\ now < MaxNow /\ now' = now + 1 /\ Happens
    /\ UNCHANGED <<rows, intents, keys, control, manual, lock,
                   entry, hand, sweep, wiped, moved>>

HandStep(w) ==
    \/ Resolve(w) \/ LockRow(w) \/ Claim(w) \/ Refuse(w) \/ TookControl(w)
    \/ HandoffRaises(w) \/ CommitControl(w) \/ CommitRaises(w) \/ Restored(w)
    \/ Disown(w) \/ DropControl(w) \/ Recheck(w) \/ Reserve(w) \/ FinishDispatch(w)

ControlRequests(w) == \E a \in Pilots : Enter(w, a) \/ Leave(w, a) \/ Heavy(w, a) \/ Submit(w, a) \/ SubmitHeld(w, a)

Sweep == SweepRead \/ SweepClear \/ (\E a \in Pilots : SweepClaim(a)) \/ SweepDone

ArbiterNext ==
    \/ \E w \in Hands : HandStep(w) \/ ControlRequests(w)
    \/ \E a \in Pilots : UserHold(a)
    \/ \E l \in Layouts : RegistryUpdate(l)
    \/ Sweep \/ Restart \/ Tick

ArbiterSpec == ArbiterInit /\ [][ArbiterNext]_arbiterVars
-----------------------------------------------------------------------------
(* Properties                                                                *)

\* Two service calls that are under way at once share no resource, unless one
\* of them has outlived its reservation (device_agents.py:572-617, 619-646).
DispatchesAreDisjoint ==
    \A v, w \in Hands :
        /\ v # w /\ hand[v].pc = "service" /\ hand[w].pc = "service"
        /\ hand[v].keys \cap hand[w].keys # {}
        => hand[v].until <= now \/ hand[w].until <= now

\* Two agents that share a resource are in Control together only if the registry
\* changed an agent's resources, or reconcile cleared a valid claim, on the way
\* (executor.py:80-89, device_agents.py:362-397, 434-478).
SharedControlIsExplained ==
    \A a, b \in control : Conflicts(a, b) => {a, b} \cap (wiped \cup moved) # {}

\* A command goes out under a sibling's manual hold only if the hold was set, or
\* the sibling became one, after the last look at holds (executor.py:353-357).
HoldsBindSiblings ==
    \A w \in Hands, b \in Pilots :
        /\ hand[w].pc = "service" /\ b # hand[w].agent /\ b \notin hand[w].deaf
        /\ hand[w].keys \cap keys[b] # {}
        => manual[b] <= hand[w].sent

=============================================================================
