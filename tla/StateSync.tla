------------------------------ MODULE StateSync ------------------------------
(* How the engine keeps its state_map true to Home Assistant: the WebSocket  *)
(* stream (HAEventStream), on_state_changed, the REST snapshots merged by    *)
(* refresh_states and _maybe_schedule_state_resync (engine.py).              *)
(* A state is its last_updated, a number; 0 is an entity that does not       *)
(* exist.  entity_revisions are only compared with the poll_revision of the  *)
(* polls under way, so each poll carries the set of entities revised since.  *)
EXTENDS Integers, Sequences

CONSTANTS Entities,
          Pollers,     \* threads that may be in refresh_states
          PollWorker,  \* the one of them that _maybe_schedule_state_resync uses
          MaxChanges,  \* changes at Home Assistant
          MaxDrops     \* failures of the socket

ASSUME SyncAssumption ==
    /\ PollWorker \in Pollers /\ MaxChanges \in Nat \ {0} /\ MaxDrops \in Nat

VARIABLES home,      \* Home Assistant: entity -> state
          clock,     \* the last last_updated it gave out
          wire,      \* state_changed events on their way
          link,      \* "down", "open" (subscribed) or "up" (ws_connected)
          drops,
          stateMap,  \* state_map
          polls,     \* refresh_states, per thread
          resync,    \* the latch and the timers of the resynchronisation
          missed     \* history: entities whose last change no event will tell

syncVars == <<home, clock, wire, link, drops, stateMap, polls, resync, missed>>

States   == 0 .. MaxChanges
NoPoll   == [pc |-> "idle", newer |-> {}, states |-> [e \in Entities |-> 0]]
Asking   == [NoPoll EXCEPT !.pc = "asked"]
AtRest   == [urgent |-> FALSE, due |-> FALSE, since |-> FALSE, starved |-> FALSE,
             wait |-> FALSE]

SyncTypeOK ==
    /\ home \in [Entities -> States] /\ clock \in States \ {0}
    /\ wire \in Seq([entity : Entities, state : States])
    /\ link \in {"down", "open", "up"} /\ drops \in 0 .. MaxDrops
    /\ stateMap \in [Entities -> States]
    /\ polls \in [Pollers -> [pc : {"idle", "asked", "answered"},
                              newer : SUBSET Entities, states : [Entities -> States]]]
    /\ resync \in [urgent : BOOLEAN, due : BOOLEAN, since : BOOLEAN,
                   starved : BOOLEAN, wait : BOOLEAN]
    /\ \A p \in Pollers : polls[p].pc = "idle" => polls[p] = NoPoll
    /\ missed \subseteq Entities

\* Engine() starts with an empty map and last_full_poll = 0.
SyncInit ==
    /\ home = [e \in Entities |-> 1] /\ clock = 1 /\ wire = <<>> /\ link = "down"
    /\ drops = 0 /\ stateMap = [e \in Entities |-> 0]
    /\ polls = [p \in Pollers |-> NoPoll]
    /\ resync = [AtRest EXCEPT !.due = TRUE] /\ missed = Entities

-----------------------------------------------------------------------------
(* Home Assistant and the socket                                             *)

\* An entity changes or goes away; nobody is told while nothing is subscribed.
HomeChanges(e) ==
    /\ clock < MaxChanges /\ clock' = clock + 1
    /\ \E s \in {clock', 0} \ {home[e]} :
         /\ home' = [home EXCEPT ![e] = s]
         /\ wire' = IF link = "down" THEN wire ELSE Append(wire, [entity |-> e, state |-> s])
    /\ missed' = IF link = "down" THEN missed \cup {e} ELSE missed \ {e}
    /\ UNCHANGED <<link, drops, stateMap, polls, resync>>

\* Home Assistant takes subscription 2; the client hears of it later.
Subscribe ==
    /\ link = "down" /\ link' = "open"
    /\ UNCHANGED <<home, clock, wire, drops, stateMap, polls, resync, missed>>

Confirmed ==
    /\ link = "open" /\ link' = "up"
    /\ UNCHANGED <<home, clock, wire, drops, stateMap, polls, resync, missed>>

\* Any failure, of an attempt to connect too: what was on the way is lost, and
\* the handler asks for an urgent snapshot before it sleeps and tries again.
SocketFails ==
    /\ drops < MaxDrops /\ drops' = drops + 1
    /\ link' = "down" /\ wire' = <<>>
    /\ missed' = missed \cup {wire[i].entity : i \in DOMAIN wire}
    /\ resync' = [resync EXCEPT !.urgent = TRUE, !.due = TRUE, !.since = TRUE,
                                !.starved = FALSE, !.wait = FALSE]
    /\ UNCHANGED <<home, clock, stateMap, polls>>

Noted(poll, es) == IF poll.pc = "idle" THEN poll ELSE [poll EXCEPT !.newer = @ \cup es]
Revised(es) == [p \in Pollers |-> Noted(polls[p], es)]

\* on_state_changed drops what it has and what is older than what it has.
AnyNews(e, s) == stateMap[e] # s
News(e, s) == stateMap[e] # s /\ ~ (s # 0 /\ stateMap[e] # 0 /\ s < stateMap[e])

\* A snapshot still to be merged would take the entity back.
Undone(e) == \E p \in Pollers : /\ polls[p].pc = "answered" /\ e \notin polls[p].newer
                                /\ polls[p].states[e] # home[e]

\* The removal of an entity that is not in the map leaves no trace.
Ghost(e, s) == s = 0 /\ stateMap[e] = 0 /\ Undone(e)

Receive ==
    /\ wire # <<>> /\ wire' = Tail(wire) /\ link' = "up"
    /\ LET e == Head(wire).entity  s == Head(wire).state IN
         IF News(e, s)
         THEN /\ stateMap' = [stateMap EXCEPT ![e] = s]
              /\ polls' = Revised({e}) /\ UNCHANGED missed
         ELSE /\ missed' = IF Ghost(e, s) THEN missed \cup {e} ELSE missed
              /\ UNCHANGED <<stateMap, polls>>
    /\ UNCHANGED <<home, clock, drops, resync>>

-----------------------------------------------------------------------------
(* refresh_states                                                            *)

StartPoll(p) ==
    /\ polls[p].pc = "idle"
    /\ polls' = [polls EXCEPT ![p] = Asking]

\* The hand-over of Control and the start of the program refresh on their own.
Ask(p) ==
    /\ p # PollWorker /\ StartPoll(p)
    /\ UNCHANGED <<home, clock, wire, link, drops, stateMap, resync, missed>>

Answer(p) ==
    /\ polls[p].pc = "asked"
    /\ polls' = [polls EXCEPT ![p].pc = "answered", ![p].states = home]
    /\ UNCHANGED <<home, clock, wire, link, drops, stateMap, resync, missed>>

PollFails(p) ==
    /\ polls[p].pc = "asked"
    /\ polls' = [polls EXCEPT ![p] = NoPoll]
    /\ UNCHANGED <<home, clock, wire, link, drops, stateMap, resync, missed>>

\* A newer event wins over the snapshot, and so does a newer state.
MergedByTime(p) ==
    [e \in Entities |->
       IF stateMap[e] > polls[p].states[e] /\ polls[p].states[e] # 0
       THEN stateMap[e] ELSE polls[p].states[e]]

Merged(p) ==
    [e \in Entities |->
       IF e \in polls[p].newer \/ (polls[p].states[e] # 0 /\ stateMap[e] > polls[p].states[e])
       THEN stateMap[e] ELSE polls[p].states[e]]

Merge(p) ==
    /\ polls[p].pc = "answered"
    /\ stateMap' = Merged(p)
    /\ polls' = [Revised({e \in Entities : stateMap[e] # Merged(p)[e]}) EXCEPT ![p] = NoPoll]
    /\ resync' = AtRest
    /\ UNCHANGED <<home, clock, wire, link, drops>>
    /\ missed' = {e \in missed : stateMap'[e] # home[e] \/ Undone(e)'}

-----------------------------------------------------------------------------
(* _maybe_schedule_state_resync, on every turn of the engine loop            *)

ResyncDue ==
    /\ resync.urgent \/ resync.due
    /\ polls[PollWorker].pc = "idle" /\ ~ resync.wait

NeverStarved == FALSE
Starved      == resync.starved

MayDefer == link = "up" /\ ~ resync.urgent /\ ~ Starved

\* Recent events or a heavy job put it off, while nothing presses.
Defer ==
    /\ ResyncDue /\ MayDefer
    /\ resync' = [resync EXCEPT !.since = TRUE, !.wait = TRUE]
    /\ UNCHANGED <<home, clock, wire, link, drops, stateMap, polls, missed>>

Schedule ==
    /\ ResyncDue /\ StartPoll(PollWorker)
    /\ resync' = [resync EXCEPT !.since = TRUE, !.wait = TRUE]
    /\ UNCHANGED <<home, clock, wire, link, drops, stateMap, missed>>

\* Time: the period since the last full poll, max_defer and the retry delay.
PeriodPasses  == ~ resync.due /\ resync' = [resync EXCEPT !.due = TRUE]
DeferPasses   == resync.since /\ ~ resync.starved /\ resync' = [resync EXCEPT !.starved = TRUE]
WaitPasses    == resync.wait /\ resync' = [resync EXCEPT !.wait = FALSE]

SyncTime ==
    /\ PeriodPasses \/ DeferPasses \/ WaitPasses
    /\ UNCHANGED <<home, clock, wire, link, drops, stateMap, polls, missed>>

SyncNext ==
    \/ \E e \in Entities : HomeChanges(e)
    \/ Subscribe \/ Confirmed \/ SocketFails \/ Receive
    \/ \E p \in Pollers : Ask(p) \/ Answer(p) \/ PollFails(p) \/ Merge(p)
    \/ Defer \/ Schedule \/ SyncTime

SyncSpec == SyncInit /\ [][SyncNext]_syncVars

-----------------------------------------------------------------------------
(* Properties                                                                *)

\* Events and snapshots, in whatever order they are applied, leave a wrong state
\* only where a change is still on the wire or fell in a gap of the socket
\* (engine.py:572-622, 694-780).
CurrentIsTrue ==
    \A e \in Entities : stateMap[e] # home[e] =>
        e \in missed \/ \E i \in DOMAIN wire : wire[i].entity = e

\* No event and no snapshot puts back an older state of an entity
\* (engine.py:584-587, 721-734).
NeverRewinds ==
    [][\A e \in Entities : stateMap[e] # 0 /\ stateMap'[e] # 0 => stateMap'[e] >= stateMap[e]]_syncVars

\* Once the socket is subscribed again every missed change is found in the end,
\* however busy the house
\* (engine.py:1003-1073).
GapsHeal == \A e \in Entities : e \in missed /\ link # "down" ~> e \notin missed

\* After a gap the latch stays until a snapshot has brought what was missed, for
\* every entity that still exists (engine.py:212-216, 765-768, CHANGELOG.md:592).
GapIsReconciled ==
    drops > 0 /\ link = "up" /\ ~ resync.urgent /\ (\A p \in Pollers : polls[p].pc = "idle")
        => \A e \in missed : home[e] \in {0, stateMap[e]}
=============================================================================
