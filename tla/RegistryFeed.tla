---------------------------- MODULE RegistryFeed ----------------------------
(* The Home Assistant registries (entities, devices, areas) as HAEventStream *)
(* follows them (engine.py): an update event makes it ask for the whole      *)
(* list, one request per registry at a time and not more often than every    *)
(* two seconds; the answers are applied by one registry_worker thread.       *)
(* A list is the number of the change it shows.                              *)
EXTENDS Integers, Sequences

CONSTANTS Kinds,        \* the registries
          MaxUpdates,   \* changes of a registry at Home Assistant
          MaxBreaks,    \* failures of the socket
          MaxRefusals   \* requests answered with success = false

ASSUME FeedAssumption == MaxUpdates \in Nat /\ MaxBreaks \in Nat /\ MaxRefusals \in Nat

VARIABLES registry,   \* Home Assistant: kind -> its list
          asked,      \* requests Home Assistant has not answered
          stream,     \* events and answers on their way, in order
          connected,
          inflight,   \* registry_inflight
          again,      \* registry_dirty
          rested,     \* kinds whose last request is two seconds old
          registryJobs,       \* the queue of registry_worker
          known,      \* what the engine works with
          feed,       \* counts of what the bounds limit
          refused     \* history: kinds whose last answer was a refusal

feedVars == <<registry, asked, stream, connected, inflight, again, rested, registryJobs, known,
              feed, refused>>

FeedTypeOK ==
    /\ registry \in [Kinds -> 0 .. MaxUpdates] /\ asked \subseteq inflight
    /\ stream \in Seq([what : {"event", "answer", "refusal"}, kind : Kinds,
                       list : 0 .. MaxUpdates])
    /\ connected \in BOOLEAN /\ inflight \subseteq Kinds /\ again \subseteq Kinds
    /\ rested \subseteq Kinds
    /\ registryJobs \in Seq([kind : Kinds, list : 0 .. MaxUpdates])
    /\ known \in [Kinds -> 0 .. MaxUpdates]
    /\ feed \in [updates : 0 .. MaxUpdates, breaks : 0 .. MaxBreaks,
                 refusals : 0 .. MaxRefusals]
    /\ refused \subseteq Kinds

FeedInit ==
    /\ registry = [k \in Kinds |-> 0] /\ asked = {} /\ stream = <<>> /\ connected = FALSE
    /\ inflight = {} /\ again = {} /\ rested = Kinds /\ registryJobs = <<>>
    /\ known = [k \in Kinds |-> 0] /\ refused = {}
    /\ feed = [updates |-> 0, breaks |-> 0, refusals |-> 0]

-----------------------------------------------------------------------------
(* Home Assistant                                                            *)

Say(what, k, list) == stream' = Append(stream, [what |-> what, kind |-> k, list |-> list])

RegistryChanges(k) ==
    /\ feed.updates < MaxUpdates /\ feed' = [feed EXCEPT !.updates = @ + 1]
    /\ registry' = [registry EXCEPT ![k] = feed'.updates]
    /\ IF connected THEN Say("event", k, 0) ELSE UNCHANGED stream
    /\ UNCHANGED <<asked, connected, inflight, again, rested, registryJobs, known,
                   refused>>

Answers(k) ==
    /\ k \in asked /\ asked' = asked \ {k} /\ Say("answer", k, registry[k])
    /\ UNCHANGED <<registry, connected, inflight, again, rested, registryJobs,
                   known, feed, refused>>

Refuses(k) ==
    /\ k \in asked /\ asked' = asked \ {k} /\ Say("refusal", k, 0)
    /\ feed.refusals < MaxRefusals /\ feed' = [feed EXCEPT !.refusals = @ + 1]
    /\ UNCHANGED <<registry, connected, inflight, again, rested, registryJobs,
                   known, refused>>

-----------------------------------------------------------------------------
(* The stream thread                                                         *)

\* A connection subscribes first and then asks for every list.
Connect ==
    /\ ~ connected /\ connected' = TRUE
    /\ asked' = Kinds /\ inflight' = Kinds /\ again' = {} /\ rested' = {}
    /\ UNCHANGED <<registry, stream, registryJobs, known, feed, refused>>

\* Everything the connection remembered is gone; the registryJobs stay.
FeedBreaks ==
    /\ feed.breaks < MaxBreaks /\ feed' = [feed EXCEPT !.breaks = @ + 1]
    /\ connected' = FALSE /\ stream' = <<>> /\ asked' = {} /\ inflight' = {} /\ again' = {}
    /\ UNCHANGED <<registry, rested, registryJobs, known, refused>>

\* flush_registry_due, and send_registry under it: what is due and not in
\* flight is asked for again; the rest stays remembered.
Forgetful(wanted)  == wanted \cap rested
Remembered(wanted) == wanted

Flying(flying, now) == flying \cup now

Send(wanted, flying) ==
    LET now == {k \in wanted : k \notin flying /\ k \in rested} IN
    /\ again' = Remembered(wanted) \ now
    /\ inflight' = Flying(flying, now) /\ asked' = asked \cup now
    /\ rested' = rested \ now

Hear ==
    /\ stream # <<>> /\ stream' = Tail(stream)
    /\ LET m == Head(stream) IN
         IF m.what = "event"
         THEN Send(again \cup {m.kind}, inflight) /\ UNCHANGED <<registryJobs, refused>>
         ELSE /\ Send(again, inflight \ {m.kind})
              /\ IF m.what = "answer"
                 THEN /\ registryJobs' = Append(registryJobs, [kind |-> m.kind, list |-> m.list])
                      /\ refused' = refused \ {m.kind}
                 ELSE refused' = refused \cup {m.kind} /\ UNCHANGED registryJobs
    /\ UNCHANGED <<registry, connected, known, feed>>

\* Another message, or five seconds without one.
FlushDue ==
    /\ connected /\ Send(again, inflight)
    /\ UNCHANGED <<registry, stream, connected, registryJobs, known, feed, refused>>

Rest(k) ==
    /\ k \notin rested /\ rested' = rested \cup {k}
    /\ UNCHANGED <<registry, asked, stream, connected, inflight, again, registryJobs, known, feed,
                   refused>>

\* _registry_update, in the registry worker.
AnyJob  == DOMAIN registryJobs
NextJob == {1} \cap DOMAIN registryJobs

Apply ==
    /\ \E i \in NextJob :
         /\ known' = [known EXCEPT ![registryJobs[i].kind] = registryJobs[i].list]
         /\ registryJobs' = SubSeq(registryJobs, 1, i - 1) \o SubSeq(registryJobs, i + 1, Len(registryJobs))
    /\ UNCHANGED <<registry, asked, stream, connected, inflight, again, rested,
                   feed, refused>>

FeedNext ==
    \/ \E k \in Kinds : RegistryChanges(k) \/ Answers(k) \/ Refuses(k) \/ Rest(k)
    \/ Connect \/ FeedBreaks \/ Hear \/ FlushDue \/ Apply

FeedSpec == FeedInit /\ [][FeedNext]_feedVars

-----------------------------------------------------------------------------
(* Properties                                                                *)

\* A list is never replaced by an older one, whatever the connections did
\* (engine.py:342, 507-545).
RegistryNeverRewinds == [][\A k \in Kinds : known'[k] >= known[k]]_feedVars

\* However updates and requests overlap, the engine ends up with the last list,
\* unless the last answer was a refusal (engine.py:91-124, 171-190).
RegistryCatchesUp == <>[](\A k \in Kinds : known[k] = registry[k] \/ k \in refused)
=============================================================================
