---------------------------- MODULE StreamProofs ----------------------------
(* Proofs about the state stream (StateSync), the engine loop (EngineLoop)   *)
(* and the registries (RegistryFeed), for any numbers of entities, threads,  *)
(* targets, workers, registries and faults.                                  *)
EXTENDS StateSync, EngineLoop, RegistryFeed, TLAPS

-----------------------------------------------------------------------------
(* EngineLoop                                                                *)

\* Only a pass over taken changes carries retries, and only to targets left.
PassShape ==
    /\ loop.event => loop.pc \in {"route", "dispatch"}
    /\ ~ loop.event \/ loop.pc # "dispatch" => loop.retries = Nothing
    /\ \A t \in LoopTargets : t \notin loop.left => loop.retries[t] = {}
    /\ loop.pc # "dispatch" => loop.left = {}
    /\ loop.warm => loop.changed \subseteq LoopTargets

OwesDeps == \A t \in LoopTargets : owes[t] \subseteq Deps[t]

LoopInv == LoopTypeOK /\ PassShape /\ OwesDeps /\ NoTriggerIsLost

Loops == [pc : {"wait", "clear", "take", "route", "dispatch", "warm", "timer"},
          woke : BOOLEAN, event : BOOLEAN, warm : BOOLEAN,
          changed : SUBSET Sources, retries : EntitySets, left : SUBSET LoopTargets, old : BOOLEAN,
          handled : BOOLEAN]

LEMMA QuietIsALoop == Nothing \in EntitySets /\ Quiet \in Loops
  BY DEF Nothing, EntitySets, Quiet, Loops

LEMMA LoopStarts == LoopInit => LoopInv
<1> SUFFICES ASSUME LoopInit PROVE LoopInv
  OBVIOUS
<1>0. /\ 0 \in 0 .. MaxArrivals /\ 0 \in 0 .. MaxTimers /\ 0 \in 0 .. MaxFaults
  BY LoopAssumption DEF LoopAssumption
<1>1. LoopTypeOK
  <2>1. loop \in Loops /\ owes \in EntitySets /\ dropped \in EntitySets
        /\ pend \in EntitySets /\ ready \in EntitySets
    BY QuietIsALoop DEF LoopInit
  <2>2. spent \in [arrivals : 0 .. MaxArrivals, timers : 0 .. MaxTimers, faults : 0 .. MaxFaults]
    BY <1>0 DEF LoopInit
  <2> QED BY <2>1, <2>2 DEF LoopInit, LoopTypeOK, Loops
<1>2. PassShape /\ OwesDeps /\ NoTriggerIsLost
  BY DEF LoopInit, PassShape, OwesDeps, NoTriggerIsLost, Quiet, Nothing
<1> QED BY <1>1, <1>2 DEF LoopInv

\* Steps of everybody but the engine thread.
LEMMA OthersKeepTheLoop ==
    ASSUME LoopInv,
           \/ \E e \in Sources : Arrive(e)
           \/ \E t \in LoopTargets : TimerRuns(t) \/ TargetDone(t) \/ RetryCompleted(t)
           \/ OpenGate \/ GraceEnds
    PROVE  LoopInv'
<1>1. ASSUME NEW e \in Sources, Arrive(e) PROVE LoopInv'
  <2>1. LoopTypeOK'
    <3>1. loop' \in Loops
      BY <1>1 DEF LoopInv, LoopTypeOK, Arrive, Loops
    <3>2. owes' \in EntitySets
      BY <1>1 DEF LoopInv, LoopTypeOK, Arrive, EntitySets
    <3>3. spent' \in [arrivals : 0 .. MaxArrivals, timers : 0 .. MaxTimers, faults : 0 .. MaxFaults]
      BY <1>1, LoopAssumption DEF LoopInv, LoopTypeOK, Arrive, LoopAssumption
    <3> QED BY <1>1, <3>1, <3>2, <3>3 DEF LoopInv, LoopTypeOK, Arrive, queues, Loops
  <2>2. PassShape' /\ OwesDeps' /\ NoTriggerIsLost'
    BY <1>1 DEF LoopInv, LoopTypeOK, Arrive, PassShape, OwesDeps, NoTriggerIsLost, queues, EntitySets
  <2> QED BY <2>1, <2>2 DEF LoopInv
<1>2. ASSUME NEW t \in LoopTargets, TimerRuns(t) PROVE LoopInv'
  BY <1>2, LoopAssumption DEF LoopInv, LoopTypeOK, TimerRuns, PassShape, OwesDeps, NoTriggerIsLost, queues, LoopAssumption
<1>3. ASSUME NEW t \in LoopTargets, TargetDone(t) PROVE LoopInv'
  BY <1>3 DEF LoopInv, LoopTypeOK, TargetDone, Called, PassShape, OwesDeps, NoTriggerIsLost
<1>4. ASSUME NEW t \in LoopTargets, RetryCompleted(t) PROVE LoopInv'
  BY <1>4 DEF LoopInv, LoopTypeOK, RetryCompleted, RetryToOwn, PassShape, OwesDeps, NoTriggerIsLost, EntitySets
<1>5. CASE OpenGate \/ GraceEnds
  BY <1>5 DEF LoopInv, LoopTypeOK, OpenGate, GraceEnds, PassShape, OwesDeps, NoTriggerIsLost, queues
<1> QED BY <1>1, <1>2, <1>3, <1>4, <1>5

LEMMA TheLoopKeepsItself == ASSUME LoopInv, LoopStep PROVE LoopInv'
<1>1. CASE Wait \/ ClearWake
  BY <1>1 DEF LoopInv, LoopTypeOK, Wait, ClearWake, PassShape, OwesDeps, NoTriggerIsLost, queues
<1>2. CASE TakeDirty
  <2>1. LoopTypeOK'
    <3>1. Changed \subseteq dirty /\ dirty \subseteq Sources
      BY DEF Changed, LoopInv, LoopTypeOK
    <3>2. [Quiet EXCEPT !.pc = "route", !.event = TRUE, !.changed = Changed] \in Loops
      BY <3>1, QuietIsALoop DEF Loops
    <3>3. [Quiet EXCEPT !.pc = "warm"] \in Loops
      BY QuietIsALoop DEF Loops
    <3>4. loop' \in Loops /\ dirty' \subseteq Sources
      BY <1>2, <3>1, <3>2, <3>3, QuietIsALoop DEF TakeDirty
    <3> QED BY <1>2, <3>4 DEF LoopInv, LoopTypeOK, TakeDirty, queues, Loops
  <2>0. ~ loop.event /\ loop.retries = Nothing /\ loop.left = {}
    BY <1>2 DEF LoopInv, TakeDirty, PassShape
  <2>3. PassShape' /\ OwesDeps'
    <3>1. ~ loop'.warm /\ loop'.retries = Nothing /\ loop'.left = {} /\ loop'.pc # "dispatch"
          /\ (loop'.event => loop'.pc = "route")
      <4>1. \/ loop' = Quiet \/ loop' = [Quiet EXCEPT !.pc = "warm"]
            \/ loop' = [Quiet EXCEPT !.pc = "route", !.event = TRUE, !.changed = Changed]
        BY <1>2 DEF TakeDirty
      <4>2. CASE loop' = Quiet
        BY <4>2 DEF Quiet
      <4>3. CASE loop' = [Quiet EXCEPT !.pc = "warm"]
        BY <4>3 DEF Quiet
      <4>4. CASE loop' = [Quiet EXCEPT !.pc = "route", !.event = TRUE, !.changed = Changed]
        BY <4>4 DEF Quiet
      <4> QED BY <4>1, <4>2, <4>3, <4>4
    <3>2. UNCHANGED owes
      BY <1>2 DEF TakeDirty
    <3> QED BY <3>1, <3>2 DEF LoopInv, Nothing, PassShape, OwesDeps
  <2>4. CASE Changed = {}
    <3>1. dirty' = dirty /\ UNCHANGED <<pend, ready, dropped, owes>>
      BY <1>2, <2>4 DEF TakeDirty, queues, LoopInv, LoopTypeOK
    <3> QED BY <1>2, <2>0, <2>1, <2>3, <2>4, <3>1 DEF LoopInv, Nothing, NoTriggerIsLost
  <2>5. CASE Changed # {} /\ startup = "open"
    <3>1. dirty' = dirty \ Changed /\ UNCHANGED <<pend, ready, dropped, owes>>
      BY <1>2, <2>5 DEF TakeDirty, queues
    <3>2. loop'.event /\ loop'.pc = "route" /\ loop'.changed = Changed
      BY <1>2, <2>5 DEF TakeDirty, Quiet
    <3> QED BY <2>0, <2>1, <2>3, <3>1, <3>2 DEF LoopInv, Nothing, NoTriggerIsLost
  <2>6. CASE startup # "open"
    <3>1. UNCHANGED <<dirty, pend, ready, dropped, owes>>
      BY <1>2, <2>6 DEF TakeDirty, queues
    <3> QED BY <2>0, <2>1, <2>3, <3>1 DEF LoopInv, Nothing, NoTriggerIsLost
  <2>2. PassShape' /\ OwesDeps' /\ NoTriggerIsLost'
    BY <2>1, <2>3, <2>4, <2>5, <2>6 DEF LoopInv
  <2> QED BY <2>1, <2>2 DEF LoopInv
<1>3. CASE Route
  <2>1. LoopTypeOK'
    <3> DEFINE left == {t \in LoopTargets : Concerned(t, loop.changed, IF loop.event THEN ready ELSE Nothing)}
    <3>1. loop' = [loop EXCEPT !.pc = "dispatch", !.retries = IF loop.event THEN ready ELSE Nothing,
                      !.old = FALSE, !.left = left]
      BY <1>3 DEF Route
    <3>2. left \subseteq LoopTargets
      OBVIOUS
    <3> HIDE DEF left
    <3>3. loop \in Loops /\ ready \in EntitySets
      BY DEF LoopInv, LoopTypeOK, Loops
    <3>4. loop' \in Loops
      BY <3>1, <3>2, <3>3, QuietIsALoop DEF Loops
    <3>5. ready' \in EntitySets
      BY <1>3, <3>3, QuietIsALoop DEF Route
    <3>6. UNCHANGED <<dirty, wake, startup, busy, stale, pend, hooked, ended, cold, due, spent,
                      owes, dropped>>
      BY <1>3 DEF Route
    <3> QED BY <3>4, <3>5, <3>6 DEF LoopInv, LoopTypeOK, Loops
  <2>2. PassShape'
    BY <1>3 DEF LoopInv, LoopTypeOK, Route, Concerned, PassShape, Nothing
  <2>3. OwesDeps' /\ NoTriggerIsLost'
    BY <1>3 DEF LoopInv, LoopTypeOK, Route, Concerned, PassShape, OwesDeps, NoTriggerIsLost, Nothing
  <2> QED BY <2>1, <2>2, <2>3 DEF LoopInv
<1>4. CASE RouteFails
  <2>1. LoopTypeOK'
    <3>1. loop' \in Loops /\ ready' \in EntitySets
      BY <1>4, QuietIsALoop DEF LoopInv, LoopTypeOK, RouteFails, Kept
    <3>2. spent' \in [arrivals : 0 .. MaxArrivals, timers : 0 .. MaxTimers, faults : 0 .. MaxFaults]
      BY <1>4, LoopAssumption DEF LoopInv, LoopTypeOK, RouteFails, LoopAssumption
    <3>3. dropped' \in EntitySets
      BY <1>4 DEF LoopInv, LoopTypeOK, RouteFails, EntitySets
    <3>4. cold' \subseteq LoopTargets
      BY <1>4 DEF LoopInv, LoopTypeOK, RouteFails, PassShape
    <3> QED BY <1>4, <3>1, <3>2, <3>3, <3>4 DEF LoopInv, LoopTypeOK, RouteFails, Loops
  <2>2. PassShape' /\ OwesDeps' /\ NoTriggerIsLost'
    BY <1>4 DEF LoopInv, LoopTypeOK, RouteFails, Kept, Quiet, Nothing, PassShape, OwesDeps, NoTriggerIsLost
  <2> QED BY <2>1, <2>2 DEF LoopInv
<1>5. CASE Dispatched
  <2>1. LoopTypeOK'
    BY <1>5, QuietIsALoop DEF LoopInv, LoopTypeOK, Dispatched, Quiet, queues, Loops
  <2>2. PassShape' /\ OwesDeps' /\ NoTriggerIsLost'
    BY <1>5 DEF LoopInv, Dispatched, Quiet, Nothing, queues, PassShape, OwesDeps, NoTriggerIsLost
  <2> QED BY <2>1, <2>2 DEF LoopInv
<1>6. CASE WarmUp
  <2>1. LoopTypeOK' /\ PassShape' /\ OwesDeps' /\ NoTriggerIsLost'
    <3>1. PICK some \in SUBSET StillCold :
            /\ cold' = StillCold \ some
            /\ loop' = IF some # {} THEN WarmPass(some)
                       ELSE IF loop.handled \/ StillCold # {} THEN Quiet
                       ELSE [Quiet EXCEPT !.pc = "timer"]
      BY <1>6 DEF WarmUp
    <3>2. some \subseteq Sources /\ cold' \subseteq LoopTargets
      BY <3>1, LoopAssumption DEF LoopInv, LoopTypeOK, StillCold, LoopAssumption
    <3>3. loop' \in Loops
      <4>1. WarmPass(some) \in Loops
        BY <3>2, QuietIsALoop DEF Loops, WarmPass
      <4>2. [Quiet EXCEPT !.pc = "timer"] \in Loops
        BY QuietIsALoop DEF Loops
      <4> QED BY <3>1, <4>1, <4>2, QuietIsALoop
    <3>4. /\ ~ loop'.event /\ loop'.retries = Nothing /\ loop'.left = {} /\ loop'.pc # "dispatch"
          /\ loop'.changed \subseteq LoopTargets
      BY <3>1 DEF Quiet, WarmPass, LoopInv, LoopTypeOK, StillCold
    <3>5. UNCHANGED <<dirty, wake, startup, busy, stale, pend, ready, hooked, ended, due, spent,
                      owes, dropped>>
      BY <1>6 DEF WarmUp, queues
    <3>6. ~ loop.event /\ loop.retries = Nothing
      BY <1>6 DEF LoopInv, WarmUp, PassShape
    <3>7. PassShape' /\ OwesDeps' /\ NoTriggerIsLost'
      BY <3>4, <3>5, <3>6 DEF LoopInv, Nothing, PassShape, OwesDeps, NoTriggerIsLost
    <3>8. LoopTypeOK'
      BY <3>2, <3>3, <3>5 DEF LoopInv, LoopTypeOK, Loops
    <3> QED BY <3>7, <3>8
  <2> QED BY <2>1 DEF LoopInv
<1>7. CASE Timers
  <2>1. LoopTypeOK'
    BY <1>7, QuietIsALoop, LoopAssumption DEF LoopInv, LoopTypeOK, Timers, Quiet, queues, Loops, LoopAssumption
  <2>2. PassShape' /\ OwesDeps' /\ NoTriggerIsLost'
    BY <1>7 DEF LoopInv, Timers, Quiet, Nothing, queues, PassShape, OwesDeps, NoTriggerIsLost
  <2> QED BY <2>1, <2>2 DEF LoopInv
<1>8. ASSUME NEW t \in LoopTargets, Dispatch(t) PROVE LoopInv'
  <2>1. LoopTypeOK'
    <3>1. loop' \in Loops
      BY <1>8 DEF LoopInv, LoopTypeOK, Dispatch, Loops, EntitySets
    <3>2. Triggers(t) \subseteq Sources
      BY DEF LoopInv, LoopTypeOK, Triggers, EntitySets
    <3>3. pend' \in EntitySets /\ owes' \in EntitySets
      BY <1>8, <3>2 DEF LoopInv, LoopTypeOK, Dispatch, EntitySets
    <3>4. hooked \subseteq hooked' /\ hooked' \subseteq LoopTargets /\ busy' \subseteq LoopTargets
          /\ stale' \subseteq busy' /\ cold' \subseteq LoopTargets
      BY <1>8 DEF LoopInv, LoopTypeOK, Dispatch, HookOnce
    <3> QED BY <1>8, <3>1, <3>3, <3>4 DEF LoopInv, LoopTypeOK, Dispatch, Loops
  <2>2. PassShape'
    BY <1>8 DEF LoopInv, LoopTypeOK, Dispatch, EntitySets, PassShape, Nothing
  <2>3. OwesDeps'
    BY <1>8 DEF LoopInv, LoopTypeOK, Dispatch, EntitySets, OwesDeps
  <2>4. NoTriggerIsLost'
    BY <1>8 DEF LoopInv, LoopTypeOK, Dispatch, EntitySets, OwesDeps, PassShape, Triggers, NoTriggerIsLost, Nothing
  <2> QED BY <2>1, <2>2, <2>3, <2>4 DEF LoopInv
<1> QED BY <1>1, <1>2, <1>3, <1>4, <1>5, <1>6, <1>7, <1>8 DEF LoopStep

LEMMA LoopInvHolds == LoopSpec => []LoopInv
<1>1. LoopInv /\ [LoopNext]_loopVars => LoopInv'
  <2> SUFFICES ASSUME LoopInv, [LoopNext]_loopVars PROVE LoopInv'
    OBVIOUS
  <2>1. CASE LoopStep
    BY <2>1, TheLoopKeepsItself
  <2>2. CASE UNCHANGED loopVars
    BY <2>2 DEF loopVars, queues, LoopInv, LoopTypeOK, PassShape, OwesDeps, NoTriggerIsLost
  <2> QED BY <2>1, <2>2, OthersKeepTheLoop DEF LoopNext
<1> QED BY <1>1, LoopStarts, PTL DEF LoopSpec

\* Type correctness of EngineLoop (engine.py:1182-1547).
THEOREM LoopTyped == LoopSpec => []LoopTypeOK
BY LoopInvHolds, PTL DEF LoopInv

\* A change a target depends on stays where the loop will look, or reaches a
\* worker, unless a failed look-up dropped it (engine.py:1425-1547).
THEOREM ChangesAreKept == LoopSpec => []NoTriggerIsLost
BY LoopInvHolds, PTL DEF LoopInv

-----------------------------------------------------------------------------
(* RegistryFeed: of a registry at most one answer is on its way; what is     *)
(* known is not newer than what is queued, the queue is in order, and the    *)
(* answer is not older than the queue.                                       *)

AnswerOf(i, k) == stream[i].what = "answer" /\ stream[i].kind = k
ReplyOf(i, k)  == stream[i].what # "event" /\ stream[i].kind = k
JobOf(i, k)    == registryJobs[i].kind = k

OneReply(k) ==
    /\ \A i \in DOMAIN stream : ReplyOf(i, k) => k \in inflight /\ k \notin asked
    /\ \A i, j \in DOMAIN stream : ReplyOf(i, k) /\ ReplyOf(j, k) => i = j

InOrder(k) ==
    /\ \A i \in DOMAIN registryJobs : JobOf(i, k) => known[k] <= registryJobs[i].list
    /\ \A i, j \in DOMAIN registryJobs :
         JobOf(i, k) /\ JobOf(j, k) /\ i < j => registryJobs[i].list <= registryJobs[j].list
    /\ \A i \in DOMAIN registryJobs, j \in DOMAIN stream :
         JobOf(i, k) /\ AnswerOf(j, k) => registryJobs[i].list <= stream[j].list
    /\ \A j \in DOMAIN stream : AnswerOf(j, k) => known[k] <= stream[j].list
    /\ \A i \in DOMAIN registryJobs : JobOf(i, k) => registryJobs[i].list <= registry[k]
    /\ \A j \in DOMAIN stream : AnswerOf(j, k) => stream[j].list <= registry[k]
    /\ known[k] <= registry[k] /\ registry[k] <= feed.updates

FeedInv ==
    /\ FeedTypeOK /\ \A k \in Kinds : OneReply(k) /\ InOrder(k)
    /\ ~ connected => stream = <<>> /\ asked = {}

Messages == [what : {"event", "answer", "refusal"}, kind : Kinds, list : 0 .. MaxUpdates]
ListJobs == [kind : Kinds, list : 0 .. MaxUpdates]

\* What Tail and Append do to a queue, position by position.
LEMMA QueueTail ==
    ASSUME NEW S, NEW q \in Seq(S), q # <<>>
    PROVE  /\ Tail(q) \in Seq(S) /\ 1 \in DOMAIN q /\ Head(q) = q[1] /\ Head(q) \in S
           /\ \A i \in DOMAIN Tail(q) : i + 1 \in DOMAIN q /\ Tail(q)[i] = q[i + 1] /\ i >= 1 /\ i \in Nat
           /\ \A i \in DOMAIN q : i # 1 => i - 1 \in DOMAIN Tail(q) /\ i \in Nat /\ i > 1
  OBVIOUS

LEMMA QueueAppend ==
    ASSUME NEW S, NEW q \in Seq(S), NEW x \in S
    PROVE  /\ Append(q, x) \in Seq(S) /\ Len(q) + 1 \in DOMAIN Append(q, x)
           /\ Append(q, x)[Len(q) + 1] = x
           /\ \A i \in DOMAIN q : i \in DOMAIN Append(q, x) /\ Append(q, x)[i] = q[i] /\ i < Len(q) + 1
           /\ \A i \in DOMAIN Append(q, x) : i \in DOMAIN q \/ i = Len(q) + 1
           /\ \A i \in DOMAIN q : i \in Nat
           /\ Len(q) \in Nat
  OBVIOUS

\* What the types say about numbers.
LEMMA FeedNumbers ==
    ASSUME FeedTypeOK
    PROVE  /\ stream \in Seq(Messages) /\ registryJobs \in Seq(ListJobs)
           /\ \A k \in Kinds : known[k] \in Nat /\ registry[k] \in Nat
           /\ \A i \in DOMAIN stream : stream[i] \in Messages /\ stream[i].list \in Nat
           /\ \A i \in DOMAIN registryJobs : registryJobs[i] \in ListJobs /\ registryJobs[i].list \in Nat
           /\ feed.updates \in Nat /\ feed.breaks \in Nat /\ feed.refusals \in Nat
           /\ \A n \in 0 .. MaxUpdates : n \in Nat
<1>1. \A n \in 0 .. MaxUpdates : n \in Nat
  BY FeedAssumption DEF FeedAssumption
<1>2. stream \in Seq(Messages) /\ registryJobs \in Seq(ListJobs)
  BY DEF FeedTypeOK, Messages, ListJobs
<1>3. \A i \in DOMAIN stream : stream[i] \in Messages
  BY <1>2
<1>4. \A i \in DOMAIN registryJobs : registryJobs[i] \in ListJobs
  BY <1>2
<1>5. \A x \in Messages : x.list \in Nat
  BY <1>1 DEF Messages
<1>6. \A x \in ListJobs : x.list \in Nat
  BY <1>1 DEF ListJobs
<1>7. \A k \in Kinds : known[k] \in Nat /\ registry[k] \in Nat
  BY <1>1 DEF FeedTypeOK
<1>8. feed.updates \in Nat /\ feed.breaks \in Nat /\ feed.refusals \in Nat
  BY FeedAssumption DEF FeedTypeOK, FeedAssumption
<1> QED BY <1>1, <1>2, <1>3, <1>4, <1>5, <1>6, <1>7, <1>8

LEMMA FeedStarts == FeedInit => FeedInv
<1> SUFFICES ASSUME FeedInit PROVE FeedInv
  OBVIOUS
<1>1. 0 \in 0 .. MaxUpdates /\ 0 \in 0 .. MaxBreaks /\ 0 \in 0 .. MaxRefusals
  BY FeedAssumption DEF FeedAssumption
<1>2. FeedTypeOK
  <2>1. feed \in [updates : 0 .. MaxUpdates, breaks : 0 .. MaxBreaks, refusals : 0 .. MaxRefusals]
    BY <1>1 DEF FeedInit
  <2>2. registry \in [Kinds -> 0 .. MaxUpdates] /\ known \in [Kinds -> 0 .. MaxUpdates]
    BY <1>1 DEF FeedInit
  <2>3. stream \in Seq(Messages) /\ registryJobs \in Seq(ListJobs)
    BY DEF FeedInit
  <2> QED BY <2>1, <2>2, <2>3 DEF FeedInit, FeedTypeOK, Messages, ListJobs
<1>3. \A k \in Kinds : OneReply(k) /\ InOrder(k)
  BY DEF FeedInit, InOrder, OneReply
<1> QED BY <1>2, <1>3 DEF FeedInv, FeedInit

LEMMA RegistryChangesKeeps ==
    ASSUME FeedInv, NEW k \in Kinds, RegistryChanges(k) PROVE FeedInv'
<1> DEFINE e == [what |-> "event", kind |-> k, list |-> 0]
<1>1. e \in Messages /\ stream \in Seq(Messages)
  BY FeedAssumption DEF FeedInv, FeedTypeOK, FeedAssumption, Messages
<1>2. feed'.updates = feed.updates + 1 /\ feed' \in [updates : 0 .. MaxUpdates, breaks : 0 .. MaxBreaks,
                 refusals : 0 .. MaxRefusals] /\ feed.updates \in Nat
  <2>1. feed.updates \in Nat /\ feed.updates < MaxUpdates /\ feed' = [feed EXCEPT !.updates = @ + 1]
    BY FeedNumbers DEF FeedInv, RegistryChanges
  <2>2. feed.updates + 1 \in 0 .. MaxUpdates
    BY <2>1, FeedAssumption DEF FeedAssumption
  <2> QED BY <2>1, <2>2 DEF FeedInv, FeedTypeOK
<1>3. registry' = [registry EXCEPT ![k] = feed.updates + 1] /\ registry' \in [Kinds -> 0 .. MaxUpdates]
  BY <1>2 DEF FeedInv, FeedTypeOK, RegistryChanges
<1>4. IF connected THEN stream' = Append(stream, e) ELSE stream' = stream
  BY DEF RegistryChanges, Say
<1>5. /\ stream' \in Seq(Messages)
      /\ \A j \in DOMAIN stream' : stream'[j].what # "event" => j \in DOMAIN stream /\ stream'[j] = stream[j]
  BY <1>1, <1>4, QueueAppend
<1>6. FeedTypeOK'
  BY <1>2, <1>3, <1>5 DEF FeedInv, FeedTypeOK, RegistryChanges, Messages
<1>7. ASSUME NEW kk \in Kinds PROVE OneReply(kk)' /\ InOrder(kk)'
  <2>0. UNCHANGED <<known, registryJobs, inflight, asked>>
    BY DEF RegistryChanges
  <2>1. registry[kk] <= registry'[kk] /\ registry'[kk] <= feed'.updates
        /\ registry[kk] \in Nat /\ registry'[kk] \in Nat /\ known[kk] \in Nat
    <3>1. known[kk] \in Nat /\ registry[kk] \in Nat /\ registry[kk] <= feed.updates
      BY FeedNumbers DEF FeedInv, InOrder
    <3>2. registry'[kk] = registry[kk] \/ registry'[kk] = feed.updates + 1
      BY <1>3 DEF FeedInv, FeedTypeOK
    <3> QED BY <1>2, <3>1, <3>2
  <2>2. (\A i \in DOMAIN stream : stream[i].list \in Nat)
        /\ \A i \in DOMAIN registryJobs : registryJobs[i].list \in Nat
    BY FeedNumbers DEF FeedInv
  <2>3. OneReply(kk)'
    BY <2>0, <1>5 DEF FeedInv, OneReply, ReplyOf
  <2>4. InOrder(kk)'
    BY <2>0, <2>1, <2>2, <1>5 DEF FeedInv, InOrder, JobOf, AnswerOf
  <2> QED BY <2>3, <2>4
<1> QED BY <1>4, <1>6, <1>7 DEF FeedInv, RegistryChanges

\* An answer shows the list as it is, a refusal nothing.
LEMMA RepliesKeep ==
    ASSUME FeedInv, NEW k \in Kinds, Answers(k) \/ Refuses(k) PROVE FeedInv'
<1>0. PICK a \in Messages :
        /\ stream' = Append(stream, a) /\ a.what # "event" /\ a.kind = k
        /\ a.what = "answer" => a.list = registry[k]
  <2>1. [what |-> "answer", kind |-> k, list |-> registry[k]] \in Messages
        /\ [what |-> "refusal", kind |-> k, list |-> 0] \in Messages
    BY FeedAssumption DEF FeedInv, FeedTypeOK, Messages, FeedAssumption
  <2> QED BY <2>1 DEF Answers, Refuses, Say
<1>1. stream \in Seq(Messages)
  BY DEF FeedInv, FeedTypeOK, Messages
<1>2. k \in asked /\ asked' = asked \ {k} /\ connected
      /\ UNCHANGED <<registry, connected, inflight, again, rested, registryJobs, known, refused>>
  BY DEF Answers, Refuses, FeedInv
<1>3. feed' \in [updates : 0 .. MaxUpdates, breaks : 0 .. MaxBreaks, refusals : 0 .. MaxRefusals]
      /\ feed'.updates = feed.updates
  BY FeedAssumption DEF FeedInv, FeedTypeOK, Answers, Refuses, FeedAssumption
<1>4. FeedTypeOK'
  BY <1>0, <1>1, <1>2, <1>3, QueueAppend DEF FeedInv, FeedTypeOK, Messages
<1>5. \A j \in DOMAIN stream' :
         \/ j \in DOMAIN stream /\ stream'[j] = stream[j]
         \/ j = Len(stream) + 1 /\ stream'[j] = a
  BY <1>0, <1>1, QueueAppend
<1>6. ASSUME NEW kk \in Kinds PROVE OneReply(kk)' /\ InOrder(kk)'
  <2>1. OneReply(kk)'
    <3>1. \A j \in DOMAIN stream : ~ ReplyOf(j, k)
      BY <1>2 DEF FeedInv, OneReply
    <3>2. k \in inflight
      BY <1>2 DEF FeedInv, FeedTypeOK
    <3> QED BY <1>0, <1>2, <1>5, <3>1, <3>2 DEF FeedInv, OneReply, ReplyOf
  <2>2. InOrder(kk)'
    <3>1. known[kk] \in Nat /\ registry[kk] \in Nat
      BY FeedAssumption DEF FeedInv, FeedTypeOK, FeedAssumption
    <3> QED BY <1>0, <1>2, <1>3, <1>5, <3>1 DEF FeedInv, InOrder, JobOf, AnswerOf
  <2> QED BY <2>1, <2>2
<1> QED BY <1>2, <1>4, <1>6 DEF FeedInv

LEMMA HearKeeps == ASSUME FeedInv, Hear PROVE FeedInv'
<1> DEFINE m == Head(stream)
<1>1. stream \in Seq(Messages) /\ stream # <<>> /\ registryJobs \in Seq(ListJobs)
  BY DEF FeedInv, FeedTypeOK, Hear, Messages, ListJobs
<1>2. /\ m \in Messages /\ m = stream[1] /\ 1 \in DOMAIN stream
      /\ stream' = Tail(stream) /\ stream' \in Seq(Messages)
      /\ \A i \in DOMAIN stream' : i + 1 \in DOMAIN stream /\ stream'[i] = stream[i + 1] /\ i >= 1 /\ i \in Nat
  BY <1>1, QueueTail DEF Hear
<1> HIDE DEF m
<1>3. UNCHANGED <<registry, connected, known, feed>> /\ connected
  BY <1>1 DEF Hear, FeedInv
<1>4. /\ asked' \subseteq inflight' /\ inflight' \subseteq Kinds /\ again' \subseteq Kinds
      /\ rested' \subseteq Kinds /\ refused' \subseteq Kinds
      /\ \A k \in Kinds : k \in inflight /\ k \notin asked /\ (m.what # "event" => k # m.kind)
                            => k \in inflight' /\ k \notin asked'
  <2>1. CASE m.what = "event"
    BY <1>2, <2>1 DEF Hear, m, Send, Remembered, Flying, FeedInv, FeedTypeOK, Messages
  <2>2. CASE m.what # "event"
    <3>1. m.kind \in Kinds /\ m.kind \notin asked
      BY <1>2, <2>2 DEF FeedInv, OneReply, ReplyOf, Messages
    <3>2. Send(again, inflight \ {m.kind}) /\ refused' \subseteq refused \cup {m.kind}
      BY <2>2 DEF Hear, m
    <3> QED BY <2>2, <3>1, <3>2 DEF Send, Remembered, Flying, FeedInv, FeedTypeOK
  <2> QED BY <2>1, <2>2
<1>5. ASSUME NEW k \in Kinds PROVE OneReply(k)'
  BY <1>2, <1>4 DEF FeedInv, OneReply, ReplyOf
<1>6. CASE m.what # "answer"
  <2>1. UNCHANGED registryJobs
    BY <1>6 DEF Hear, m
  <2>2. FeedTypeOK'
    BY <1>2, <1>3, <1>4, <2>1 DEF FeedInv, FeedTypeOK, Messages
  <2>3. ASSUME NEW k \in Kinds PROVE InOrder(k)'
    BY <1>2, <1>3, <2>1 DEF FeedInv, InOrder, AnswerOf, JobOf
  <2> QED BY <1>3, <1>5, <2>2, <2>3 DEF FeedInv
<1>7. CASE m.what = "answer"
  <2> DEFINE job == [kind |-> m.kind, list |-> m.list]
  <2>1. registryJobs' = Append(registryJobs, job)
    BY <1>7 DEF Hear, m
  <2>2. job \in ListJobs
    BY <1>2 DEF Messages, ListJobs
  <2>3. /\ registryJobs' \in Seq(ListJobs)
        /\ \A i \in DOMAIN registryJobs' :
             \/ i \in DOMAIN registryJobs /\ registryJobs'[i] = registryJobs[i] /\ i < Len(registryJobs) + 1
             \/ i = Len(registryJobs) + 1 /\ registryJobs'[i] = job
        /\ \A i \in DOMAIN registryJobs : i \in Nat /\ Len(registryJobs) \in Nat /\ i < Len(registryJobs) + 1
    BY <1>1, <2>1, <2>2, QueueAppend
  <2>4. FeedTypeOK'
    BY <1>2, <1>3, <1>4, <2>3 DEF FeedInv, FeedTypeOK, Messages, ListJobs
  <2>5. ASSUME NEW k \in Kinds PROVE InOrder(k)'
    <3>1. CASE k # m.kind
      <4>1. \A i \in DOMAIN registryJobs' : JobOf(i, k)' =>
              i \in DOMAIN registryJobs /\ registryJobs'[i] = registryJobs[i] /\ JobOf(i, k)
        BY <2>3, <3>1 DEF JobOf
      <4>2. \A j \in DOMAIN stream' : AnswerOf(j, k)' =>
              j + 1 \in DOMAIN stream /\ stream'[j] = stream[j + 1] /\ AnswerOf(j + 1, k)
        BY <1>2 DEF AnswerOf
      <4> QED BY <1>3, <4>1, <4>2 DEF FeedInv, InOrder
    <3>2. CASE k = m.kind
      <4>1. AnswerOf(1, k) /\ ReplyOf(1, k)
        BY <1>2, <1>7, <3>2 DEF AnswerOf, ReplyOf
      <4>2. \A j \in DOMAIN stream' : ~ AnswerOf(j, k)'
        BY <1>2, <4>1 DEF FeedInv, OneReply, ReplyOf, AnswerOf
      <4>3. /\ \A i \in DOMAIN registryJobs : JobOf(i, k) => registryJobs[i].list <= m.list
            /\ known[k] <= m.list /\ m.list <= registry[k] /\ m.list \in Nat
        BY <1>2, <4>1, FeedAssumption DEF FeedInv, InOrder, Messages, FeedAssumption
      <4> QED BY <1>3, <2>3, <3>2, <4>2, <4>3 DEF FeedInv, InOrder, JobOf
    <3> QED BY <3>1, <3>2
  <2> QED BY <1>3, <1>5, <2>4, <2>5 DEF FeedInv
<1> QED BY <1>6, <1>7

LEMMA ApplyKeeps ==
    ASSUME FeedInv, Apply
    PROVE  FeedInv' /\ \A k \in Kinds : known'[k] >= known[k]
<1>1. /\ registryJobs \in Seq(ListJobs) /\ registryJobs # <<>> /\ 1 \in DOMAIN registryJobs
      /\ known' = [known EXCEPT ![registryJobs[1].kind] = registryJobs[1].list]
      /\ registryJobs' = SubSeq(registryJobs, 1, 0) \o SubSeq(registryJobs, 2, Len(registryJobs))
  <2>1. registryJobs \in Seq(ListJobs)
    BY FeedNumbers DEF FeedInv
  <2>2. PICK i \in NextJob :
          /\ known' = [known EXCEPT ![registryJobs[i].kind] = registryJobs[i].list]
          /\ registryJobs' = SubSeq(registryJobs, 1, i - 1) \o SubSeq(registryJobs, i + 1, Len(registryJobs))
    BY DEF Apply
  <2>3. i = 1 /\ 1 \in DOMAIN registryJobs
    BY <2>2 DEF NextJob
  <2>4. registryJobs # <<>>
    BY <2>1, <2>3
  <2> QED BY <2>1, <2>2, <2>3, <2>4
<1>2. registryJobs' = Tail(registryJobs)
  BY <1>1
<1>3. /\ registryJobs' \in Seq(ListJobs) /\ registryJobs[1] \in ListJobs
      /\ \A i \in DOMAIN registryJobs' :
           i + 1 \in DOMAIN registryJobs /\ registryJobs'[i] = registryJobs[i + 1] /\ i >= 1 /\ i \in Nat
  BY <1>1, <1>2, QueueTail
<1>4. UNCHANGED <<registry, asked, stream, connected, inflight, again, rested, feed, refused>>
  BY DEF Apply
<1>5. FeedTypeOK'
  BY <1>1, <1>3, <1>4 DEF FeedInv, FeedTypeOK, ListJobs
<1>6. ASSUME NEW k \in Kinds PROVE OneReply(k)' /\ InOrder(k)' /\ known'[k] >= known[k]
  <2>1. OneReply(k)'
    BY <1>4 DEF FeedInv, OneReply, ReplyOf
  <2>2. known[k] \in Nat /\ registryJobs[1].list \in Nat
        /\ \A i \in DOMAIN registryJobs : registryJobs[i].list \in Nat
    BY <1>1, FeedNumbers DEF FeedInv
  <2>3. CASE registryJobs[1].kind = k
    <3>1. known'[k] = registryJobs[1].list /\ JobOf(1, k)
      BY <1>1, <2>3 DEF JobOf, FeedInv, FeedTypeOK
    <3> QED BY <1>1, <1>3, <1>4, <2>1, <2>2, <3>1 DEF FeedInv, InOrder, JobOf, AnswerOf
  <2>4. CASE registryJobs[1].kind # k
    <3>1. known'[k] = known[k]
      BY <1>1, <2>4 DEF FeedInv, FeedTypeOK
    <3> QED BY <1>3, <1>4, <2>1, <2>2, <3>1 DEF FeedInv, InOrder, JobOf, AnswerOf
  <2> QED BY <2>3, <2>4
<1> QED BY <1>4, <1>5, <1>6 DEF FeedInv

LEMMA TheRestKeepsFeed ==
    ASSUME FeedInv,
           Connect \/ FeedBreaks \/ FlushDue \/ \E k \in Kinds : Rest(k)
    PROVE  FeedInv'
<1>1. CASE Connect
  BY <1>1 DEF FeedInv, FeedTypeOK, Connect, OneReply, InOrder, ReplyOf, AnswerOf, JobOf
<1>2. CASE FeedBreaks
  <2>1. feed' \in [updates : 0 .. MaxUpdates, breaks : 0 .. MaxBreaks, refusals : 0 .. MaxRefusals]
        /\ feed'.updates = feed.updates
    <3>1. feed.breaks \in Nat /\ feed.breaks < MaxBreaks /\ feed' = [feed EXCEPT !.breaks = @ + 1]
      BY <1>2, FeedNumbers DEF FeedInv, FeedBreaks
    <3>2. feed.breaks + 1 \in 0 .. MaxBreaks
      BY <3>1, FeedAssumption DEF FeedAssumption
    <3> QED BY <3>1, <3>2 DEF FeedInv, FeedTypeOK
  <2>2. FeedTypeOK'
    <3>1. stream' \in Seq(Messages)
      BY <1>2 DEF FeedBreaks
    <3> QED BY <1>2, <2>1, <3>1 DEF FeedInv, FeedTypeOK, FeedBreaks, Messages
  <2> QED BY <1>2, <2>1, <2>2 DEF FeedInv, FeedBreaks, OneReply, InOrder, JobOf
<1>3. CASE FlushDue
  <2>1. FeedTypeOK'
    BY <1>3 DEF FeedInv, FeedTypeOK, FlushDue, Send, Remembered, Flying
  <2> QED BY <1>3, <2>1 DEF FeedInv, FlushDue, Send, Flying, OneReply, InOrder, ReplyOf, AnswerOf, JobOf
<1>4. ASSUME NEW k \in Kinds, Rest(k) PROVE FeedInv'
  BY <1>4 DEF FeedInv, FeedTypeOK, Rest, OneReply, InOrder, ReplyOf, AnswerOf, JobOf
<1> QED BY <1>1, <1>2, <1>3, <1>4

LEMMA FeedStepKeeps == ASSUME FeedInv, [FeedNext]_feedVars PROVE FeedInv'
<1>1. CASE UNCHANGED feedVars
  BY <1>1 DEF feedVars, FeedInv, FeedTypeOK, OneReply, InOrder, ReplyOf, AnswerOf, JobOf
<1>2. CASE FeedNext
  BY <1>2, RegistryChangesKeeps, RepliesKeep, HearKeeps, ApplyKeeps, TheRestKeepsFeed DEF FeedNext
<1> QED BY <1>1, <1>2

LEMMA FeedInvHolds == FeedSpec => []FeedInv
BY FeedStarts, FeedStepKeeps, PTL DEF FeedSpec

\* Type correctness of RegistryFeed (engine.py:91-190, 342, 507-545).
THEOREM FeedTyped == FeedSpec => []FeedTypeOK
BY FeedInvHolds, PTL DEF FeedInv

\* A list is never replaced by an older one, whatever the connections did
\* (engine.py:342, 507-545).
THEOREM ListsMoveForward == FeedSpec => RegistryNeverRewinds
<1>1. FeedInv /\ [FeedNext]_feedVars => [\A k \in Kinds : known'[k] >= known[k]]_feedVars
  <2> SUFFICES ASSUME FeedInv, FeedNext PROVE \A k \in Kinds : known'[k] >= known[k]
    OBVIOUS
  <2>1. CASE Apply
    BY <2>1, ApplyKeeps
  <2>2. CASE ~ Apply
    <3>1. UNCHANGED known
      BY <2>2 DEF FeedNext, RegistryChanges, Answers, Refuses, Rest, Connect, FeedBreaks, Hear, FlushDue
    <3> QED BY <3>1, FeedAssumption DEF FeedInv, FeedTypeOK, FeedAssumption
  <2> QED BY <2>1, <2>2
<1> QED BY <1>1, FeedInvHolds, PTL DEF FeedSpec, RegistryNeverRewinds

-----------------------------------------------------------------------------
(* StateSync: a state that is not 0 is newer than every other one known of   *)
(* its entity; the last event of an entity on the wire shows what it is; and *)
(* a snapshot that may still be merged is right where nothing is under way.  *)

OnWire(e) == \E i \in DOMAIN wire : wire[i].entity = e
LastOf(i) == \A j \in DOMAIN wire : i < j => wire[j].entity # wire[i].entity
MayMerge(p, e) == polls[p].pc = "answered" /\ e \notin polls[p].newer

Dated(e) ==
    /\ home[e] <= clock /\ stateMap[e] <= clock
    /\ \A i \in DOMAIN wire : wire[i].entity = e => wire[i].state <= clock
    /\ \A p \in Pollers : polls[p].states[e] <= clock
    /\ home[e] # 0 =>
         /\ stateMap[e] <= home[e]
         /\ \A i \in DOMAIN wire : wire[i].entity = e => wire[i].state <= home[e]
         /\ \A p \in Pollers : polls[p].states[e] <= home[e]

WireEnds == \A i \in DOMAIN wire : LastOf(i) => wire[i].state = home[wire[i].entity]

Snapshots(e) ==
    \A p \in Pollers : MayMerge(p, e) /\ polls[p].states[e] # home[e] =>
        /\ home[e] # 0 => stateMap[e] < home[e]
        /\ e \in missed \/ OnWire(e)

SyncInv ==
    /\ SyncTypeOK /\ CurrentIsTrue /\ WireEnds
    /\ \A e \in Entities : Dated(e) /\ Snapshots(e)
    /\ link = "down" => wire = <<>>

Events == [entity : Entities, state : States]
PollsOf == [pc : {"idle", "asked", "answered"}, newer : SUBSET Entities, states : [Entities -> States]]
Resyncs == [urgent : BOOLEAN, due : BOOLEAN, since : BOOLEAN, starved : BOOLEAN, wait : BOOLEAN]

LEMMA SyncNumbers ==
    ASSUME SyncTypeOK
    PROVE  /\ \A s \in States : s \in Nat
           /\ clock \in Nat /\ clock # 0 /\ 0 \in States
           /\ wire \in Seq(Events)
           /\ \A i \in DOMAIN wire : wire[i] \in Events /\ wire[i].entity \in Entities /\ wire[i].state \in Nat
           /\ \A e \in Entities : home[e] \in Nat /\ stateMap[e] \in Nat
           /\ \A p \in Pollers : polls[p] \in PollsOf /\ \A e \in Entities : polls[p].states[e] \in Nat
<1>1. \A s \in States : s \in Nat
  BY SyncAssumption DEF States, SyncAssumption
<1>2. wire \in Seq(Events)
  BY DEF SyncTypeOK, Events
<1>3. \A i \in DOMAIN wire : wire[i] \in Events
  BY <1>2
<1>4. \A x \in Events : x.entity \in Entities /\ x.state \in Nat
  BY <1>1 DEF Events
<1>5. \A p \in Pollers : polls[p] \in PollsOf
  BY DEF SyncTypeOK, PollsOf
<1>6. \A x \in PollsOf, e \in Entities : x.states[e] \in Nat
  BY <1>1 DEF PollsOf
<1>7. \A e \in Entities : home[e] \in Nat /\ stateMap[e] \in Nat
  BY <1>1 DEF SyncTypeOK
<1>8. clock \in Nat /\ clock # 0 /\ 0 \in States
  BY SyncAssumption DEF SyncTypeOK, States, SyncAssumption
<1> QED BY <1>1, <1>2, <1>3, <1>4, <1>5, <1>6, <1>7, <1>8

LEMMA NoPollIsAPoll ==
    /\ NoPoll \in PollsOf /\ NoPoll.pc = "idle" /\ \A e \in Entities : NoPoll.states[e] = 0
    /\ Asking \in PollsOf /\ Asking.pc = "asked" /\ Asking.states = NoPoll.states
<1>1. 0 \in States
  BY SyncAssumption DEF States, SyncAssumption
<1> QED BY <1>1 DEF NoPoll, Asking, PollsOf

\* A poll under way that notes revisions.
LEMMA NotedPoll ==
    ASSUME NEW poll \in PollsOf, NEW es \in SUBSET Entities
    PROVE  /\ Noted(poll, es) \in PollsOf
           /\ Noted(poll, es).pc = poll.pc /\ Noted(poll, es).states = poll.states
           /\ poll.newer \subseteq Noted(poll, es).newer
           /\ poll.pc = "idle" => Noted(poll, es) = poll
           /\ poll.pc # "idle" => es \subseteq Noted(poll, es).newer
  BY DEF Noted, PollsOf

LEMMA SyncStarts == SyncInit => SyncInv
<1> SUFFICES ASSUME SyncInit PROVE SyncInv
  OBVIOUS
<1>1. 0 \in States /\ 1 \in States
  BY SyncAssumption DEF States, SyncAssumption
<1>2. home \in [Entities -> States] /\ stateMap \in [Entities -> States]
      /\ polls \in [Pollers -> PollsOf] /\ resync \in Resyncs
  BY <1>1, NoPollIsAPoll DEF SyncInit, Resyncs, AtRest
<1>3. drops \in 0 .. MaxDrops /\ clock \in States \ {0} /\ wire \in Seq(Events)
  BY <1>1, SyncAssumption DEF SyncInit, SyncAssumption
<1>4. SyncTypeOK
  BY <1>2, <1>3 DEF SyncInit, SyncTypeOK, PollsOf, Resyncs, Events
<1>5. CurrentIsTrue /\ WireEnds
  BY DEF SyncInit, CurrentIsTrue, WireEnds
<1>6. ASSUME NEW e \in Entities PROVE Dated(e) /\ Snapshots(e)
  BY NoPollIsAPoll DEF SyncInit, Dated, Snapshots, MayMerge
<1> QED BY <1>4, <1>5, <1>6 DEF SyncInv, SyncInit

\* A change at Home Assistant is newer than everything known.
LEMMA HomeChangesKeeps ==
    ASSUME SyncInv, NEW e \in Entities, HomeChanges(e) PROVE SyncInv'
<1> DEFINE ev(s) == [entity |-> e, state |-> s]
<1>1. PICK s \in {clock + 1, 0} \ {home[e]} :
        /\ home' = [home EXCEPT ![e] = s]
        /\ wire' = IF link = "down" THEN wire ELSE Append(wire, ev(s))
  BY DEF HomeChanges
<1>2. /\ clock' = clock + 1 /\ clock \in Nat /\ clock' \in States \ {0} /\ s \in States /\ s \in Nat
      /\ s = 0 \/ s = clock + 1
  <2>1. clock \in Nat /\ clock < MaxChanges /\ clock' = clock + 1
    BY SyncNumbers DEF SyncInv, HomeChanges
  <2> QED BY <1>1, <2>1, SyncAssumption DEF States, SyncAssumption
<1>3. UNCHANGED <<link, drops, stateMap, polls, resync>>
  BY DEF HomeChanges
<1>4. /\ home'[e] = s /\ \A x \in Entities : x # e => home'[x] = home[x]
      /\ home' \in [Entities -> States]
  BY <1>1, <1>2 DEF SyncInv, SyncTypeOK
<1>5. missed' = IF link = "down" THEN missed \cup {e} ELSE missed \ {e}
  BY DEF HomeChanges
<1>6. /\ wire' \in Seq(Events)
      /\ \A i \in DOMAIN wire : link # "down" => i \in DOMAIN wire' /\ wire'[i] = wire[i]
      /\ \A i \in DOMAIN wire' : /\ link # "down"
                                 /\ \/ i \in DOMAIN wire /\ wire'[i] = wire[i] /\ i < Len(wire) + 1
                                    \/ i = Len(wire) + 1 /\ wire'[i] = ev(s)
      /\ link # "down" => Len(wire) + 1 \in DOMAIN wire' /\ wire'[Len(wire) + 1] = ev(s)
  <2>1. wire \in Seq(Events) /\ ev(s) \in Events
    BY <1>2, SyncNumbers DEF SyncInv, Events
  <2>2. CASE link = "down"
    BY <1>1, <2>1, <2>2 DEF SyncInv
  <2>3. CASE link # "down"
    BY <1>1, <2>1, <2>3, QueueAppend
  <2> QED BY <2>2, <2>3
<1>7. SyncTypeOK'
  BY <1>2, <1>3, <1>4, <1>5, <1>6 DEF SyncInv, SyncTypeOK, Events
<1>8. link' = "down" => wire' = <<>>
  BY <1>1, <1>3 DEF SyncInv
<1>9. OnWire(e)' \/ e \in missed'
  BY <1>5, <1>6 DEF OnWire
<1>10. \A x \in Entities : x # e => (OnWire(x) => OnWire(x)') /\ (x \in missed => x \in missed')
  BY <1>5, <1>6, SyncNumbers DEF OnWire, SyncInv
<1>11. CurrentIsTrue'
  BY <1>3, <1>4, <1>9, <1>10 DEF SyncInv, CurrentIsTrue, OnWire
<1>12. WireEnds'
  <2> SUFFICES ASSUME NEW i \in DOMAIN wire', LastOf(i)'
               PROVE  wire'[i].state = home'[wire'[i].entity]
    BY DEF WireEnds
  <2>1. CASE i = Len(wire) + 1 /\ wire'[i] = ev(s)
    BY <1>4, <2>1
  <2>2. CASE i \in DOMAIN wire /\ wire'[i] = wire[i] /\ i < Len(wire) + 1
    <3>1. wire[i].entity # e
      BY <1>6, <2>2 DEF LastOf
    <3>2. LastOf(i)
      BY <1>6, <2>2 DEF LastOf
    <3>3. wire[i].entity \in Entities
      BY <2>2, SyncNumbers DEF SyncInv
    <3> QED BY <1>4, <2>2, <3>1, <3>2, <3>3 DEF SyncInv, WireEnds
  <2> QED BY <1>6, <2>1, <2>2
<1>13. ASSUME NEW x \in Entities PROVE Dated(x)' /\ Snapshots(x)'
  <2>1. /\ home[x] \in Nat /\ stateMap[x] \in Nat
        /\ \A p \in Pollers : polls[p].states[x] \in Nat
        /\ \A i \in DOMAIN wire : wire[i].state \in Nat
    BY SyncNumbers DEF SyncInv
  <2>2. Dated(x)
    BY DEF SyncInv
  <2>3. CASE x = e
    <3>1. /\ home'[x] <= clock' /\ stateMap[x] <= clock'
          /\ \A i \in DOMAIN wire' : wire'[i].entity = x => wire'[i].state <= clock'
          /\ \A p \in Pollers : polls[p].states[x] <= clock'
      BY <1>2, <1>4, <1>6, <2>1, <2>2, <2>3 DEF Dated
    <3>2. home'[x] # 0 => home'[x] = clock' /\ stateMap[x] < home'[x]
      BY <1>2, <1>4, <2>1, <2>2, <2>3 DEF Dated
    <3> QED BY <1>3, <1>9, <2>3, <3>1, <3>2 DEF Dated, Snapshots
  <2>4. CASE x # e
    <3>1. home'[x] = home[x]
      BY <1>4, <2>4
    <3>2. \A i \in DOMAIN wire' : wire'[i].entity = x => i \in DOMAIN wire /\ wire'[i] = wire[i]
      BY <1>6, <2>4
    <3>3. Dated(x)'
      BY <1>2, <1>3, <2>1, <2>2, <3>1, <3>2 DEF Dated
    <3>4. Snapshots(x)'
      BY <1>3, <1>10, <2>4, <3>1 DEF SyncInv, Snapshots, MayMerge
    <3> QED BY <3>3, <3>4
  <2> QED BY <2>3, <2>4
<1> QED BY <1>7, <1>8, <1>11, <1>12, <1>13 DEF SyncInv

LEMMA ReceiveKeeps == ASSUME SyncInv, Receive PROVE SyncInv'
<1> DEFINE e == Head(wire).entity
           s == Head(wire).state
<1>1. /\ wire \in Seq(Events) /\ wire # <<>> /\ wire' = Tail(wire) /\ link' = "up"
      /\ UNCHANGED <<home, clock, drops, resync>>
  BY SyncNumbers DEF Receive, SyncInv
<1>2. /\ wire' \in Seq(Events) /\ 1 \in DOMAIN wire /\ wire[1] \in Events
      /\ wire[1].entity = e /\ wire[1].state = s
      /\ \A i \in DOMAIN wire' : i + 1 \in DOMAIN wire /\ wire'[i] = wire[i + 1] /\ i >= 1 /\ i \in Nat
      /\ \A i \in DOMAIN wire : i # 1 => i - 1 \in DOMAIN wire' /\ i \in Nat /\ i > 1
  BY <1>1, QueueTail
<1>3. e \in Entities /\ s \in States /\ s \in Nat
  BY <1>2, SyncNumbers DEF SyncInv, Events
<1>4. IF News(e, s)
      THEN /\ stateMap' = [stateMap EXCEPT ![e] = s]
           /\ polls' = Revised({e}) /\ UNCHANGED missed
      ELSE /\ missed' = IF Ghost(e, s) THEN missed \cup {e} ELSE missed
           /\ UNCHANGED <<stateMap, polls>>
  BY DEF Receive
<1> HIDE DEF e, s
<1>5. \A x \in Entities : OnWire(x) => OnWire(x)' \/ (x = e /\ LastOf(1) /\ s = home[e])
  <2> SUFFICES ASSUME NEW x \in Entities, OnWire(x), ~ OnWire(x)'
               PROVE  x = e /\ LastOf(1) /\ s = home[e]
    OBVIOUS
  <2>1. \A i \in DOMAIN wire : i # 1 => wire[i].entity # x
    <3> SUFFICES ASSUME NEW i \in DOMAIN wire, i # 1, wire[i].entity = x PROVE FALSE
      OBVIOUS
    <3>1. i - 1 \in DOMAIN wire' /\ wire'[i - 1] = wire[i]
      BY <1>2
    <3> QED BY <3>1 DEF OnWire
  <2>2. x = e
    BY <1>2, <2>1 DEF OnWire
  <2>3. LastOf(1)
    BY <1>2, <2>1, <2>2 DEF LastOf
  <2> QED BY <1>2, <2>2, <2>3 DEF SyncInv, WireEnds
<1>6. /\ \A x \in Entities : stateMap'[x] = stateMap[x] \/ (x = e /\ stateMap'[x] = s)
      /\ stateMap' \in [Entities -> States]
      /\ missed \subseteq missed' /\ missed' \subseteq Entities
  BY <1>3, <1>4 DEF SyncInv, SyncTypeOK
<1>7. /\ polls' \in [Pollers -> PollsOf]
      /\ \A p \in Pollers : /\ polls'[p].pc = polls[p].pc /\ polls'[p].states = polls[p].states
                            /\ polls[p].newer \subseteq polls'[p].newer
                            /\ polls[p].pc = "idle" => polls'[p] = polls[p]
                            /\ News(e, s) /\ polls[p].pc # "idle" => e \in polls'[p].newer
  <2>1. polls \in [Pollers -> PollsOf] /\ {e} \in SUBSET Entities
    BY <1>3 DEF SyncInv, SyncTypeOK, PollsOf
  <2>2. CASE News(e, s)
    BY <1>4, <2>1, <2>2, NotedPoll DEF Revised
  <2>3. CASE ~ News(e, s)
    BY <1>4, <2>1, <2>3
  <2> QED BY <2>2, <2>3
<1>8. SyncTypeOK'
  BY <1>1, <1>2, <1>6, <1>7 DEF SyncInv, SyncTypeOK, Events, PollsOf
<1>9. Dated(e) /\ s <= clock /\ (home[e] # 0 => s <= home[e])
  BY <1>2, <1>3 DEF SyncInv, Dated
<1>10. ~ News(e, s) /\ s = home[e] => stateMap[e] = home[e]
  BY <1>3, <1>9, SyncNumbers DEF News, SyncInv, Dated
<1>11. ASSUME NEW x \in Entities PROVE Dated(x)'
  <2>1. Dated(x)
    BY DEF SyncInv
  <2>2. \A i \in DOMAIN wire' : i + 1 \in DOMAIN wire /\ wire'[i] = wire[i + 1]
    BY <1>2
  <2> QED BY <1>1, <1>6, <1>7, <1>9, <2>1, <2>2 DEF Dated
<1>12. CurrentIsTrue'
  <2> SUFFICES ASSUME NEW x \in Entities, stateMap'[x] # home'[x]
               PROVE  x \in missed' \/ OnWire(x)'
    BY DEF CurrentIsTrue, OnWire
  <2>1. CASE stateMap'[x] = stateMap[x] /\ ~ (x = e /\ s = home[e])
    BY <1>1, <1>5, <1>6, <2>1 DEF SyncInv, CurrentIsTrue, OnWire
  <2>2. CASE x = e /\ s = home[e]
    <3>1. ~ News(e, s)
      BY <1>1, <1>3, <1>4, <2>2 DEF SyncInv, SyncTypeOK
    <3> QED BY <1>1, <1>4, <1>10, <2>2, <3>1
  <2>3. CASE x = e /\ stateMap'[x] = s /\ s # home[e]
    <3>1. OnWire(e)
      BY <1>2 DEF OnWire
    <3> QED BY <1>5, <1>3, <2>3, <3>1
  <2> QED BY <1>6, <2>1, <2>2, <2>3
<1>13. WireEnds'
  <2> SUFFICES ASSUME NEW i \in DOMAIN wire', LastOf(i)'
               PROVE  wire'[i].state = home'[wire'[i].entity]
    BY DEF WireEnds
  <2>1. i + 1 \in DOMAIN wire /\ wire'[i] = wire[i + 1] /\ i \in Nat /\ i >= 1
    BY <1>2
  <2>2. LastOf(i + 1)
    <3> SUFFICES ASSUME NEW j \in DOMAIN wire, i + 1 < j PROVE wire[j].entity # wire[i + 1].entity
      BY DEF LastOf
    <3>1. j - 1 \in DOMAIN wire' /\ j \in Nat
      BY <1>2, <2>1
    <3>2. wire'[j - 1] = wire[j] /\ i < j - 1
      BY <1>2, <2>1, <3>1
    <3> QED BY <2>1, <3>1, <3>2 DEF LastOf
  <2> QED BY <1>1, <2>1, <2>2 DEF SyncInv, WireEnds
<1>14. ASSUME NEW x \in Entities PROVE Snapshots(x)'
  <2> SUFFICES ASSUME NEW p \in Pollers, MayMerge(p, x)', polls'[p].states[x] # home'[x]
               PROVE  /\ home'[x] # 0 => stateMap'[x] < home'[x]
                      /\ x \in missed' \/ OnWire(x)'
    BY DEF Snapshots
  <2>1. MayMerge(p, x) /\ polls[p].states[x] # home[x] /\ ~ (x = e /\ News(e, s))
    BY <1>1, <1>7 DEF MayMerge
  <2>2. stateMap'[x] = stateMap[x]
    BY <1>3, <1>4, <2>1 DEF SyncInv, SyncTypeOK
  <2>3. (home[x] # 0 => stateMap[x] < home[x]) /\ (x \in missed \/ OnWire(x))
    BY <2>1 DEF SyncInv, Snapshots
  <2>4. x \in missed' \/ OnWire(x)'
    <3> SUFFICES ASSUME x = e, s = home[e] PROVE x \in missed'
      BY <1>5, <1>6, <2>3
    <3>1. ~ News(e, s) /\ stateMap[e] = home[e]
      BY <1>10, <2>1
    <3>2. home[e] = 0
      BY <2>3, <3>1, SyncNumbers DEF SyncInv
    <3>3. Ghost(e, s)
      BY <2>1, <3>1, <3>2 DEF Ghost, Undone, MayMerge
    <3> QED BY <1>4, <3>1, <3>3
  <2> QED BY <1>1, <2>2, <2>3, <2>4
<1> QED BY <1>1, <1>8, <1>11, <1>12, <1>13, <1>14 DEF SyncInv

\* The other steps of the socket, of the clock and of the polls that do not
\* merge leave what is known and what is true alone.
LEMMA QuietStepsKeep ==
    ASSUME SyncInv,
           \/ Subscribe \/ Confirmed \/ Defer \/ Schedule \/ SyncTime
           \/ \E p \in Pollers : Ask(p) \/ PollFails(p)
    PROVE  SyncInv' /\ UNCHANGED stateMap
<1>1. UNCHANGED <<home, clock, wire, drops, stateMap, missed>>
  BY DEF Subscribe, Confirmed, Defer, Schedule, SyncTime, Ask, PollFails
<1>2. link' = link \/ link' \in {"open", "up"}
  BY DEF Subscribe, Confirmed, Defer, Schedule, SyncTime, Ask, PollFails
<1>3. resync' \in Resyncs
  BY DEF SyncInv, SyncTypeOK, Resyncs, Subscribe, Confirmed, Defer, Schedule, SyncTime, Ask, PollFails,
     PeriodPasses, DeferPasses, WaitPasses
<1>4. \/ polls' = polls
      \/ \E p \in Pollers : polls' = [polls EXCEPT ![p] = Asking]
      \/ \E p \in Pollers : polls' = [polls EXCEPT ![p] = NoPoll]
  BY SyncAssumption DEF SyncAssumption, Subscribe, Confirmed, Defer, Schedule, SyncTime, Ask, PollFails, StartPoll
<1>5. /\ polls' \in [Pollers -> PollsOf]
      /\ \A p \in Pollers :
           \/ polls'[p] = polls[p] \/ polls'[p] = NoPoll
           \/ polls'[p] = Asking
  <2>1. polls \in [Pollers -> PollsOf]
    BY DEF SyncInv, SyncTypeOK, PollsOf
  <2> QED BY <1>4, <2>1, NoPollIsAPoll
<1>6. \A p \in Pollers : /\ polls'[p] = polls[p] \/ polls'[p].pc # "answered"
                         /\ polls'[p] = polls[p] \/ polls'[p].states = NoPoll.states
                         /\ polls'[p].pc = "idle" => polls'[p] = NoPoll
  <2>1. \A p \in Pollers : polls[p].pc = "idle" => polls[p] = NoPoll
    BY DEF SyncInv, SyncTypeOK
  <2> QED BY <1>5, <2>1, NoPollIsAPoll
<1>7. SyncTypeOK'
  BY <1>1, <1>2, <1>3, <1>5, <1>6 DEF SyncInv, SyncTypeOK, PollsOf, Resyncs
<1>8. ASSUME NEW e \in Entities PROVE Dated(e)' /\ Snapshots(e)'
  <2>1. \A p \in Pollers : polls'[p].states[e] = polls[p].states[e] \/ polls'[p].states[e] = 0
    BY <1>6, NoPollIsAPoll
  <2>2. Dated(e) /\ Snapshots(e) /\ home[e] \in Nat /\ clock \in Nat
    BY SyncNumbers DEF SyncInv
  <2>3. Dated(e)'
    BY <1>1, <2>1, <2>2 DEF Dated
  <2>4. Snapshots(e)'
    BY <1>1, <1>6, <2>2 DEF Snapshots, MayMerge, OnWire
  <2> QED BY <2>3, <2>4
<1> QED BY <1>1, <1>2, <1>7, <1>8 DEF SyncInv, CurrentIsTrue, WireEnds, LastOf

LEMMA SocketFailsKeeps == ASSUME SyncInv, SocketFails PROVE SyncInv'
<1>1. /\ wire' = <<>> /\ link' = "down" /\ UNCHANGED <<home, clock, stateMap, polls>>
      /\ missed' = missed \cup {wire[i].entity : i \in DOMAIN wire}
  BY DEF SocketFails
<1>2. drops' \in 0 .. MaxDrops /\ resync' \in Resyncs
  <2>1. drops \in 0 .. MaxDrops /\ drops < MaxDrops /\ drops' = drops + 1 /\ resync \in Resyncs
    BY DEF SocketFails, SyncInv, SyncTypeOK, Resyncs
  <2>2. drops' \in 0 .. MaxDrops
    BY <2>1, SyncAssumption DEF SyncAssumption
  <2>3. resync' \in Resyncs
    BY <2>1 DEF SocketFails, Resyncs
  <2> QED BY <2>2, <2>3
<1>3. missed' \subseteq Entities /\ wire' \in Seq(Events)
  BY <1>1, SyncNumbers DEF SyncInv, SyncTypeOK
<1>4. SyncTypeOK'
  BY <1>1, <1>2, <1>3 DEF SyncInv, SyncTypeOK, Resyncs, Events
<1>5. \A e \in Entities : e \in missed \/ OnWire(e) => e \in missed'
  BY <1>1 DEF OnWire
<1>6. CurrentIsTrue' /\ WireEnds'
  BY <1>1, <1>5 DEF SyncInv, CurrentIsTrue, WireEnds, OnWire
<1>7. ASSUME NEW e \in Entities PROVE Dated(e)' /\ Snapshots(e)'
  BY <1>1, <1>5 DEF SyncInv, Dated, Snapshots, MayMerge
<1> QED BY <1>1, <1>4, <1>6, <1>7 DEF SyncInv

LEMMA AnswerKeeps ==
    ASSUME SyncInv, NEW p \in Pollers, Answer(p) PROVE SyncInv'
<1>1. /\ polls' = [polls EXCEPT ![p].pc = "answered", ![p].states = home]
      /\ UNCHANGED <<home, clock, wire, link, drops, stateMap, resync, missed>>
  BY DEF Answer
<1>2. /\ polls' \in [Pollers -> PollsOf]
      /\ polls'[p].pc = "answered" /\ polls'[p].states = home
      /\ \A q \in Pollers : q # p => polls'[q] = polls[q]
  <2>1. polls \in [Pollers -> PollsOf] /\ home \in [Entities -> States]
    BY DEF SyncInv, SyncTypeOK, PollsOf
  <2>2. polls' \in [Pollers -> PollsOf]
    BY <1>1, <2>1 DEF PollsOf
  <2>3. polls'[p].pc = "answered" /\ polls'[p].states = home
    BY <1>1, <2>1 DEF PollsOf
  <2>4. \A q \in Pollers : q # p => polls'[q] = polls[q]
    BY <1>1, <2>1
  <2> QED BY <2>2, <2>3, <2>4
<1>3. SyncTypeOK'
  BY <1>1, <1>2 DEF SyncInv, SyncTypeOK, PollsOf
<1>4. ASSUME NEW e \in Entities PROVE Dated(e)' /\ Snapshots(e)'
  <2>1. Dated(e) /\ Snapshots(e) /\ home[e] \in Nat
    BY SyncNumbers DEF SyncInv
  <2>2. Dated(e)'
    BY <1>1, <1>2, <2>1 DEF Dated
  <2>3. Snapshots(e)'
    BY <1>1, <1>2, <2>1 DEF Snapshots, MayMerge, OnWire
  <2> QED BY <2>2, <2>3
<1> QED BY <1>1, <1>3, <1>4 DEF SyncInv, CurrentIsTrue, WireEnds, LastOf

LEMMA MergeKeeps ==
    ASSUME SyncInv, NEW p \in Pollers, Merge(p)
    PROVE  /\ SyncInv'
           /\ \A e \in Entities : stateMap[e] # 0 /\ stateMap'[e] # 0 => stateMap'[e] >= stateMap[e]
<1>1. /\ polls[p].pc = "answered" /\ stateMap' = Merged(p) /\ resync' = AtRest
      /\ UNCHANGED <<home, clock, wire, link, drops>>
      /\ polls' = [Revised({e \in Entities : stateMap[e] # Merged(p)[e]}) EXCEPT ![p] = NoPoll]
      /\ missed' = {e \in missed : stateMap'[e] # home[e] \/ Undone(e)'}
  BY DEF Merge
<1>2. /\ stateMap' \in [Entities -> States] /\ missed' \subseteq Entities
      /\ \A e \in Entities : \/ stateMap'[e] = stateMap[e]
                             \/ /\ stateMap'[e] = polls[p].states[e] /\ e \notin polls[p].newer
                                /\ polls[p].states[e] # 0 => polls[p].states[e] >= stateMap[e]
  <2>1. polls[p].states \in [Entities -> States]
    BY SyncNumbers DEF SyncInv, PollsOf
  <2>2. ASSUME NEW x \in Entities PROVE stateMap[x] \in Nat /\ polls[p].states[x] \in Nat
    BY SyncNumbers DEF SyncInv
  <2>3. missed' \subseteq Entities /\ stateMap \in [Entities -> States]
    BY <1>1 DEF SyncInv, SyncTypeOK
  <2>4. \A e \in Entities : stateMap'[e] = Merged(p)[e] /\ Merged(p)[e] =
          IF e \in polls[p].newer \/ (polls[p].states[e] # 0 /\ stateMap[e] > polls[p].states[e])
          THEN stateMap[e] ELSE polls[p].states[e]
    BY <1>1 DEF Merged
  <2>5. stateMap' \in [Entities -> States]
    BY <1>1, <2>1, <2>3 DEF Merged
  <2> QED BY <2>2, <2>3, <2>4, <2>5
<1>3. /\ polls' \in [Pollers -> PollsOf] /\ polls'[p] = NoPoll
      /\ \A q \in Pollers : q # p =>
           /\ polls'[q].pc = polls[q].pc /\ polls'[q].states = polls[q].states
           /\ polls[q].newer \subseteq polls'[q].newer
           /\ polls[q].pc = "idle" => polls'[q] = polls[q]
           /\ polls[q].pc # "idle" => \A e \in Entities : stateMap'[e] # stateMap[e] => e \in polls'[q].newer
  <2> DEFINE es == {e \in Entities : stateMap[e] # Merged(p)[e]}
  <2>1. es \subseteq Entities /\ \A e \in Entities : stateMap'[e] # stateMap[e] => e \in es
    BY <1>1
  <2>2. polls' = [Revised(es) EXCEPT ![p] = NoPoll]
    BY <1>1
  <2> HIDE DEF es
  <2>3. polls \in [Pollers -> PollsOf]
    BY DEF SyncInv, SyncTypeOK, PollsOf
  <2>4. Revised(es) \in [Pollers -> PollsOf]
    BY <2>1, <2>3, NotedPoll DEF Revised
  <2>5. polls' \in [Pollers -> PollsOf] /\ polls'[p] = NoPoll
    BY <2>2, <2>4, NoPollIsAPoll
  <2>6. \A q \in Pollers : q # p => polls'[q] = Noted(polls[q], es)
    BY <2>2, <2>4 DEF Revised
  <2>7. ASSUME NEW q \in Pollers, q # p
        PROVE  /\ polls'[q].pc = polls[q].pc /\ polls'[q].states = polls[q].states
               /\ polls[q].newer \subseteq polls'[q].newer
               /\ polls[q].pc = "idle" => polls'[q] = polls[q]
               /\ polls[q].pc # "idle" => es \subseteq polls'[q].newer
    BY <2>1, <2>3, <2>6, <2>7, NotedPoll
  <2> QED BY <2>1, <2>5, <2>7
<1>4. SyncTypeOK'
  <2>1. resync' \in Resyncs
    BY <1>1 DEF AtRest, Resyncs
  <2>2. \A q \in Pollers : polls'[q].pc = "idle" => polls'[q] = NoPoll
    BY <1>3 DEF SyncInv, SyncTypeOK
  <2> QED BY <1>1, <1>2, <1>3, <2>1, <2>2 DEF SyncInv, SyncTypeOK, PollsOf, Resyncs
<1>5. ASSUME NEW x \in Entities PROVE Dated(x) /\ Snapshots(x)
  BY DEF SyncInv
<1>6. ASSUME NEW e \in Entities PROVE Dated(e)'
  <2>1. Dated(e) /\ home[e] \in Nat /\ clock \in Nat /\ stateMap[e] \in Nat
    BY SyncNumbers DEF SyncInv
  <2>2. \A q \in Pollers : polls'[q].states[e] = polls[q].states[e] \/ polls'[q].states[e] = 0
    BY <1>3, NoPollIsAPoll
  <2>3. stateMap'[e] = stateMap[e] \/ stateMap'[e] = polls[p].states[e]
    BY <1>2
  <2> QED BY <1>1, <2>1, <2>2, <2>3 DEF Dated
<1>7. CurrentIsTrue'
  <2> SUFFICES ASSUME NEW e \in Entities, stateMap'[e] # home'[e]
               PROVE  e \in missed' \/ OnWire(e)'
    BY DEF CurrentIsTrue, OnWire
  <2>1. e \in missed \/ OnWire(e)
    BY <1>1, <1>2, <1>5 DEF SyncInv, CurrentIsTrue, Snapshots, MayMerge, OnWire
  <2> QED BY <1>1, <2>1 DEF OnWire
<1>8. ASSUME NEW e \in Entities PROVE Snapshots(e)'
  <2> SUFFICES ASSUME NEW q \in Pollers, MayMerge(q, e)', polls'[q].states[e] # home'[e]
               PROVE  /\ home'[e] # 0 => stateMap'[e] < home'[e]
                      /\ e \in missed' \/ OnWire(e)'
    BY DEF Snapshots
  <2>1. q # p
    BY <1>3, NoPollIsAPoll DEF MayMerge
  <2>2. MayMerge(q, e) /\ polls[q].states[e] # home[e] /\ stateMap'[e] = stateMap[e]
    BY <1>1, <1>3, <2>1 DEF MayMerge
  <2>3. Undone(e)'
    BY DEF Undone, MayMerge
  <2> QED BY <1>1, <1>5, <2>2, <2>3 DEF Snapshots, OnWire
<1>9. WireEnds'
  BY <1>1 DEF SyncInv, WireEnds, LastOf
<1>10. \A e \in Entities : stateMap[e] # 0 /\ stateMap'[e] # 0 => stateMap'[e] >= stateMap[e]
  BY <1>2, SyncNumbers DEF SyncInv
<1> QED BY <1>1, <1>4, <1>6, <1>7, <1>8, <1>9, <1>10 DEF SyncInv

LEMMA SyncStepKeeps == ASSUME SyncInv, [SyncNext]_syncVars PROVE SyncInv'
<1>1. CASE UNCHANGED syncVars
  BY <1>1 DEF syncVars, SyncInv, SyncTypeOK, CurrentIsTrue, WireEnds, LastOf, Dated, Snapshots, MayMerge, OnWire
<1>2. CASE SyncNext
  BY <1>2, HomeChangesKeeps, ReceiveKeeps, QuietStepsKeep, SocketFailsKeeps, AnswerKeeps, MergeKeeps DEF SyncNext
<1> QED BY <1>1, <1>2

LEMMA SyncInvHolds == SyncSpec => []SyncInv
BY SyncStarts, SyncStepKeeps, PTL DEF SyncSpec

\* Type correctness of StateSync (engine.py:572-788, 1003-1073).
THEOREM SyncTyped == SyncSpec => []SyncTypeOK
BY SyncInvHolds, PTL DEF SyncInv

\* Events and snapshots, in whatever order they are applied, leave a wrong state
\* only where a change is still on the wire or fell in a gap of the socket
\* (engine.py:572-622, 694-780).
THEOREM StatesAreTrue == SyncSpec => []CurrentIsTrue
BY SyncInvHolds, PTL DEF SyncInv

\* No event and no snapshot puts back an older state of an entity
\* (engine.py:584-587, 721-734).
THEOREM StatesMoveForward == SyncSpec => NeverRewinds
<1> DEFINE Forward == \A e \in Entities : stateMap[e] # 0 /\ stateMap'[e] # 0 => stateMap'[e] >= stateMap[e]
<1>1. ASSUME SyncInv, SyncNext PROVE Forward
  <2>0. ASSUME NEW x \in Entities PROVE stateMap[x] \in Nat
    <3>1. SyncTypeOK
      BY <1>1 DEF SyncInv
    <3> QED BY <3>1, SyncNumbers
  <2>1. CASE \E p \in Pollers : Merge(p)
    BY <1>1, <2>1, MergeKeeps
  <2>2. CASE Receive
    <3>1. \A e \in Entities : stateMap'[e] = stateMap[e]
                              \/ stateMap'[e] = 0 \/ stateMap[e] = 0 \/ ~ (stateMap'[e] < stateMap[e])
      BY <1>1, <2>2 DEF Receive, News, SyncInv, SyncTypeOK
    <3>2. \A e \in Entities : stateMap'[e] \in Nat
      BY <1>1, <2>2, ReceiveKeeps, SyncNumbers DEF SyncInv, SyncTypeOK
    <3> QED BY <2>0, <3>1, <3>2
  <2>3. CASE ~ Receive /\ ~ \E p \in Pollers : Merge(p)
    <3>1. UNCHANGED stateMap
      BY <1>1, <2>3 DEF SyncNext, HomeChanges, Subscribe, Confirmed, SocketFails, Ask, Answer, PollFails,
         Defer, Schedule, SyncTime
    <3> QED BY <2>0, <3>1
  <2> QED BY <2>1, <2>2, <2>3
<1>2. SyncInv /\ [SyncNext]_syncVars => [Forward]_syncVars
  BY <1>1
<1> QED BY <1>2, SyncInvHolds, PTL DEF SyncSpec, NeverRewinds
=============================================================================
