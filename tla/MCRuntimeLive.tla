---------------------------- MODULE MCRuntimeLive ----------------------------
(* Small instances for liveness: StateSync, EngineLoop, RegistryFeed,        *)
(* TrainingQueue and ExploreSessions, which share no state.  `part` says     *)
(* which one a behaviour is about; the others stay in their initial state.   *)
EXTENDS StateSync, EngineLoop, RegistryFeed, MCTrainingQueue, ExploreSessions, TLC

CONSTANTS e1, worker, requester, b3, k1

VARIABLE part

liveVars == <<part, syncVars, loopVars, feedVars, vars, exploreVars>>

Dependencies == [t \in LoopTargets |-> {t, b3}]

OneOutcome == <<1>>
OneSession == {[trials |-> [p \in Probers |-> 2], sessions |-> 1, wishes |-> 0, deaths |-> 1]}

LiveInit(parts) ==
    /\ part \in parts
    /\ SyncInit /\ LoopInit /\ FeedInit /\ Init /\ ExploreInit
    /\ part # "explore" => config = Off

LiveNext ==
    /\ UNCHANGED part
    /\ \/ part = "sync" /\ SyncNext /\ UNCHANGED <<loopVars, feedVars, vars, exploreVars>>
       \/ part = "loop" /\ LoopNext /\ UNCHANGED <<syncVars, feedVars, vars, exploreVars>>
       \/ part = "feed" /\ FeedNext /\ UNCHANGED <<syncVars, loopVars, vars, exploreVars>>
       \/ part = "queue" /\ Next /\ UNCHANGED <<syncVars, loopVars, feedVars, exploreVars>>
       \/ part = "explore" /\ ExploreNext /\ UNCHANGED <<syncVars, loopVars, feedVars, vars>>

\* The WebSocket connects, delivers and confirms; time passes; a poll ends, and
\* not every poll fails.
SyncFair ==
    /\ WF_syncVars(part = "sync" /\ Subscribe)
    /\ WF_syncVars(part = "sync" /\ Confirmed)
    /\ WF_syncVars(part = "sync" /\ Receive)
    /\ WF_syncVars(part = "sync" /\ (Defer \/ Schedule))
    /\ WF_syncVars(part = "sync" /\ PeriodPasses /\ SyncTime)
    /\ WF_syncVars(part = "sync" /\ DeferPasses /\ SyncTime)
    /\ WF_syncVars(part = "sync" /\ WaitPasses /\ SyncTime)
    /\ \A p \in Pollers : /\ WF_syncVars(part = "sync" /\ (Answer(p) \/ PollFails(p)))
                          /\ SF_syncVars(part = "sync" /\ Answer(p))
                          /\ WF_syncVars(part = "sync" /\ Merge(p))

\* The engine thread runs, workers end and their callbacks are called.
LoopFair ==
    /\ WF_loopVars(part = "loop" /\ LoopStep)
    /\ WF_loopVars(part = "loop" /\ OpenGate)
    /\ WF_loopVars(part = "loop" /\ GraceEnds)
    /\ \A t \in LoopTargets : /\ WF_loopVars(part = "loop" /\ TargetDone(t))
                             /\ WF_loopVars(part = "loop" /\ RetryCompleted(t))

\* The stream connects and reads, Home Assistant answers, the worker applies.
FeedFair ==
    /\ WF_feedVars(part = "feed" /\ Connect)
    /\ WF_feedVars(part = "feed" /\ Hear)
    /\ WF_feedVars(part = "feed" /\ FlushDue)
    /\ WF_feedVars(part = "feed" /\ Apply)
    /\ \A k \in Kinds : /\ WF_feedVars(part = "feed" /\ (Answers(k) \/ Refuses(k)))
                       /\ WF_feedVars(part = "feed" /\ Rest(k))

\* Threads run, and every heavy job ends (TrainingQueue's Fairness).
QueueFair ==
    /\ \A t \in Threads : WF_vars(part = "queue" /\ ThreadStep(t))
    /\ \A a \in Agents : /\ WF_vars(part = "queue" /\ JobEnds(a))
                        /\ WF_vars(part = "queue" /\ ReleaseGate(a))
    /\ WF_vars(part = "queue" /\ OtherEnds)

\* The thread that holds experiments.lock and the candidate worker go on.
ExploreFair ==
    /\ WF_exploreVars(part = "explore" /\ CloseStep)
    /\ WF_exploreVars(part = "explore" /\ CommitModel)
    /\ WF_exploreVars(part = "explore" /\ \E passed \in BOOLEAN : PersistGate(passed))
    /\ WF_exploreVars(part = "explore" /\ ReportTraining)
    /\ \A k \in Sessions : WF_exploreVars(part = "explore" /\ TrainChild(k))

LiveSpec == LiveInit({"sync", "loop", "feed", "queue", "explore"}) /\ [][LiveNext]_liveVars
            /\ SyncFair /\ LoopFair /\ FeedFair /\ QueueFair /\ ExploreFair
=============================================================================
