------------------------------ MODULE MCRuntime ------------------------------
(* Small instances of the parts of the running add-on that share no state:   *)
(* DeviceArbiter, StateSync, EngineLoop, RegistryFeed and ExploreSessions.   *)
(* `part` says which one a behaviour is about; the others stay in their      *)
(* initial state.                                                            *)
EXTENDS DeviceArbiter, StateSync, EngineLoop, RegistryFeed, ExploreSessions, TLC

CONSTANTS p1, p2, w1, w2, e1, e2, worker, requester, b1, b2, b3, k1

VARIABLE part

Parts == {"arbiter", "sync", "loop", "feed", "explore"}
runtimeVars == <<part, arbiterVars, syncVars, loopVars, feedVars, exploreVars>>

Apart == (p1 :> {1, 3}) @@ (p2 :> {2, 3})
Same  == (p1 :> {2, 3}) @@ (p2 :> {2, 3})
BothLayouts == {Apart, Same}
Dependencies == (b1 :> {b1, b3}) @@ (b2 :> {b2, b3})
BudgetsOneTwo == <<1, 2>>
\* Two sessions; one with a change of the settings and a death; two agents.
ExploreRoom(h, o, s, w, d) == [trials |-> [p \in Probers |-> IF p = Host THEN h ELSE o],
                               sessions |-> s, wishes |-> w, deaths |-> d]
ExploreBounds == {ExploreRoom(3, 0, 2, 0, 0), ExploreRoom(2, 0, 1, 1, 1), ExploreRoom(2, 2, 0, 0, 0)}
HandSymmetry == Permutations(Hands)

RuntimeInit(parts) ==
    /\ part \in parts
    /\ ArbiterInit /\ SyncInit /\ LoopInit /\ FeedInit /\ ExploreInit
    /\ part # "explore" => config = Off /\ left = ExploreRoom(2, 2, 0, 0, 0)

RuntimeNext ==
    /\ UNCHANGED part
    /\ \/ part = "arbiter" /\ ArbiterNext /\ UNCHANGED <<syncVars, loopVars, feedVars, exploreVars>>
       \/ part = "sync" /\ SyncNext /\ UNCHANGED <<arbiterVars, loopVars, feedVars, exploreVars>>
       \/ part = "loop" /\ LoopNext /\ UNCHANGED <<arbiterVars, syncVars, feedVars, exploreVars>>
       \/ part = "feed" /\ FeedNext /\ UNCHANGED <<arbiterVars, syncVars, loopVars, exploreVars>>
       \/ part = "explore" /\ ExploreNext /\ UNCHANGED <<arbiterVars, syncVars, loopVars, feedVars>>

SafetySpec == RuntimeInit(Parts) /\ [][RuntimeNext]_runtimeVars
SyncOnly == RuntimeInit({"sync"}) /\ [][RuntimeNext]_runtimeVars
ExploreOnly == RuntimeInit({"explore"}) /\ [][RuntimeNext]_runtimeVars

\* Types of the five modules.
RuntimeTypeOK == ArbiterTypeOK /\ SyncTypeOK /\ LoopTypeOK /\ FeedTypeOK /\ ExploreTypeOK
=============================================================================
