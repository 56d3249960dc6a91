--------------------------- MODULE CandidateBuild ----------------------------
(* The candidate of one live agent (agent_candidates.py and the modules that *)
(* wrap it): feedback marks a row of agent_candidates, one worker builds the *)
(* candidate, the engine compares it with the live agent, the user promotes  *)
(* or discards it.  manager.lock orders feedback, configuration and promote; *)
(* the worker, discard, coalesce and the engine write the row without it,    *)
(* each after decisions it made from a copy.                                 *)
EXTENDS Naturals, FiniteSets

CONSTANTS Askers,      \* threads that bring feedback or ask for a build
          Limits,      \* how many of each there are: asks, drops, looks, swaps, deaths
          MaxTally     \* and how many together

Events == {"asks", "drops", "looks", "swaps", "deaths"}
ASSUME LimitsAssumption == Limits \in [Events -> Nat] /\ MaxTally \in Nat
ASSUME AskersAssumption == IsFiniteSet(Askers)

VARIABLES
    edge,       \* the row of agent_candidates
    births,     \* candidates created so far: the last one is the newest
    taught,     \* labels the user has given (teaching_labels)
    synced,     \* the last label in the candidate's own dataset
    model,      \* the candidate's model: how often trained, last label learnt, usable
    job,        \* its job in the training queue
    builder, ask, drop, judge, swap,   \* what each thread is doing
    live,       \* the last label that the live agent learnt by a promotion
    raced,      \* history: what fell between a decision and its write
    tally       \* events so far (bounds)

buildVars == <<edge, births, taught, synced, model, job, builder, ask, drop, judge,
               swap, live, raced, tally>>
threadVars == <<builder, ask, drop, judge, swap>>

EdgeStates == {"none", "queued", "building", "comparing", "blocked", "failed", "discarding"}
Verdicts == {"none", "passed", "failed"}
Windows == {"verdict", "judge", "sync", "swap", "drop", "queue", "rebuild"}
CandIds == 0 .. (Limits["asks"])

Edge == [cand : CandIds, state : EdgeStates, asked : Nat, built : Nat, dirty : BOOLEAN,
         drop : 0 .. 2, full : BOOLEAN, verdict : Verdicts, judged : Nat, evidence : BOOLEAN, label : Nat]
Models   == [trained : Nat, learnt : Nat, good : BOOLEAN]
OwnJobs  == [cand : CandIds, phase : {"none", "queued", "active", "stopping"}]
Builders == [step : {"idle", "row", "claim", "fit", "read", "requeue", "persist",
                     "claimJob", "mark", "compare", "gate"}, row : Edge, rev : Nat]
AskKinds == {"feedback", "build", "config", "coalesce"}
Asks     == [step : {"idle", "mark"}, kind : AskKinds, saw : EdgeStates, cand : CandIds, label : Nat]
Drops    == [step : {"idle", "look", "delete", "defer", "again"}, cand : CandIds]
Looks    == [step : {"idle", "write"}, cand : CandIds, next : EdgeStates]
Swaps    == [step : {"idle", "handing"}, cand : CandIds, learnt : Nat]

NoEdge == [cand |-> 0, state |-> "none", asked |-> 0, built |-> 0, dirty |-> FALSE,
           drop |-> 0, full |-> FALSE, verdict |-> "none", judged |-> 0,
           evidence |-> FALSE, label |-> 0]
NewEdge(c) == [NoEdge EXCEPT !.cand = c, !.state = "queued", !.dirty = TRUE]
EdgeExists == edge.cand # 0
IsEdgeOf(c) == c # 0 /\ edge.cand = c

\* UPDATE ... WHERE parent_agent_id=?: it touches whatever row the agent has now.
Write(new) == edge' = IF EdgeExists THEN new ELSE edge

\* What status_for says of candidate c.
JobPhase(c) == IF job.cand = c THEN job.phase ELSE "none"
NoJob == [cand |-> 0, phase |-> "none"]

\* Mutant: only the revisions are compared.
FreshByRevision(e) == e.asked = e.built

\* _comparison_summary and the gate.
Fresh(e) == e.asked = e.built /\ ~e.dirty
Promotable == /\ EdgeExists /\ Fresh(edge) /\ edge.evidence /\ edge.verdict = "passed"
              /\ model.good /\ JobPhase(edge.cand) = "none"

\* Who holds manager.lock.
LockFree == /\ swap.step = "idle"
            /\ \A a \in Askers : ask[a].step = "idle" \/ ask[a].kind = "coalesce"

Total == tally["asks"] + tally["drops"] + tally["looks"] + tally["swaps"] + tally["deaths"]
Below(e) == tally[e] < Limits[e] /\ Total < MaxTally
Spend(e) == tally' = [tally EXCEPT ![e] = @ + 1]

IdleWorker == [step |-> "idle", row |-> NoEdge, rev |-> 0]
IdleAsk   == [step |-> "idle", kind |-> "feedback", saw |-> "none", cand |-> 0, label |-> 0]
IdleSwap  == [step |-> "idle", cand |-> 0, learnt |-> 0]
IdleDrop  == [step |-> "idle", cand |-> 0]
IdleJudge == [step |-> "idle", cand |-> 0, next |-> "none"]

BuildInit ==
    /\ edge = NoEdge /\ births = 0 /\ taught = 0 /\ synced = 0 /\ live = 0
    /\ model = [trained |-> 0, learnt |-> 0, good |-> FALSE]
    /\ job = NoJob /\ builder = IdleWorker /\ ask = [a \in Askers |-> IdleAsk]
    /\ drop = IdleDrop /\ judge = IdleJudge /\ swap = IdleSwap
    /\ raced = {} /\ tally = [e \in Events |-> 0]

-----------------------------------------------------------------------------
(* Feedback and requests.  Each reads the row and writes it afterwards.       *)

\* The windows in which a mark escapes a decision that was already made.
OpenWindows ==
    (IF builder.step \in {"persist", "compare", "gate"} THEN {"verdict"} ELSE {})
    \cup (IF builder.step \in {"claimJob", "mark"} THEN {"sync"} ELSE {})
    \cup (IF swap.step # "idle" THEN {"swap"} ELSE {})

\* enqueue ("feedback"), request_build ("build"), Store.update_agent of the live
\* agent ("config"), _coalesce_child ("coalesce").
AskLook(a, kind) ==
    /\ ask[a].step = "idle" /\ Below("asks") /\ Spend("asks")
    /\ kind # "coalesce" => LockFree
    /\ kind = "coalesce" => EdgeExists
    /\ kind = "config" => EdgeExists /\ edge.state # "discarding"
    /\ taught' = IF kind \in {"feedback", "coalesce"} THEN taught + 1 ELSE taught
    /\ IF EdgeExists THEN UNCHANGED <<edge, births, synced, model, raced>>
       ELSE /\ births' = births + 1
            /\ edge' = NewEdge(births + 1)
            /\ synced' = 0
            /\ model' = [trained |-> 0, learnt |-> live, good |-> TRUE]
            /\ raced' = OpenWindows
    /\ ask' = [ask EXCEPT ![a] = [step |-> "mark", kind |-> kind, saw |-> edge'.state,
                                  cand |-> edge'.cand, label |-> taught']]
    /\ UNCHANGED <<job, builder, drop, judge, swap, live>>

NextState(saw) == IF saw = "building" THEN "building" ELSE "queued"

Marked(q) ==
    CASE q.kind \in {"feedback", "coalesce"} ->
           [edge EXCEPT !.asked = @ + 1, !.dirty = TRUE, !.state = NextState(q.saw),
                        !.full = FALSE, !.drop = 0, !.label = q.label, !.evidence = FALSE,
                        !.verdict = IF q.kind = "coalesce" THEN "none" ELSE @]
      [] q.kind = "config" ->
           [edge EXCEPT !.dirty = TRUE, !.state = NextState(q.saw), !.full = TRUE,
                        !.evidence = FALSE]
      [] q.kind = "build" /\ q.saw = "building" -> edge
      [] q.kind = "build" /\ q.saw = "queued" -> [edge EXCEPT !.full = FALSE, !.drop = 0]
      [] OTHER -> [edge EXCEPT !.state = "queued", !.dirty = TRUE, !.full = FALSE, !.drop = 0,
                               !.evidence = FALSE]

\* The windows that a mark closes: the worker will look at the row again.
Reopened(e) ==
    (IF e.state \in {"queued", "building"} THEN {"verdict", "judge"} ELSE {})
    \cup (IF e.dirty /\ e.drop = 0 THEN {"drop"} ELSE {})

AskMark(a) ==
    /\ ask[a].step = "mark"
    /\ IF ask[a].kind = "coalesce" /\ ~IsEdgeOf(ask[a].cand) THEN UNCHANGED edge
       ELSE Write(Marked(ask[a]))
    /\ raced' = OpenWindows \cup (raced \ Reopened(edge'))
    /\ ask' = [ask EXCEPT ![a] = IdleAsk]
    /\ UNCHANGED <<births, taught, synced, model, job, builder, drop, judge, swap, live, tally>>

-----------------------------------------------------------------------------
(* The worker thread.  It lists the rows and handles each as it was then.     *)

WorkerGoes(step) == builder' = [builder EXCEPT !.step = step]
WorkerRests == builder' = IdleWorker
WorkerFrame == UNCHANGED <<births, taught, ask, drop, judge, swap, live, tally>>

\* _fail: "failed" WHERE parent_agent_id.
Fail == Write([edge EXCEPT !.state = "failed"]) /\ WorkerRests

\* _delete_candidate: the queued job, the row WHERE candidate_id, the agent.
DeleteCandidate(c) ==
    /\ edge' = IF IsEdgeOf(c) THEN NoEdge ELSE edge
    /\ job' = IF JobPhase(c) = "queued" THEN NoJob ELSE job
    /\ raced' = IF IsEdgeOf(c) THEN {} ELSE raced

ListRows ==
    /\ builder.step = "idle" /\ edge.state \in {"queued", "building", "discarding"}
    /\ builder' = [step |-> "row", row |-> edge, rev |-> 0]
    /\ WorkerFrame /\ UNCHANGED <<edge, synced, model, job, raced>>

\* The debounce has not passed, or somebody else owns the heavy-job gate.
PutOff ==
    /\ builder.step = "row" /\ builder.row.state = "queued" /\ WorkerRests
    /\ WorkerFrame /\ UNCHANGED <<edge, synced, model, job, raced>>

\* Correct (agent_candidate_conservative_correct): the gate, then the row.
StartCorrect ==
    /\ builder.step = "row" /\ builder.row.state = "queued" /\ ~builder.row.full
    /\ IF ~IsEdgeOf(builder.row.cand) THEN Fail
       ELSE job.phase \notin {"active", "stopping"} /\ WorkerGoes("claim") /\ UNCHANGED edge
    /\ raced' = IF JobPhase(builder.row.cand) = "queued" THEN raced \cup {"queue"} ELSE raced
    /\ WorkerFrame /\ UNCHANGED <<synced, model, job>>

\* Mutant: the verdict of the last build stays.
ClaimKeepingVerdict ==
    /\ builder.step = "claim"
    /\ Write([edge EXCEPT !.state = "building", !.built = builder.row.asked,
                          !.dirty = FALSE, !.evidence = FALSE])
    /\ builder' = [builder EXCEPT !.step = "fit", !.rev = builder.row.asked]
    /\ WorkerFrame /\ UNCHANGED <<synced, model, job, raced>>

ClaimCorrect ==
    /\ builder.step = "claim"
    /\ Write([edge EXCEPT !.state = "building", !.built = builder.row.asked,
                          !.dirty = FALSE, !.verdict = "none", !.evidence = FALSE])
    /\ builder' = [builder EXCEPT !.step = "fit", !.rev = builder.row.asked]
    /\ WorkerFrame /\ UNCHANGED <<synced, model, job, raced>>

\* Copy the live model, sync the labels, fine-tune.
FitCorrect ==
    /\ builder.step = "fit"
    /\ \/ /\ IsEdgeOf(builder.row.cand)
          /\ synced' = taught /\ raced' = raced \ {"sync"}
          /\ model' = [trained |-> model.trained + 1, learnt |-> taught, good |-> TRUE]
          /\ WorkerGoes("read") /\ UNCHANGED edge
       \/ Fail /\ UNCHANGED <<synced, model, raced>>
    /\ WorkerFrame /\ UNCHANGED job

\* Mutant: feedback that came during the fine-tune is not looked for.
ReadBackBlind ==
    /\ builder.step = "read"
    /\ builder' = [builder EXCEPT !.row = IF EdgeExists THEN edge ELSE builder.row, !.step = "persist"]
    /\ WorkerFrame /\ UNCHANGED <<edge, synced, model, job, raced>>

\* Is there newer feedback?  Decided from this copy, written in the next step.
ReadBack ==
    /\ builder.step = "read"
    /\ LET fresh == IF EdgeExists THEN edge ELSE builder.row IN
       builder' = [builder EXCEPT !.row = fresh,
                    !.step = IF fresh.asked > builder.rev \/ fresh.dirty THEN "requeue" ELSE "persist"]
    /\ WorkerFrame /\ UNCHANGED <<edge, synced, model, job, raced>>

\* Mutant: marked dirty, but left as it is.
RequeueInPlace ==
    /\ builder.step = "requeue"
    /\ Write([edge EXCEPT !.dirty = TRUE])
    /\ WorkerRests
    /\ WorkerFrame /\ UNCHANGED <<synced, model, job, raced>>

Requeue ==
    /\ builder.step = "requeue"
    /\ Write([edge EXCEPT !.state = "queued", !.dirty = TRUE])
    /\ WorkerRests
    /\ WorkerFrame /\ UNCHANGED <<synced, model, job, raced>>

\* _persist_gate: the verdict on the model that was just measured.
Judged(v) == [edge EXCEPT !.verdict = v, !.judged = model.trained,
                          !.state = IF v = "passed" THEN "comparing" ELSE "blocked"]
Persist ==
    /\ builder.step = "persist"
    /\ \E v \in {"passed", "failed"} : Write(Judged(v))
    /\ raced' = raced \ (IF JobPhase(builder.row.cand) = "none" THEN {"rebuild", "queue"} ELSE {"rebuild"})
    /\ WorkerRests
    /\ WorkerFrame /\ UNCHANGED <<synced, model, job>>

\* Mutant: a full rebuild trains on the dataset of the last one.
StartFullUnsynced ==
    /\ builder.step = "row" /\ builder.row.state = "queued" /\ builder.row.full
    /\ IF ~EdgeExists THEN Fail
       ELSE /\ JobPhase(edge.cand) \notin {"active", "stopping"}
            /\ builder' = [builder EXCEPT !.step = "claimJob", !.row = edge] /\ UNCHANGED edge
    /\ WorkerFrame /\ UNCHANGED <<synced, model, job, raced>>

\* Full rebuild (config_change): labels are synced, a job is claimed, the row is
\* marked with the revision it has by then.
StartFull ==
    /\ builder.step = "row" /\ builder.row.state = "queued" /\ builder.row.full
    /\ IF ~EdgeExists THEN Fail /\ UNCHANGED <<synced, raced>>
       ELSE /\ JobPhase(edge.cand) \notin {"active", "stopping"}
            /\ synced' = taught /\ raced' = raced \ {"sync"}
            /\ builder' = [builder EXCEPT !.step = "claimJob", !.row = edge] /\ UNCHANGED edge
    /\ WorkerFrame /\ UNCHANGED <<model, job>>

ClaimJob ==
    /\ builder.step = "claimJob"
    /\ IF ~IsEdgeOf(builder.row.cand) THEN Fail /\ UNCHANGED job
       ELSE /\ job.phase \in {"none", "queued"}
            /\ job' = [cand |-> builder.row.cand, phase |-> "queued"]
            /\ WorkerGoes("mark") /\ UNCHANGED edge
    /\ WorkerFrame /\ UNCHANGED <<synced, model, raced>>

MarkFull ==
    /\ builder.step = "mark"
    /\ Write([edge EXCEPT !.state = "building", !.built = edge.asked, !.dirty = FALSE,
                          !.evidence = FALSE])
    /\ raced' = IF edge.verdict = "none" THEN raced ELSE raced \cup {"rebuild"}
    /\ WorkerRests
    /\ WorkerFrame /\ UNCHANGED <<synced, model, job>>

\* _finish_build_if_ready: a discard first, then failure, newer feedback, success.
FinishBuild ==
    /\ builder.step = "row" /\ builder.row.state \in {"building", "discarding"}
    /\ LET fresh == IF EdgeExists THEN edge ELSE builder.row IN
       /\ JobPhase(fresh.cand) = "none"
       /\ \/ fresh.drop > 0 /\ DeleteCandidate(fresh.cand) /\ WorkerRests
          \/ fresh.drop = 0 /\ ~(EdgeExists /\ model.good) /\ Fail /\ UNCHANGED <<job, raced>>
          \/ /\ fresh.drop = 0 /\ EdgeExists /\ model.good
             /\ builder' = [builder EXCEPT !.row = fresh, !.rev = IF builder.row.full THEN 1 ELSE 0,
                             !.step = IF fresh.asked > fresh.built \/ fresh.dirty
                                      THEN "requeue" ELSE "compare"]
             /\ UNCHANGED <<edge, job, raced>>
    /\ WorkerFrame /\ UNCHANGED <<synced, model>>

\* The job still runs: wait for the next round.
FinishLater ==
    /\ builder.step = "row" /\ builder.row.state \in {"building", "discarding"}
    /\ JobPhase((IF EdgeExists THEN edge ELSE builder.row).cand) # "none"
    /\ WorkerRests
    /\ WorkerFrame /\ UNCHANGED <<edge, synced, model, job, raced>>

Compare ==
    /\ builder.step = "compare"
    /\ Write([edge EXCEPT !.state = "comparing", !.evidence = FALSE])
    /\ IF builder.rev = 1 THEN WorkerGoes("gate") ELSE WorkerRests
    /\ WorkerFrame /\ UNCHANGED <<synced, model, job, raced>>

\* After a full rebuild the gate is computed unless the row has a verdict.
FullGate ==
    /\ builder.step = "gate"
    /\ IF EdgeExists /\ edge.state = "comparing" /\ edge.verdict = "none"
       THEN WorkerGoes("persist") ELSE WorkerRests
    /\ WorkerFrame /\ UNCHANGED <<edge, synced, model, job, raced>>

\* The training queue runs the job; a cancelled or failed one leaves no model.
CandidateStarts ==
    /\ job.phase = "queued" /\ builder.step \notin {"claim", "fit", "read", "requeue", "persist"}
    /\ job' = [job EXCEPT !.phase = "active"]
    /\ UNCHANGED <<edge, births, taught, synced, model, builder, ask, drop, judge, swap, live, raced, tally>>

CandidateEnds ==
    /\ job.phase \in {"active", "stopping"} /\ job' = NoJob
    /\ \/ /\ job.phase = "active" /\ IsEdgeOf(job.cand)
          /\ model' = [trained |-> model.trained + 1, learnt |-> synced, good |-> TRUE]
       \/ model' = IF IsEdgeOf(job.cand) THEN [model EXCEPT !.good = FALSE] ELSE model
    /\ UNCHANGED <<edge, births, taught, synced, threadVars, live, raced, tally>>

-----------------------------------------------------------------------------
(* Discard, comparison, promotion, restart.                                   *)

\* discard: the intention first, then what the training queue says.
DiscardMark ==
    /\ drop.step = "idle" /\ EdgeExists /\ Below("drops") /\ Spend("drops")
    /\ edge' = [edge EXCEPT !.drop = 2]
    /\ drop' = [IdleDrop EXCEPT !.step = "look"]
    /\ UNCHANGED <<births, taught, synced, model, job, builder, ask, judge, swap, live, raced>>

DiscardLook ==
    /\ drop.step = "look"
    /\ IF JobPhase(edge.cand) \in {"active", "stopping"}
       THEN /\ job' = [job EXCEPT !.phase = "stopping"]
            /\ drop' = [IdleDrop EXCEPT !.step = "defer"]
       ELSE /\ drop' = IF EdgeExists THEN [step |-> "delete", cand |-> edge.cand] ELSE IdleDrop
            /\ UNCHANGED job
    /\ UNCHANGED <<edge, births, taught, synced, model, builder, ask, judge, swap, live, raced, tally>>

DiscardNow ==
    /\ drop.step = "delete" /\ DeleteCandidate(drop.cand) /\ drop' = IdleDrop
    /\ UNCHANGED <<births, taught, synced, model, builder, ask, judge, swap, live, tally>>

DiscardLater ==
    /\ drop.step = "defer"
    /\ Write([edge EXCEPT !.state = "discarding", !.drop = 1, !.dirty = FALSE])
    /\ raced' = IF EdgeExists THEN raced \cup {"drop"} ELSE raced
    /\ drop' = [IdleDrop EXCEPT !.step = "again"]
    /\ UNCHANGED <<births, taught, synced, model, job, builder, ask, judge, swap, live, tally>>

DiscardAgain ==
    /\ drop.step = "again" /\ Write([edge EXCEPT !.drop = 2]) /\ drop' = IdleDrop
    /\ UNCHANGED <<births, taught, synced, model, job, builder, ask, judge, swap, live, raced, tally>>

\* The engine adds a pair to the evidence: it reads the row, derives the state
\* and writes it back WHERE candidate_id.
JudgeLook ==
    /\ judge.step = "idle" /\ edge.state \in {"comparing", "blocked"}
    /\ Below("looks") /\ Spend("looks")
    /\ \E next \in {"comparing"} \cup (IF edge.verdict = "passed" THEN {} ELSE {edge.state}) :
         judge' = [step |-> "write", cand |-> edge.cand, next |-> next]
    /\ UNCHANGED <<edge, births, taught, synced, model, job, builder, ask, drop, swap, live, raced>>

JudgeWrite ==
    /\ judge.step = "write" /\ judge' = IdleJudge
    /\ edge' = IF IsEdgeOf(judge.cand) THEN [edge EXCEPT !.state = judge.next, !.evidence = TRUE] ELSE edge
    /\ raced' = IF edge'.state = edge.state \/ edge.state = "blocked" THEN raced ELSE raced \cup {"judge"}
    /\ UNCHANGED <<births, taught, synced, model, job, builder, ask, drop, swap, live, tally>>

\* promote: checked under manager.lock, then Control changes hands, then one
\* transaction swaps the generations and deletes the row.
PromoteCheck ==
    /\ LockFree /\ Promotable /\ Below("swaps") /\ Spend("swaps")
    /\ swap' = [step |-> "handing", cand |-> edge.cand, learnt |-> model.learnt]
    /\ UNCHANGED <<edge, births, taught, synced, model, job, builder, ask, drop, judge, live, raced>>

PromoteCommit ==
    /\ swap.step = "handing" /\ IsEdgeOf(swap.cand)
    /\ live' = swap.learnt /\ edge' = NoEdge /\ raced' = {} /\ swap' = IdleSwap
    /\ UNCHANGED <<births, taught, synced, model, job, builder, ask, drop, judge, tally>>

\* The hand-over failed, or the candidate is gone: rolled back.
PromoteFails ==
    /\ swap.step = "handing" /\ swap' = IdleSwap
    /\ UNCHANGED <<edge, births, taught, synced, model, job, builder, ask, drop, judge, live, raced, tally>>

\* _recover, then the repairs of lifecycle_hardening and conservative_correct.
RecoveredRow ==
    LET requeued == IF edge.state \in {"building", "discarding"}
                    THEN [edge EXCEPT !.state = "queued", !.dirty = TRUE] ELSE edge
        dropped == IF requeued.drop = 1
                   THEN [requeued EXCEPT !.state = "discarding", !.dirty = FALSE] ELSE requeued
    IN IF dropped.state = "comparing" /\ dropped.verdict = "none"
       THEN [dropped EXCEPT !.state = "queued", !.dirty = TRUE] ELSE dropped

BuildRestart ==
    /\ Below("deaths") /\ Spend("deaths")
    /\ Write(RecoveredRow) /\ job' = NoJob
    /\ builder' = IdleWorker /\ ask' = [a \in Askers |-> IdleAsk]
    /\ drop' = IdleDrop /\ judge' = IdleJudge /\ swap' = IdleSwap
    /\ UNCHANGED <<births, taught, synced, model, live, raced>>

BuilderStep ==
    \/ ListRows \/ PutOff \/ StartCorrect \/ ClaimCorrect \/ FitCorrect \/ ReadBack
    \/ Requeue \/ Persist \/ StartFull \/ ClaimJob \/ MarkFull
    \/ FinishBuild \/ FinishLater \/ Compare \/ FullGate

DiscardStep == DiscardLook \/ DiscardNow \/ DiscardLater \/ DiscardAgain

BuildNext ==
    \/ \E a \in Askers : \/ \E kind \in AskKinds : AskLook(a, kind)
                         \/ AskMark(a)
    \/ BuilderStep \/ CandidateStarts \/ CandidateEnds
    \/ DiscardMark \/ DiscardStep
    \/ JudgeLook \/ JudgeWrite
    \/ PromoteCheck \/ PromoteCommit \/ PromoteFails
    \/ BuildRestart

BuildSpec == BuildInit /\ [][BuildNext]_buildVars

-----------------------------------------------------------------------------
CandTypeOK ==
    /\ edge \in Edge /\ births \in CandIds /\ taught \in Nat /\ synced \in Nat /\ live \in Nat
    /\ model \in Models /\ job \in OwnJobs /\ builder \in Builders
    /\ ask \in [Askers -> Asks] /\ drop \in Drops /\ judge \in Looks /\ swap \in Swaps
    /\ raced \in SUBSET Windows /\ tally \in [Events -> Nat]

\* A request that waits (dirty) is in a state the worker looks at, or the build
\* failed visibly, unless it came between a decision and its write.
WaitingIsSeen ==
    edge.dirty /\ edge.state \in {"comparing", "blocked"} => raced \cap {"verdict", "judge"} # {}

\* A candidate that may be promoted has learnt the labels that were asked for,
\* unless one came between the sync of a full rebuild and its mark, or a
\* deferred discard struck it out.
PromotableHasLearnt ==
    Promotable => model.learnt >= edge.label \/ raced \cap {"sync", "judge", "drop"} # {}

\* The verdict of the offline gate was given on the model that is promoted,
\* unless a full rebuild or a job left in the queue replaced the model since, or
\* a deferred discard called off the request to build again.
GateJudgesThisModel ==
    Promotable => edge.judged = model.trained \/ raced \cap {"rebuild", "queue", "drop"} # {}

\* A promotion deletes no request that waits, except one that came without
\* manager.lock while Control changed hands, or that the worker puts back
\* after a deferred discard struck it out.
PromoteKeepsRequests ==
    [][PromoteCommit /\ edge.dirty => raced \cap {"swap", "drop"} # {}]_buildVars

\* A request that waits for the worker is built or fails visibly, unless a
\* decision made before it overwrites its state.
RequestIsBuilt ==
    edge.dirty ~> ~edge.dirty \/ edge.state = "failed" \/ raced \cap {"verdict", "judge"} # {}

\* agent_candidate_lifecycle_hardening.py:12: "A requested discard survives
\* service restart and is completed without [...] another expensive rebuild".
DiscardSurvivesRestart ==
    [][BuildRestart /\ edge.state = "discarding" => edge'.state = "discarding"]_buildVars
=============================================================================
