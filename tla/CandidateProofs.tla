--------------------------- MODULE CandidateProofs ---------------------------
(* Proofs about CandidateBuild: types, requests that the worker sees, and    *)
(* what a candidate that may be promoted has learnt and was judged on; and   *)
(* that the module TLC runs, MCTraining, is the queue beside the candidates. *)
EXTENDS MCTraining, TrainingQueueProofs

-----------------------------------------------------------------------------
(* The invariant                                                             *)

\* A job of the present candidate is in the training queue.
HasJob == JobPhase(edge.cand) # "none"

\* Nobody knows a candidate that was not created, or a label not given.
Numbered ==
    /\ births <= tally["asks"] /\ tally["asks"] <= Limits["asks"]
    /\ edge.cand <= births /\ job.cand <= births
    /\ builder.row.cand <= births /\ swap.cand <= births
    /\ edge.label <= taught /\ \A a \in Askers : ask[a].label <= taught
    /\ \A a \in Askers : ask[a].step = "mark" => ask[a].saw # "none"

\* A missing row is empty; a row has a state; a queued row waits.
RowShape ==
    /\ ~EdgeExists => edge = NoEdge
    /\ EdgeExists => edge.state # "none"
    /\ edge.state = "queued" => edge.dirty
    /\ builder.step # "idle" => edge.state # "failed"
    /\ edge.drop = 1 => "drop" \in raced
    /\ judge.step = "write" => judge.next \in {"comparing", "blocked"}

\* The worker sees a request that waits, unless it had made up its mind before
\* or evidence was written over the state.
LateMarks ==
    /\ edge.dirty /\ edge.state \in {"comparing", "blocked"} =>
         "verdict" \in raced \/ "judge" \in raced
    /\ builder.step \in {"persist", "compare", "gate"} /\ edge.dirty => "verdict" \in raced

\* Evidence was written back over a state that it had read earlier.
Overwritten == "judge" \in raced /\ edge.state \in {"comparing", "blocked"}

\* From the claim to the end of a Correct: the verdict is erased, and the row
\* was built from the revision the worker claimed, or waits again.
Fitting ==
    builder.step \in {"fit", "read"} =>
        /\ edge.verdict = "none"
        /\ EdgeExists => edge.built = builder.rev \/ edge.dirty \/ "drop" \in raced
        /\ EdgeExists /\ builder.step = "fit" =>
             edge.dirty \/ edge.state = "building" \/ "drop" \in raced \/ Overwritten

\* What the worker found queued still waits until it claims it.
StillWaits ==
    EdgeExists /\ (\/ builder.step \in {"claim", "claimJob", "mark"}
                   \/ builder.step = "row" /\ builder.row.state = "queued")
        => edge.dirty \/ "drop" \in raced

\* A new candidate has no job while the worker is busy with its predecessor,
\* and a Correct starts only when the candidate has none, or one is queued.
JobOfWorker ==
    /\ builder.step # "idle" /\ EdgeExists /\ edge.cand # builder.row.cand => ~HasJob
    /\ builder.step \in {"claim", "fit", "read", "persist", "compare", "gate"} /\ EdgeExists /\ HasJob
         => "queue" \in raced

\* What replaced the judged model, or will before the row is finished.
Retrains == "rebuild" \in raced \/ "queue" \in raced \/ "drop" \in raced \/ edge.dirty

Judgement ==
    EdgeExists /\ edge.verdict # "none" =>
        /\ HasJob => Retrains
        /\ edge.judged = model.trained \/ Retrains

\* The worker puts back only what cannot be promoted.
PutBack ==
    builder.step = "requeue" => edge.verdict # "passed" \/ ~Fresh(edge) \/ "drop" \in raced

\* While Control changes hands nothing makes the candidate wait again.
HandedOver ==
    swap.step = "handing" /\ IsEdgeOf(swap.cand) =>
        \/ Fresh(edge) /\ builder.step # "requeue"
        \/ "swap" \in raced \/ "drop" \in raced

Excused     == edge.dirty \/ "sync" \in raced \/ "drop" \in raced
Learnt      == model.learnt >= edge.label \/ Excused \/ ~model.good \/ Overwritten
Unjudged    == edge.state = "failed" /\ edge.verdict = "none"

\* The model has learnt the labels that were asked for, or will: from the job,
\* whose dataset has them, or from the fine-tune under way.
Learning ==
    EdgeExists =>
        /\ Learnt \/ (HasJob /\ synced >= edge.label) \/ builder.step = "fit" \/ Unjudged
        /\ (\/ edge.state \in {"comparing", "blocked"}
            \/ builder.step \in {"read", "persist", "compare", "gate"}) => Learnt
        /\ HasJob => \/ synced >= edge.label \/ Excused \/ builder.step = "fit"
                     \/ Unjudged \/ Overwritten
        /\ HasJob /\ edge.state = "failed" => edge.verdict = "none"

\* A full rebuild: from the sync of the labels to the mark of the row.
Syncing ==
    EdgeExists =>
        /\ builder.step \in {"claimJob", "mark"} => synced >= edge.label \/ "sync" \in raced
        /\ builder.step = "mark" => \/ "sync" \in raced \/ (HasJob /\ synced >= edge.label)
                                    \/ model.learnt >= edge.label \/ ~model.good

CandInv ==
    /\ CandTypeOK /\ Numbered /\ RowShape /\ LateMarks
    /\ Fitting /\ StillWaits /\ JobOfWorker /\ Judgement /\ PutBack
    /\ HandedOver /\ Learning /\ Syncing

-----------------------------------------------------------------------------
(* Records                                                                   *)

LEMMA CandidateNumbers == CandIds \subseteq Nat /\ 0 \in CandIds
  BY LimitsAssumption DEF CandIds, LimitsAssumption, Events

LEMMA CandBlanks ==
    /\ NoEdge \in Edge /\ IdleWorker \in Builders /\ IdleAsk \in Asks
    /\ IdleDrop \in Drops /\ IdleJudge \in Looks /\ IdleSwap \in Swaps /\ NoJob \in OwnJobs
<1>1. NoEdge \in Edge
  BY CandidateNumbers DEF NoEdge, Edge, EdgeStates, Verdicts
<1>2. IdleWorker \in Builders
  BY <1>1 DEF IdleWorker, Builders
<1>3. IdleAsk \in Asks /\ IdleDrop \in Drops /\ IdleJudge \in Looks /\ IdleSwap \in Swaps
  BY CandidateNumbers DEF IdleAsk, IdleDrop, IdleJudge, IdleSwap, Asks, Drops, Looks, Swaps,
                          AskKinds, EdgeStates
<1>4. NoJob \in OwnJobs
  BY CandidateNumbers DEF NoJob, OwnJobs
<1> QED BY <1>1, <1>2, <1>3, <1>4

-----------------------------------------------------------------------------
(* What the steps leave alone                                                *)

\* All that the invariant says but for its types, of an unchanged state.
LEMMA CandStutters ==
    ASSUME CandInv, UNCHANGED buildVars
    PROVE  CandInv'
<1>1. CandTypeOK' /\ Numbered' /\ RowShape' /\ LateMarks'
  BY DEF CandInv, buildVars, CandTypeOK, Numbered, RowShape, LateMarks, EdgeExists
<1>2. Fitting' /\ StillWaits' /\ JobOfWorker' /\ Judgement' /\ PutBack'
  BY DEF CandInv, buildVars, Fitting, StillWaits, JobOfWorker, Judgement, PutBack, EdgeExists,
         HasJob, JobPhase, Overwritten, Retrains, Fresh
<1>3. HandedOver' /\ Learning' /\ Syncing'
  BY DEF CandInv, buildVars, HandedOver, Learning, Syncing, EdgeExists, IsEdgeOf, Fresh,
         HasJob, JobPhase, Learnt, Excused, Overwritten, Unjudged
<1> QED BY <1>1, <1>2, <1>3 DEF CandInv

-----------------------------------------------------------------------------
(* The worker fails the build                                                *)

\* The row fails: only where its model is unusable, it waits, or the verdict was
\* erased and the fine-tune has failed.
LEMMA FailKeeps ==
    ASSUME CandInv, Fail, builder.step # "idle",
           UNCHANGED <<births, taught, synced, model, job, ask, drop, judge, swap, live, tally>>,
           raced' = raced \/ raced' = raced \cup {"queue"},
           EdgeExists => \/ builder.step = "fit"
                         \/ ~HasJob /\ (edge.dirty \/ "drop" \in raced \/ ~model.good)
    PROVE  CandInv'
<1>0. /\ EdgeExists => /\ edge' \in Edge /\ edge'.state = "failed"
                       /\ edge'.cand = edge.cand /\ edge'.dirty = edge.dirty
                       /\ edge'.verdict = edge.verdict /\ edge'.drop = edge.drop
                       /\ edge'.label = edge.label /\ edge'.judged = edge.judged
                       /\ edge'.asked = edge.asked /\ edge'.built = edge.built
      /\ ~EdgeExists => edge' = NoEdge /\ edge' \in Edge
      /\ builder' = IdleWorker /\ builder' \in Builders
  <2>1. edge \in Edge /\ (~EdgeExists => edge = NoEdge)
    BY DEF CandInv, CandTypeOK, RowShape
  <2>2. builder' = IdleWorker /\ edge' = IF EdgeExists THEN [edge EXCEPT !.state = "failed"] ELSE edge
    BY DEF Fail, Write, WorkerRests
  <2>3. CASE EdgeExists
    BY <2>1, <2>2, <2>3, CandBlanks DEF Edge, EdgeStates
  <2>4. CASE ~EdgeExists
    BY <2>1, <2>2, <2>4, CandBlanks
  <2> QED BY <2>3, <2>4
<1>1. CandTypeOK'
  <2>1. raced' \in SUBSET Windows
    BY DEF CandInv, CandTypeOK, Windows
  <2> QED BY <1>0, <2>1 DEF CandInv, CandTypeOK
<1>2. Numbered' /\ RowShape' /\ LateMarks'
  <2>1. Numbered'
    BY <1>0, CandidateNumbers DEF CandInv, CandTypeOK, Numbered, EdgeExists, IdleWorker, NoEdge
  <2>2. RowShape'
    BY <1>0 DEF CandInv, RowShape, EdgeExists, IdleWorker, NoEdge
  <2>3. LateMarks'
    BY <1>0 DEF CandInv, LateMarks, EdgeExists, IdleWorker, NoEdge
  <2> QED BY <2>1, <2>2, <2>3
<1>3. Fitting' /\ StillWaits' /\ JobOfWorker' /\ Judgement' /\ PutBack'
  BY <1>0 DEF CandInv, Fitting, StillWaits, JobOfWorker, Judgement, PutBack, EdgeExists,
         HasJob, JobPhase, Retrains, Fresh, IdleWorker, NoEdge
<1>4. HandedOver' /\ Learning' /\ Syncing'
  BY <1>0 DEF CandInv, HandedOver, Learning, Syncing, EdgeExists, IsEdgeOf, Fresh, Fitting, 
         HasJob, JobPhase, Learnt, Excused, Overwritten, Unjudged, IdleWorker, NoEdge
<1> QED BY <1>1, <1>2, <1>3, <1>4 DEF CandInv
-----------------------------------------------------------------------------
(* The worker looks and decides                                              *)

LEMMA ListKeeps == ASSUME CandInv, ListRows PROVE CandInv'
<1>0. /\ builder' = [step |-> "row", row |-> edge, rev |-> 0] /\ builder.step = "idle"
      /\ edge.state \in {"queued", "building", "discarding"} /\ EdgeExists
      /\ builder' \in Builders
      /\ UNCHANGED <<edge, births, taught, synced, model, job, ask, drop, judge, swap, live,
                     raced, tally>>
  BY DEF ListRows, WorkerFrame, Builders, CandInv, CandTypeOK, RowShape, NoEdge
<1>1. CandTypeOK'
  BY <1>0 DEF CandInv, CandTypeOK
<1>2. Numbered' /\ RowShape' /\ LateMarks'
  <2>1. Numbered'
    BY <1>0, CandidateNumbers
    DEF CandInv, CandTypeOK, Numbered, EdgeExists, IdleWorker, NoEdge
  <2>2. RowShape' /\ LateMarks'
    BY <1>0 DEF CandInv, RowShape, LateMarks, EdgeExists, IdleWorker, NoEdge
  <2> QED BY <2>1, <2>2
<1>3. Fitting' /\ StillWaits' /\ JobOfWorker' /\ Judgement' /\ PutBack'
  BY <1>0
  DEF CandInv, Fitting, StillWaits, JobOfWorker, Judgement, PutBack, EdgeExists, IsEdgeOf,
         HasJob, JobPhase, NoJob, Retrains, Overwritten, Fresh, IdleWorker, NoEdge, RowShape
<1>4. HandedOver' /\ Learning' /\ Syncing'
  BY <1>0
  DEF CandInv, HandedOver, Learning, Syncing, EdgeExists, IsEdgeOf, Fresh, HasJob, JobPhase,
         NoJob, Learnt, Excused, Overwritten, Unjudged, IdleWorker, IdleSwap, NoEdge
<1> QED BY <1>1, <1>2, <1>3, <1>4 DEF CandInv

\* The worker gives up this row for now.
LEMMA RestKeeps ==
    ASSUME CandInv, WorkerRests, builder.step # "fit",
           UNCHANGED <<edge, births, taught, synced, model, job, ask, drop, judge, swap, live,
                       raced, tally>>
    PROVE  CandInv'
<1>0. builder' = IdleWorker /\ builder' \in Builders
  BY CandBlanks DEF WorkerRests
<1>1. CandTypeOK'
  BY <1>0 DEF CandInv, CandTypeOK
<1>2. Numbered' /\ RowShape' /\ LateMarks'
  <2>1. Numbered'
    BY <1>0, CandidateNumbers
    DEF CandInv, CandTypeOK, Numbered, EdgeExists, IdleWorker, NoEdge
  <2>2. RowShape' /\ LateMarks'
    BY <1>0 DEF CandInv, RowShape, LateMarks, EdgeExists, IdleWorker, NoEdge
  <2> QED BY <2>1, <2>2
<1>3. Fitting' /\ StillWaits' /\ JobOfWorker' /\ Judgement' /\ PutBack'
  BY <1>0
  DEF CandInv, Fitting, StillWaits, JobOfWorker, Judgement, PutBack, EdgeExists, IsEdgeOf,
         HasJob, JobPhase, NoJob, Retrains, Overwritten, Fresh, IdleWorker, NoEdge
<1>4. HandedOver' /\ Learning' /\ Syncing'
  BY <1>0
  DEF CandInv, HandedOver, Learning, Syncing, EdgeExists, IsEdgeOf, Fresh, HasJob, JobPhase,
         NoJob, Learnt, Excused, Overwritten, Unjudged, IdleWorker, IdleSwap, NoEdge
<1> QED BY <1>1, <1>2, <1>3, <1>4 DEF CandInv

LEMMA StartCorrectKeeps == ASSUME CandInv, StartCorrect PROVE CandInv'
<1>f. CASE ~IsEdgeOf(builder.row.cand)
  <2>1. Fail /\ builder.step = "row" /\ builder.row.state = "queued"
    BY <1>f DEF StartCorrect
  <2>2. EdgeExists => ~HasJob /\ (edge.dirty \/ "drop" \in raced)
    BY <1>f, <2>1 DEF CandInv, StillWaits, JobOfWorker, IsEdgeOf, EdgeExists
  <2> QED BY <2>1, <2>2, FailKeeps DEF StartCorrect, WorkerFrame
<1>g. CASE IsEdgeOf(builder.row.cand)
  <2>0. /\ builder' = [builder EXCEPT !.step = "claim"] /\ builder.step = "row"
        /\ job.phase \notin {"active", "stopping"} /\ builder.row.state = "queued"
        /\ raced' = IF JobPhase(builder.row.cand) = "queued" THEN raced \cup {"queue"} ELSE raced
        /\ UNCHANGED <<edge, births, taught, synced, model, job, ask, drop, judge, swap, live, tally>>
    BY <1>g DEF StartCorrect, WorkerFrame, WorkerGoes
  <2>1. /\ builder' \in Builders /\ builder'.step = "claim" /\ builder'.row = builder.row
        /\ raced' \in SUBSET Windows /\ EdgeExists /\ edge.cand = builder.row.cand
        /\ job.phase \in {"none", "queued"}
    BY <1>g, <2>0 DEF CandInv, CandTypeOK, Builders, Windows, IsEdgeOf, EdgeExists, OwnJobs
  <2>2. CandTypeOK'
    BY <2>0, <2>1 DEF CandInv, CandTypeOK
  <2>3. Numbered' /\ RowShape' /\ LateMarks'
    <3>1. Numbered'
      BY <2>0, <2>1, CandidateNumbers
      DEF CandInv, CandTypeOK, Numbered, EdgeExists, IdleWorker, NoEdge
    <3>2. RowShape' /\ LateMarks'
      BY <2>0, <2>1 DEF CandInv, RowShape, LateMarks, EdgeExists, IdleWorker, NoEdge
    <3> QED BY <3>1, <3>2
  <2>4. Fitting' /\ StillWaits' /\ JobOfWorker' /\ Judgement' /\ PutBack'
    BY <2>0, <2>1
    DEF CandInv, Fitting, StillWaits, JobOfWorker, Judgement, PutBack, EdgeExists, IsEdgeOf,
           HasJob, JobPhase, NoJob, Retrains, Overwritten, Fresh, IdleWorker, NoEdge
  <2>5. HandedOver' /\ Learning' /\ Syncing'
    BY <2>0, <2>1
    DEF CandInv, HandedOver, Learning, Syncing, EdgeExists, IsEdgeOf, Fresh, HasJob, JobPhase,
           NoJob, Learnt, Excused, Overwritten, Unjudged, IdleWorker, IdleSwap, NoEdge
  <2> QED BY <2>2, <2>3, <2>4, <2>5 DEF CandInv
<1> QED BY <1>f, <1>g

\* The worker reads the row after the fine-tune.
LEMMA ReadBackKeeps == ASSUME CandInv, ReadBack PROVE CandInv'
<1> DEFINE fresh == IF EdgeExists THEN edge ELSE builder.row
<1>0. /\ builder.step = "read" /\ builder'.row = fresh
      /\ builder'.step = IF fresh.asked > builder.rev \/ fresh.dirty THEN "requeue" ELSE "persist"
      /\ builder' \in Builders
      /\ UNCHANGED <<edge, births, taught, synced, model, job, ask, drop, judge, swap, live,
                     raced, tally>>
  BY DEF ReadBack, WorkerFrame, Builders, CandInv, CandTypeOK
<1>n. edge.built \in Nat /\ edge.asked \in Nat
  BY DEF CandInv, CandTypeOK, Edge
<1>1. CandTypeOK'
  BY <1>0 DEF CandInv, CandTypeOK
<1>2. Numbered' /\ RowShape' /\ LateMarks'
  <2>1. Numbered'
    BY <1>0, CandidateNumbers
    DEF CandInv, CandTypeOK, Numbered, EdgeExists, IdleWorker, NoEdge
  <2>2. RowShape' /\ LateMarks'
    BY <1>0, <1>n DEF CandInv, RowShape, LateMarks, EdgeExists, IdleWorker, NoEdge
  <2> QED BY <2>1, <2>2
<1>3. Fitting' /\ StillWaits' /\ JobOfWorker' /\ Judgement' /\ PutBack'
  BY <1>0, <1>n
  DEF CandInv, Fitting, StillWaits, JobOfWorker, Judgement, PutBack, EdgeExists, IsEdgeOf,
         HasJob, JobPhase, NoJob, Retrains, Overwritten, Fresh, IdleWorker, NoEdge
<1>4. HandedOver' /\ Learning' /\ Syncing'
  BY <1>0, <1>n
  DEF CandInv, HandedOver, Learning, Syncing, EdgeExists, IsEdgeOf, Fresh, HasJob, JobPhase,
         NoJob, Learnt, Excused, Overwritten, Unjudged, IdleWorker, IdleSwap, NoEdge, Fitting
<1> QED BY <1>1, <1>2, <1>3, <1>4 DEF CandInv

\* The row is claimed for a Correct: the verdict goes, the mark goes.
LEMMA ClaimKeeps == ASSUME CandInv, ClaimCorrect PROVE CandInv'
<1>w. /\ edge' = IF EdgeExists
                THEN [edge EXCEPT !.state = "building", !.built = builder.row.asked, !.dirty = FALSE, !.verdict = "none", !.evidence = FALSE]
                ELSE edge
      /\ builder.step = "claim"
      /\ UNCHANGED <<births, taught, synced, model, job, ask, drop, judge, swap, live, raced, tally>>
      /\ builder' = [builder EXCEPT !.step = "fit", !.rev = builder.row.asked]
  BY DEF ClaimCorrect, Write, WorkerFrame
<1>0. /\ EdgeExists => /\ edge' \in Edge
                       /\ edge'.state = "building" /\ edge'.built = builder.row.asked /\ edge'.dirty = FALSE
                       /\ edge'.verdict = "none" /\ edge'.cand = edge.cand /\ edge'.asked = edge.asked
                       /\ edge'.drop = edge.drop /\ edge'.judged = edge.judged /\ edge'.label = edge.label
      /\ ~EdgeExists => edge' = NoEdge /\ edge' \in Edge
  <2>1. edge \in Edge /\ (~EdgeExists => edge = NoEdge)
    BY DEF CandInv, CandTypeOK, RowShape
  <2>2. CASE EdgeExists
    BY <1>w, <2>1, <2>2 DEF Edge, EdgeStates, Verdicts, CandInv, CandTypeOK, Builders, Models
  <2>3. CASE ~EdgeExists
    BY <1>w, <2>1, <2>3, CandBlanks
  <2> QED BY <2>2, <2>3
<1>b. /\ builder' \in Builders /\ builder'.step = "fit"
      /\ builder'.rev = builder.row.asked /\ builder'.row = builder.row
  BY <1>w DEF CandInv, CandTypeOK, Builders, Edge
<1>1. CandTypeOK'
  BY <1>0, <1>b, <1>w DEF CandInv, CandTypeOK
<1>2. Numbered' /\ RowShape' /\ LateMarks'
  <2>1. Numbered'
    BY <1>0, CandidateNumbers, <1>b, <1>w
    DEF CandInv, CandTypeOK, Numbered, EdgeExists, IdleWorker, NoEdge
  <2>2. RowShape' /\ LateMarks'
    BY <1>0, <1>b, <1>w DEF CandInv, RowShape, LateMarks, EdgeExists, IdleWorker, NoEdge
  <2> QED BY <2>1, <2>2
<1>3. Fitting' /\ StillWaits' /\ JobOfWorker' /\ Judgement' /\ PutBack'
  BY <1>0, <1>b, <1>w
  DEF CandInv, Fitting, StillWaits, JobOfWorker, Judgement, PutBack, EdgeExists, IsEdgeOf,
         HasJob, JobPhase, NoJob, Retrains, Overwritten, Fresh, IdleWorker, NoEdge
<1>4. HandedOver' /\ Learning' /\ Syncing'
  BY <1>0, <1>b, <1>w
  DEF CandInv, HandedOver, Learning, Syncing, EdgeExists, IsEdgeOf, Fresh, HasJob, JobPhase,
         NoJob, Learnt, Excused, Overwritten, Unjudged, IdleWorker, IdleSwap, NoEdge, StillWaits
<1> QED BY <1>1, <1>2, <1>3, <1>4 DEF CandInv

\* The fine-tune: the model learns every label there is.
LEMMA FitKeeps == ASSUME CandInv, FitCorrect PROVE CandInv'
<1>f. ASSUME Fail, UNCHANGED <<synced, model, raced>> PROVE CandInv'
  BY <1>f, FailKeeps DEF FitCorrect, WorkerFrame
<1>g. ASSUME IsEdgeOf(builder.row.cand), synced' = taught, raced' = raced \ {"sync"},
             model' = [trained |-> model.trained + 1, learnt |-> taught, good |-> TRUE],
             WorkerGoes("read"), UNCHANGED edge
      PROVE  CandInv'
  <2>0. /\ builder' \in Builders /\ builder'.step = "read" /\ builder'.row = builder.row
        /\ builder'.rev = builder.rev /\ builder.step = "fit"
        /\ model' \in Models /\ model'.learnt = taught /\ model'.good
        /\ raced' = raced \ {"sync"} /\ raced' \in SUBSET Windows
        /\ synced' = taught /\ synced' \in Nat /\ edge.label <= taught
        /\ EdgeExists /\ edge.cand = builder.row.cand
        /\ UNCHANGED <<edge, births, taught, job, ask, drop, judge, swap, live, tally>>
    BY <1>g DEF FitCorrect, WorkerFrame, WorkerGoes, CandInv, CandTypeOK, Builders, Models,
                Numbered, IsEdgeOf, EdgeExists
  <2>1. CandTypeOK'
    BY <2>0 DEF CandInv, CandTypeOK
  <2>2. Numbered' /\ RowShape' /\ LateMarks'
    <3>1. Numbered'
      BY <2>0, CandidateNumbers
      DEF CandInv, CandTypeOK, Numbered, EdgeExists, IdleWorker, NoEdge
    <3>2. RowShape' /\ LateMarks'
      BY <2>0 DEF CandInv, RowShape, LateMarks, EdgeExists, IdleWorker, NoEdge
    <3> QED BY <3>1, <3>2
  <2>3. Fitting' /\ StillWaits' /\ JobOfWorker' /\ Judgement' /\ PutBack'
    BY <2>0
    DEF CandInv, Fitting, StillWaits, JobOfWorker, Judgement, PutBack, EdgeExists, IsEdgeOf,
           HasJob, JobPhase, NoJob, Retrains, Overwritten, Fresh, IdleWorker, NoEdge
  <2>4. HandedOver' /\ Learning' /\ Syncing'
    BY <2>0
    DEF CandInv, HandedOver, Learning, Syncing, EdgeExists, IsEdgeOf, Fresh, HasJob, JobPhase,
           NoJob, Learnt, Excused, Overwritten, Unjudged, IdleWorker, IdleSwap, NoEdge, Fitting
  <2> QED BY <2>1, <2>2, <2>3, <2>4 DEF CandInv
<1> QED BY <1>f, <1>g DEF FitCorrect

LEMMA RequeueKeeps == ASSUME CandInv, Requeue PROVE CandInv'
<1>w. /\ edge' = IF EdgeExists
                THEN [edge EXCEPT !.state = "queued", !.dirty = TRUE]
                ELSE edge
      /\ builder.step = "requeue"
      /\ UNCHANGED <<births, taught, synced, model, job, ask, drop, judge, swap, live, raced, tally>>
      /\ builder' = IdleWorker /\ builder' \in Builders
  BY CandBlanks DEF Requeue, Write, WorkerFrame, WorkerRests
<1>0. /\ EdgeExists => /\ edge' \in Edge
                       /\ edge'.state = "queued" /\ edge'.dirty = TRUE /\ edge'.cand = edge.cand
                       /\ edge'.asked = edge.asked /\ edge'.built = edge.built /\ edge'.drop = edge.drop
                       /\ edge'.verdict = edge.verdict /\ edge'.judged = edge.judged /\ edge'.label = edge.label
      /\ ~EdgeExists => edge' = NoEdge /\ edge' \in Edge
  <2>1. edge \in Edge /\ (~EdgeExists => edge = NoEdge)
    BY DEF CandInv, CandTypeOK, RowShape
  <2>2. CASE EdgeExists
    BY <1>w, <2>1, <2>2 DEF Edge, EdgeStates, Verdicts, CandInv, CandTypeOK, Builders, Models
  <2>3. CASE ~EdgeExists
    BY <1>w, <2>1, <2>3, CandBlanks
  <2> QED BY <2>2, <2>3
<1>1. CandTypeOK'
  BY <1>0, <1>w DEF CandInv, CandTypeOK
<1>2. Numbered' /\ RowShape' /\ LateMarks'
  <2>1. Numbered'
    BY <1>0, CandidateNumbers, <1>w
    DEF CandInv, CandTypeOK, Numbered, EdgeExists, IdleWorker, NoEdge
  <2>2. RowShape' /\ LateMarks'
    BY <1>0, <1>w DEF CandInv, RowShape, LateMarks, EdgeExists, IdleWorker, NoEdge
  <2> QED BY <2>1, <2>2
<1>3. Fitting' /\ StillWaits' /\ JobOfWorker' /\ Judgement' /\ PutBack'
  BY <1>0, <1>w
  DEF CandInv, Fitting, StillWaits, JobOfWorker, Judgement, PutBack, EdgeExists, IsEdgeOf,
         HasJob, JobPhase, NoJob, Retrains, Overwritten, Fresh, IdleWorker, NoEdge
<1>4. HandedOver' /\ Learning' /\ Syncing'
  BY <1>0, <1>w
  DEF CandInv, HandedOver, Learning, Syncing, EdgeExists, IsEdgeOf, Fresh, HasJob, JobPhase,
         NoJob, Learnt, Excused, Overwritten, Unjudged, IdleWorker, IdleSwap, NoEdge, PutBack
<1> QED BY <1>1, <1>2, <1>3, <1>4 DEF CandInv

\* The verdict is on the model that was just measured.
LEMMA PersistKeeps == ASSUME CandInv, Persist PROVE CandInv'
<1>w. PICK v \in {"passed", "failed"} :
        edge' = IF EdgeExists
                THEN [edge EXCEPT !.verdict = v, !.judged = model.trained,
                                  !.state = IF v = "passed" THEN "comparing" ELSE "blocked"]
                ELSE edge
  BY DEF Persist, Write, Judged
<1>b. /\ builder.step = "persist" /\ builder' = IdleWorker /\ builder' \in Builders
      /\ raced' = raced \ (IF JobPhase(builder.row.cand) = "none" THEN {"rebuild", "queue"} ELSE {"rebuild"})
      /\ UNCHANGED <<births, taught, synced, model, job, ask, drop, judge, swap, live, tally>>
  BY CandBlanks DEF Persist, WorkerFrame, WorkerRests
<1>s. raced' \in SUBSET Windows
  BY <1>b DEF CandInv, CandTypeOK
<1>0. /\ EdgeExists => /\ edge' \in Edge /\ edge'.state \in {"comparing", "blocked"}
                       /\ edge'.verdict \in {"passed", "failed"} /\ edge'.judged = model.trained
                       /\ edge'.cand = edge.cand /\ edge'.asked = edge.asked
                       /\ edge'.built = edge.built /\ edge'.dirty = edge.dirty
                       /\ edge'.drop = edge.drop /\ edge'.label = edge.label
      /\ ~EdgeExists => edge' = NoEdge /\ edge' \in Edge
  <2>1. edge \in Edge /\ (~EdgeExists => edge = NoEdge) /\ model \in Models
    BY DEF CandInv, CandTypeOK, RowShape
  <2>2. CASE EdgeExists /\ v = "passed"
    BY <1>w, <2>1, <2>2 DEF Edge, EdgeStates, Verdicts, Models
  <2>3. CASE EdgeExists /\ v = "failed"
    BY <1>w, <2>1, <2>3 DEF Edge, EdgeStates, Verdicts, Models
  <2>4. CASE ~EdgeExists
    BY <1>w, <2>1, <2>4, CandBlanks
  <2> QED BY <2>2, <2>3, <2>4
<1>1. CandTypeOK'
  BY <1>0, <1>b, <1>s DEF CandInv, CandTypeOK
<1>2. Numbered' /\ RowShape' /\ LateMarks'
  <2>1. Numbered'
    BY <1>0, CandidateNumbers, <1>b, <1>s
    DEF CandInv, CandTypeOK, Numbered, EdgeExists, IdleWorker, NoEdge
  <2>2. RowShape' /\ LateMarks'
    BY <1>0, <1>b, <1>s DEF CandInv, RowShape, LateMarks, EdgeExists, IdleWorker, NoEdge
  <2> QED BY <2>1, <2>2
<1>3. Fitting' /\ StillWaits' /\ JobOfWorker' /\ Judgement' /\ PutBack'
  BY <1>0, <1>b, <1>s
  DEF CandInv, Fitting, StillWaits, JobOfWorker, Judgement, PutBack, EdgeExists, IsEdgeOf,
         HasJob, JobPhase, NoJob, Retrains, Overwritten, Fresh, IdleWorker, NoEdge
<1>4. HandedOver' /\ Learning' /\ Syncing'
  BY <1>0, <1>b, <1>s
  DEF CandInv, HandedOver, Learning, Syncing, EdgeExists, IsEdgeOf, Fresh, HasJob, JobPhase,
         NoJob, Learnt, Excused, Overwritten, Unjudged, IdleWorker, IdleSwap, NoEdge, RowShape
<1> QED BY <1>1, <1>2, <1>3, <1>4 DEF CandInv

\* A full rebuild syncs the labels, then claims its job.
LEMMA StartFullKeeps == ASSUME CandInv, StartFull PROVE CandInv'
<1>f. CASE ~EdgeExists
  <2>1. Fail /\ builder.step = "row" /\ UNCHANGED <<synced, raced>>
    BY <1>f DEF StartFull
  <2> QED BY <1>f, <2>1, FailKeeps DEF StartFull, WorkerFrame
<1>g. CASE EdgeExists
  <2>0. /\ builder' = [builder EXCEPT !.step = "claimJob", !.row = edge]
        /\ builder.step = "row" /\ builder.row.state = "queued"
        /\ synced' = taught /\ raced' = raced \ {"sync"} /\ EdgeExists
        /\ UNCHANGED <<edge, births, taught, model, job, ask, drop, judge, swap, live, tally>>
    BY <1>g DEF StartFull, WorkerFrame
  <2>b. /\ builder' \in Builders /\ builder'.step = "claimJob" /\ builder'.row = edge
        /\ synced' \in Nat /\ edge.label <= taught /\ raced' \in SUBSET Windows
    BY <2>0 DEF CandInv, CandTypeOK, Builders, Numbered
  <2>1. CandTypeOK'
    BY <2>0, <2>b DEF CandInv, CandTypeOK
  <2>2. Numbered' /\ RowShape' /\ LateMarks'
    <3>1. Numbered'
      BY <2>0, CandidateNumbers, <2>b
      DEF CandInv, CandTypeOK, Numbered, EdgeExists, IdleWorker, NoEdge
    <3>2. RowShape' /\ LateMarks'
      BY <2>0, <2>b DEF CandInv, RowShape, LateMarks, EdgeExists, IdleWorker, NoEdge
    <3> QED BY <3>1, <3>2
  <2>3. Fitting' /\ StillWaits' /\ JobOfWorker' /\ Judgement' /\ PutBack'
    BY <2>0, <2>b
    DEF CandInv, Fitting, StillWaits, JobOfWorker, Judgement, PutBack, EdgeExists, IsEdgeOf,
           HasJob, JobPhase, NoJob, Retrains, Overwritten, Fresh, IdleWorker, NoEdge
  <2>4. HandedOver' /\ Learning' /\ Syncing'
    BY <2>0, <2>b
    DEF CandInv, HandedOver, Learning, Syncing, EdgeExists, IsEdgeOf, Fresh, HasJob, JobPhase,
           NoJob, Learnt, Excused, Overwritten, Unjudged, IdleWorker, IdleSwap, NoEdge, StillWaits
  <2> QED BY <2>1, <2>2, <2>3, <2>4 DEF CandInv
<1> QED BY <1>f, <1>g

LEMMA ClaimJobKeeps == ASSUME CandInv, ClaimJob PROVE CandInv'
<1>f. CASE ~IsEdgeOf(builder.row.cand)
  <2>1. Fail /\ builder.step = "claimJob" /\ UNCHANGED job
    BY <1>f DEF ClaimJob
  <2>2. EdgeExists => ~HasJob /\ (edge.dirty \/ "drop" \in raced)
    BY <1>f, <2>1 DEF CandInv, StillWaits, JobOfWorker, IsEdgeOf, EdgeExists
  <2> QED BY <2>1, <2>2, FailKeeps DEF ClaimJob, WorkerFrame
<1>g. CASE IsEdgeOf(builder.row.cand)
  <2>0. /\ builder' = [builder EXCEPT !.step = "mark"] /\ builder.step = "claimJob"
        /\ job' = [cand |-> builder.row.cand, phase |-> "queued"]
        /\ EdgeExists /\ edge.cand = builder.row.cand
        /\ UNCHANGED <<edge, births, taught, synced, model, ask, drop, judge, swap, live, raced, tally>>
    BY <1>g DEF ClaimJob, WorkerFrame, WorkerGoes, IsEdgeOf, EdgeExists
  <2>b. /\ builder' \in Builders /\ builder'.step = "mark" /\ builder'.row = builder.row
        /\ job' \in OwnJobs
    BY <2>0 DEF CandInv, CandTypeOK, Builders, OwnJobs, Edge
  <2>1. CandTypeOK'
    BY <2>0, <2>b DEF CandInv, CandTypeOK
  <2>2. Numbered' /\ RowShape' /\ LateMarks'
    <3>1. Numbered'
      BY <2>0, CandidateNumbers, <2>b
      DEF CandInv, CandTypeOK, Numbered, EdgeExists, IdleWorker, NoEdge
    <3>2. RowShape' /\ LateMarks'
      BY <2>0, <2>b DEF CandInv, RowShape, LateMarks, EdgeExists, IdleWorker, NoEdge
    <3> QED BY <3>1, <3>2
  <2>3. Fitting' /\ StillWaits' /\ JobOfWorker' /\ Judgement' /\ PutBack'
    BY <2>0, <2>b
    DEF CandInv, Fitting, StillWaits, JobOfWorker, Judgement, PutBack, EdgeExists, IsEdgeOf,
           HasJob, JobPhase, NoJob, Retrains, Overwritten, Fresh, IdleWorker, NoEdge, StillWaits
  <2>4. HandedOver' /\ Learning' /\ Syncing'
    BY <2>0, <2>b
    DEF CandInv, HandedOver, Learning, Syncing, EdgeExists, IsEdgeOf, Fresh, HasJob, JobPhase,
           NoJob, Learnt, Excused, Overwritten, Unjudged, IdleWorker, IdleSwap, NoEdge, StillWaits, RowShape
  <2> QED BY <2>1, <2>2, <2>3, <2>4 DEF CandInv
<1> QED BY <1>f, <1>g

\* The row of a full rebuild is marked with the revision it has by then.
LEMMA MarkFullKeeps == ASSUME CandInv, MarkFull PROVE CandInv'
<1>w. /\ edge' = IF EdgeExists
                THEN [edge EXCEPT !.state = "building", !.built = edge.asked, !.dirty = FALSE, !.evidence = FALSE]
                ELSE edge
      /\ builder.step = "mark"
      /\ raced' = IF edge.verdict = "none" THEN raced ELSE raced \cup {"rebuild"}
      /\ UNCHANGED <<births, taught, synced, model, job, ask, drop, judge, swap, live, tally>>
      /\ builder' = IdleWorker /\ builder' \in Builders
  BY CandBlanks DEF MarkFull, Write, WorkerFrame, WorkerRests
<1>0. /\ EdgeExists => /\ edge' \in Edge
                       /\ edge'.state = "building" /\ edge'.built = edge.asked /\ edge'.dirty = FALSE
                       /\ edge'.cand = edge.cand /\ edge'.asked = edge.asked /\ edge'.drop = edge.drop
                       /\ edge'.verdict = edge.verdict /\ edge'.judged = edge.judged /\ edge'.label = edge.label
      /\ ~EdgeExists => edge' = NoEdge /\ edge' \in Edge
  <2>1. edge \in Edge /\ (~EdgeExists => edge = NoEdge)
    BY DEF CandInv, CandTypeOK, RowShape
  <2>2. CASE EdgeExists
    BY <1>w, <2>1, <2>2 DEF Edge, EdgeStates, Verdicts, CandInv, CandTypeOK, Builders, Models
  <2>3. CASE ~EdgeExists
    BY <1>w, <2>1, <2>3, CandBlanks
  <2> QED BY <2>2, <2>3
<1>s. raced' \in SUBSET Windows
  BY <1>w DEF CandInv, CandTypeOK, Windows
<1>1. CandTypeOK'
  BY <1>0, <1>w, <1>s DEF CandInv, CandTypeOK
<1>2. Numbered' /\ RowShape' /\ LateMarks'
  <2>1. Numbered'
    BY <1>0, CandidateNumbers, <1>w, <1>s
    DEF CandInv, CandTypeOK, Numbered, EdgeExists, IdleWorker, NoEdge
  <2>2. RowShape' /\ LateMarks'
    BY <1>0, <1>w, <1>s DEF CandInv, RowShape, LateMarks, EdgeExists, IdleWorker, NoEdge
  <2> QED BY <2>1, <2>2
<1>3. Fitting' /\ StillWaits' /\ JobOfWorker' /\ Judgement' /\ PutBack'
  BY <1>0, <1>w, <1>s
  DEF CandInv, Fitting, StillWaits, JobOfWorker, Judgement, PutBack, EdgeExists, IsEdgeOf,
         HasJob, JobPhase, NoJob, Retrains, Overwritten, Fresh, IdleWorker, NoEdge
<1>4. HandedOver' /\ Learning' /\ Syncing'
  BY <1>0, <1>w, <1>s
  DEF CandInv, HandedOver, Learning, Syncing, EdgeExists, IsEdgeOf, Fresh, HasJob, JobPhase,
         NoJob, Learnt, Excused, Overwritten, Unjudged, IdleWorker, IdleSwap, NoEdge, StillWaits
<1> QED BY <1>1, <1>2, <1>3, <1>4 DEF CandInv

-----------------------------------------------------------------------------
(* The row goes away                                                         *)

\* The row is deleted under the worker or by it: what is left has no candidate.
LEMMA GoneKeeps ==
    ASSUME CandInv, edge' = NoEdge, raced' = {}, job' \in OwnJobs, job'.cand <= births,
           builder' = builder \/ builder' = IdleWorker,
           drop' \in Drops, swap' = swap \/ swap' = IdleSwap, live' \in Nat,
           UNCHANGED <<births, taught, synced, model, ask, judge, tally>>
    PROVE  CandInv'
<1>0. /\ builder' \in Builders /\ swap' \in Swaps /\ edge' \in Edge /\ raced' \in SUBSET Windows
      /\ builder'.step = builder.step \/ builder'.step = "idle"
      /\ builder'.row.cand <= births /\ swap'.cand <= births
  <2>1. 0 <= births
    BY CandidateNumbers DEF CandInv, CandTypeOK
  <2>2. builder' \in Builders /\ swap' \in Swaps /\ edge' \in Edge /\ raced' \in SUBSET Windows
    BY CandBlanks DEF CandInv, CandTypeOK
  <2>3. IdleWorker.step = "idle" /\ IdleWorker.row.cand = 0 /\ IdleSwap.cand = 0
    BY DEF IdleWorker, NoEdge, IdleSwap
  <2> QED BY <2>1, <2>2, <2>3 DEF CandInv, Numbered
<1>1. CandTypeOK'
  BY <1>0 DEF CandInv, CandTypeOK
<1>2. Numbered' /\ RowShape' /\ LateMarks'
  <2>1. Numbered'
    BY <1>0, CandidateNumbers
    DEF CandInv, CandTypeOK, Numbered, EdgeExists, IdleWorker, NoEdge
  <2>2. RowShape' /\ LateMarks'
    BY <1>0 DEF CandInv, RowShape, LateMarks, EdgeExists, IdleWorker, NoEdge
  <2> QED BY <2>1, <2>2
<1>3. Fitting' /\ StillWaits' /\ JobOfWorker' /\ Judgement' /\ PutBack'
  BY <1>0
  DEF CandInv, Fitting, StillWaits, JobOfWorker, Judgement, PutBack, EdgeExists, IsEdgeOf,
         HasJob, JobPhase, NoJob, Retrains, Overwritten, Fresh, IdleWorker, NoEdge
<1>4. HandedOver' /\ Learning' /\ Syncing'
  BY <1>0
  DEF CandInv, HandedOver, Learning, Syncing, EdgeExists, IsEdgeOf, Fresh, HasJob, JobPhase,
         NoJob, Learnt, Excused, Overwritten, Unjudged, IdleWorker, IdleSwap, NoEdge
<1> QED BY <1>1, <1>2, <1>3, <1>4 DEF CandInv

\* A delete that misses touches no row, and no job of the row there is.
LEMMA DeleteKeeps ==
    ASSUME CandInv, NEW c, DeleteCandidate(c),
           builder' = builder \/ (WorkerRests /\ builder.step # "fit"), drop' \in Drops,
           UNCHANGED <<births, taught, synced, model, ask, judge, swap, live, tally>>
    PROVE  CandInv'
<1>j. job' = (IF JobPhase(c) = "queued" THEN NoJob ELSE job) /\ job' \in OwnJobs /\ job'.cand <= births
  <2>1. 0 <= births
    BY CandidateNumbers DEF CandInv, CandTypeOK
  <2>2. job' = IF JobPhase(c) = "queued" THEN NoJob ELSE job
    BY DEF DeleteCandidate
  <2> QED BY <2>1, <2>2, CandBlanks DEF CandInv, CandTypeOK, Numbered, NoJob
<1>f. CASE IsEdgeOf(c)
  BY <1>f, <1>j, GoneKeeps DEF DeleteCandidate, WorkerRests, CandInv, CandTypeOK
<1>g. CASE ~IsEdgeOf(c)
  <2>0. /\ UNCHANGED <<edge, births, taught, synced, model, ask, judge, swap, live, raced, tally>>
        /\ builder' \in Builders /\ builder'.row.cand <= births
        /\ builder' = builder \/ (builder'.step = "idle" /\ builder.step # "fit")
        /\ EdgeExists => edge.cand # c
    <3>1. 0 <= births
      BY CandidateNumbers DEF CandInv, CandTypeOK
    <3>2. IdleWorker.step = "idle" /\ IdleWorker.row.cand = 0
      BY DEF IdleWorker, NoEdge
    <3>3. builder' \in Builders /\ UNCHANGED <<edge, raced>>
      BY <1>g, CandBlanks DEF DeleteCandidate, WorkerRests, CandInv, CandTypeOK
    <3> QED BY <1>g, <3>1, <3>2, <3>3 DEF WorkerRests, CandInv, Numbered, IsEdgeOf, EdgeExists
  <2>k. EdgeExists => (JobPhase(edge.cand))' = JobPhase(edge.cand)
    BY <2>0, <1>j DEF JobPhase, NoJob, EdgeExists
  <2>1. CandTypeOK'
    BY <2>0, <1>j, <2>k DEF CandInv, CandTypeOK
  <2>2. Numbered' /\ RowShape' /\ LateMarks'
    <3>1. Numbered'
      BY <2>0, CandidateNumbers, <1>j, <2>k
      DEF CandInv, CandTypeOK, Numbered, EdgeExists, IdleWorker, NoEdge
    <3>2. RowShape' /\ LateMarks'
      BY <2>0, <1>j, <2>k DEF CandInv, RowShape, LateMarks, EdgeExists, IdleWorker, NoEdge
    <3> QED BY <3>1, <3>2
  <2>3. Fitting' /\ StillWaits' /\ JobOfWorker' /\ Judgement' /\ PutBack'
    BY <2>0, <1>j, <2>k
    DEF CandInv, Fitting, StillWaits, JobOfWorker, Judgement, PutBack, EdgeExists, IsEdgeOf,
           HasJob, JobPhase, NoJob, Retrains, Overwritten, Fresh, IdleWorker, NoEdge
  <2>4. HandedOver' /\ Learning' /\ Syncing'
    BY <2>0, <1>j, <2>k
    DEF CandInv, HandedOver, Learning, Syncing, EdgeExists, IsEdgeOf, Fresh, HasJob, JobPhase,
           NoJob, Learnt, Excused, Overwritten, Unjudged, IdleWorker, IdleSwap, NoEdge
  <2> QED BY <2>1, <2>2, <2>3, <2>4 DEF CandInv
<1> QED BY <1>f, <1>g

-----------------------------------------------------------------------------
(* The worker finishes a build                                               *)

LEMMA FinishKeeps == ASSUME CandInv, FinishBuild PROVE CandInv'
<1> DEFINE fresh == IF EdgeExists THEN edge ELSE builder.row
<1>w. /\ builder.step = "row" /\ JobPhase(fresh.cand) = "none"
      /\ UNCHANGED <<births, taught, synced, model, ask, drop, judge, swap, live, tally>>
  BY DEF FinishBuild, WorkerFrame
<1>d. ASSUME DeleteCandidate(fresh.cand), WorkerRests PROVE CandInv'
  BY <1>w, <1>d, DeleteKeeps DEF CandInv, CandTypeOK
<1>f. ASSUME ~(EdgeExists /\ model.good), Fail, UNCHANGED <<job, raced>> PROVE CandInv'
  BY <1>w, <1>f, FailKeeps DEF HasJob
<1>g. ASSUME EdgeExists, model.good, UNCHANGED <<edge, job, raced>>,
             builder' = [builder EXCEPT !.row = fresh, !.rev = IF builder.row.full THEN 1 ELSE 0,
                             !.step = IF fresh.asked > fresh.built \/ fresh.dirty
                                      THEN "requeue" ELSE "compare"]
      PROVE  CandInv'
  <2>0. /\ builder' \in Builders /\ builder'.row = edge /\ EdgeExists /\ model.good
        /\ builder'.step = IF edge.asked > edge.built \/ edge.dirty THEN "requeue" ELSE "compare"
        /\ edge.asked \in Nat /\ edge.built \in Nat /\ JobPhase(edge.cand) = "none"
        /\ UNCHANGED <<edge, births, taught, synced, model, job, ask, drop, judge, swap, live,
                       raced, tally>>
    BY <1>g, <1>w DEF CandInv, CandTypeOK, Builders, Edge
  <2>1. CandTypeOK'
    BY <2>0, <1>w DEF CandInv, CandTypeOK
  <2>2. Numbered' /\ RowShape' /\ LateMarks'
    <3>1. Numbered'
      BY <2>0, CandidateNumbers, <1>w
      DEF CandInv, CandTypeOK, Numbered, EdgeExists, IdleWorker, NoEdge
    <3>2. RowShape' /\ LateMarks'
      BY <2>0, <1>w DEF CandInv, RowShape, LateMarks, EdgeExists, IdleWorker, NoEdge
    <3> QED BY <3>1, <3>2
  <2>3. Fitting' /\ StillWaits' /\ JobOfWorker' /\ Judgement' /\ PutBack'
    BY <2>0, <1>w
    DEF CandInv, Fitting, StillWaits, JobOfWorker, Judgement, PutBack, EdgeExists, IsEdgeOf,
           HasJob, JobPhase, NoJob, Retrains, Overwritten, Fresh, IdleWorker, NoEdge
  <2>4. HandedOver' /\ Learning' /\ Syncing'
    BY <2>0, <1>w
    DEF CandInv, HandedOver, Learning, Syncing, EdgeExists, IsEdgeOf, Fresh, HasJob, JobPhase,
           NoJob, Learnt, Excused, Overwritten, Unjudged, IdleWorker, IdleSwap, NoEdge, RowShape
  <2> QED BY <2>1, <2>2, <2>3, <2>4 DEF CandInv
<1> QED BY <1>d, <1>f, <1>g DEF FinishBuild

LEMMA CompareKeeps == ASSUME CandInv, Compare PROVE CandInv'
<1>w. /\ edge' = IF EdgeExists
                THEN [edge EXCEPT !.state = "comparing", !.evidence = FALSE]
                ELSE edge
      /\ builder.step = "compare"
      /\ UNCHANGED <<births, taught, synced, model, job, ask, drop, judge, swap, live, raced, tally>>
      /\ builder' = IF builder.rev = 1 THEN [builder EXCEPT !.step = "gate"] ELSE IdleWorker
  BY DEF Compare, Write, WorkerFrame, WorkerRests, WorkerGoes
<1>0. /\ EdgeExists => /\ edge' \in Edge
                       /\ edge'.state = "comparing" /\ edge'.cand = edge.cand /\ edge'.asked = edge.asked
                       /\ edge'.built = edge.built /\ edge'.dirty = edge.dirty /\ edge'.drop = edge.drop
                       /\ edge'.verdict = edge.verdict /\ edge'.judged = edge.judged /\ edge'.label = edge.label
      /\ ~EdgeExists => edge' = NoEdge /\ edge' \in Edge
  <2>1. edge \in Edge /\ (~EdgeExists => edge = NoEdge)
    BY DEF CandInv, CandTypeOK, RowShape
  <2>2. CASE EdgeExists
    BY <1>w, <2>1, <2>2 DEF Edge, EdgeStates, Verdicts, CandInv, CandTypeOK, Builders, Models
  <2>3. CASE ~EdgeExists
    BY <1>w, <2>1, <2>3, CandBlanks
  <2> QED BY <2>2, <2>3
<1>b. /\ builder' \in Builders
      /\ \/ builder'.step = "gate" /\ builder'.row = builder.row
         \/ builder' = IdleWorker
  BY <1>w, CandBlanks DEF CandInv, CandTypeOK, Builders
<1>1. CandTypeOK'
  BY <1>0, <1>w, <1>b DEF CandInv, CandTypeOK
<1>2. Numbered' /\ RowShape' /\ LateMarks'
  <2>1. Numbered'
    BY <1>0, CandidateNumbers, <1>w, <1>b
    DEF CandInv, CandTypeOK, Numbered, EdgeExists, IdleWorker, NoEdge
  <2>2. RowShape' /\ LateMarks'
    BY <1>0, <1>w, <1>b DEF CandInv, RowShape, LateMarks, EdgeExists, IdleWorker, NoEdge
  <2> QED BY <2>1, <2>2
<1>3. Fitting' /\ StillWaits' /\ JobOfWorker' /\ Judgement' /\ PutBack'
  BY <1>0, <1>w, <1>b
  DEF CandInv, Fitting, StillWaits, JobOfWorker, Judgement, PutBack, EdgeExists, IsEdgeOf,
         HasJob, JobPhase, NoJob, Retrains, Overwritten, Fresh, IdleWorker, NoEdge
<1>4. HandedOver' /\ Learning' /\ Syncing'
  BY <1>0, <1>w, <1>b
  DEF CandInv, HandedOver, Learning, Syncing, EdgeExists, IsEdgeOf, Fresh, HasJob, JobPhase,
         NoJob, Learnt, Excused, Overwritten, Unjudged, IdleWorker, IdleSwap, NoEdge, RowShape
<1> QED BY <1>1, <1>2, <1>3, <1>4 DEF CandInv

LEMMA FullGateKeeps == ASSUME CandInv, FullGate PROVE CandInv'
<1>0. /\ builder.step = "gate" /\ builder' \in Builders
      /\ \/ builder'.step = "persist" /\ builder'.row = builder.row
         \/ builder' = IdleWorker
      /\ UNCHANGED <<edge, births, taught, synced, model, job, ask, drop, judge, swap, live,
                     raced, tally>>
  BY CandBlanks DEF FullGate, WorkerFrame, WorkerRests, WorkerGoes, CandInv, CandTypeOK, Builders
<1>1. CandTypeOK'
  BY <1>0 DEF CandInv, CandTypeOK
<1>2. Numbered' /\ RowShape' /\ LateMarks'
  <2>1. Numbered'
    BY <1>0, CandidateNumbers
    DEF CandInv, CandTypeOK, Numbered, EdgeExists, IdleWorker, NoEdge
  <2>2. RowShape' /\ LateMarks'
    BY <1>0 DEF CandInv, RowShape, LateMarks, EdgeExists, IdleWorker, NoEdge
  <2> QED BY <2>1, <2>2
<1>3. Fitting' /\ StillWaits' /\ JobOfWorker' /\ Judgement' /\ PutBack'
  BY <1>0
  DEF CandInv, Fitting, StillWaits, JobOfWorker, Judgement, PutBack, EdgeExists, IsEdgeOf,
         HasJob, JobPhase, NoJob, Retrains, Overwritten, Fresh, IdleWorker, NoEdge
<1>4. HandedOver' /\ Learning' /\ Syncing'
  BY <1>0
  DEF CandInv, HandedOver, Learning, Syncing, EdgeExists, IsEdgeOf, Fresh, HasJob, JobPhase,
         NoJob, Learnt, Excused, Overwritten, Unjudged, IdleWorker, IdleSwap, NoEdge
<1> QED BY <1>1, <1>2, <1>3, <1>4 DEF CandInv

-----------------------------------------------------------------------------
(* The job                                                                   *)

\* The phase of the job changes, and it stays.
LEMMA PhaseKeeps ==
    ASSUME CandInv, job' \in OwnJobs, job'.cand = job.cand, job'.phase # "none", job.phase # "none",
           drop' \in Drops,
           UNCHANGED <<edge, births, taught, synced, model, builder, ask, judge, swap, live,
                       raced, tally>>
    PROVE  CandInv'
<1>0. HasJob' <=> HasJob
  BY DEF HasJob, JobPhase
<1>1. CandTypeOK'
  BY DEF CandInv, CandTypeOK
<1>2. Numbered' /\ RowShape' /\ LateMarks'
  BY DEF CandInv, Numbered, RowShape, LateMarks, EdgeExists
<1>3. Fitting' /\ StillWaits' /\ JobOfWorker' /\ Judgement' /\ PutBack'
  BY <1>0 DEF CandInv, Fitting, StillWaits, JobOfWorker, Judgement, PutBack, EdgeExists,
              Retrains, Overwritten, Fresh
<1>4. HandedOver' /\ Learning' /\ Syncing'
  BY <1>0 DEF CandInv, HandedOver, Learning, Syncing, EdgeExists, IsEdgeOf, Fresh, Learnt,
              Excused, Overwritten, Unjudged
<1> QED BY <1>1, <1>2, <1>3, <1>4 DEF CandInv

LEMMA JobStartKeeps == ASSUME CandInv, CandidateStarts PROVE CandInv'
<1>1. job' \in OwnJobs /\ job'.cand = job.cand /\ job'.phase = "active"
  BY DEF CandidateStarts, CandInv, CandTypeOK, OwnJobs
<1> QED BY <1>1, PhaseKeeps DEF CandidateStarts, CandInv, CandTypeOK

\* The job ends: its model has learnt what the dataset had, or is unusable.
LEMMA JobEndKeeps == ASSUME CandInv, CandidateEnds PROVE CandInv'
<1>0. /\ job' = NoJob /\ job' \in OwnJobs /\ model' \in Models /\ job.phase # "none"
      /\ \/ model'.learnt = synced /\ model'.good /\ IsEdgeOf(job.cand)
         \/ ~model'.good /\ IsEdgeOf(job.cand) /\ model'.learnt = model.learnt
         \/ model' = model /\ ~IsEdgeOf(job.cand)
      /\ UNCHANGED <<edge, births, taught, synced, builder, ask, drop, judge, swap, live,
                     raced, tally>>
  <2>1. /\ job' = NoJob /\ job' \in OwnJobs /\ job.phase # "none"
        /\ UNCHANGED <<edge, births, taught, synced, builder, ask, drop, judge, swap, live,
                       raced, tally>>
    BY CandBlanks DEF CandidateEnds, threadVars
  <2>2. model \in Models /\ synced \in Nat
    BY DEF CandInv, CandTypeOK
  <2>3. ASSUME IsEdgeOf(job.cand),
               model' = [trained |-> model.trained + 1, learnt |-> synced, good |-> TRUE]
        PROVE  model' \in Models /\ model'.learnt = synced /\ model'.good
    BY <2>2, <2>3 DEF Models
  <2>4. ASSUME IsEdgeOf(job.cand), model' = [model EXCEPT !.good = FALSE]
        PROVE  model' \in Models /\ model'.learnt = model.learnt /\ ~model'.good
    BY <2>2, <2>4 DEF Models
  <2> QED BY <2>1, <2>2, <2>3, <2>4 DEF CandidateEnds
<1>h. EdgeExists => (~HasJob)' /\ (HasJob <=> IsEdgeOf(job.cand)) /\ synced \in Nat /\ edge.label \in Nat
  BY <1>0 DEF HasJob, JobPhase, NoJob, EdgeExists, IsEdgeOf, CandInv, CandTypeOK, Edge
<1>1. CandTypeOK'
  BY <1>0, <1>h DEF CandInv, CandTypeOK
<1>2. Numbered' /\ RowShape' /\ LateMarks'
  <2>1. Numbered'
    BY <1>0, CandidateNumbers, <1>h
    DEF CandInv, CandTypeOK, Numbered, EdgeExists, NoJob, NoEdge
  <2>2. RowShape' /\ LateMarks'
    BY <1>0, <1>h DEF CandInv, RowShape, LateMarks, EdgeExists, IdleWorker, NoEdge
  <2> QED BY <2>1, <2>2
<1>3. Fitting' /\ StillWaits' /\ JobOfWorker' /\ Judgement' /\ PutBack'
  BY <1>0, <1>h
  DEF CandInv, Fitting, StillWaits, JobOfWorker, Judgement, PutBack, EdgeExists, IsEdgeOf,
         HasJob, JobPhase, NoJob, Retrains, Overwritten, Fresh, IdleWorker, NoEdge
<1>4. HandedOver' /\ Learning' /\ Syncing'
  BY <1>0, <1>h
  DEF CandInv, HandedOver, Learning, Syncing, EdgeExists, IsEdgeOf, Fresh, HasJob, JobPhase,
         NoJob, Learnt, Excused, Overwritten, Unjudged, IdleWorker, IdleSwap, NoEdge, RowShape, Fitting
<1> QED BY <1>1, <1>2, <1>3, <1>4 DEF CandInv

-----------------------------------------------------------------------------
(* Discard                                                                   *)

\* The wish to discard is a mark on the row that nothing else rests on.
LEMMA WishKeeps ==
    ASSUME CandInv, Write([edge EXCEPT !.drop = 2]), drop' \in Drops,
           tally' \in [Events -> Nat], tally'["asks"] = tally["asks"],
           UNCHANGED <<births, taught, synced, model, job, builder, ask, judge, swap, live, raced>>
    PROVE  CandInv'
<1>w. edge' = IF EdgeExists
             THEN [edge EXCEPT !.drop = 2]
             ELSE edge
  BY DEF Write
<1>0. /\ EdgeExists => /\ edge' \in Edge
                       /\ edge'.drop = 2 /\ edge'.cand = edge.cand /\ edge'.state = edge.state
                       /\ edge'.asked = edge.asked /\ edge'.built = edge.built /\ edge'.dirty = edge.dirty
                       /\ edge'.verdict = edge.verdict /\ edge'.judged = edge.judged /\ edge'.label = edge.label
      /\ ~EdgeExists => edge' = NoEdge /\ edge' \in Edge
  <2>1. edge \in Edge /\ (~EdgeExists => edge = NoEdge)
    BY DEF CandInv, CandTypeOK, RowShape
  <2>2. CASE EdgeExists
    BY <1>w, <2>1, <2>2 DEF Edge, EdgeStates, Verdicts, CandInv, CandTypeOK, Builders, Models
  <2>3. CASE ~EdgeExists
    BY <1>w, <2>1, <2>3, CandBlanks
  <2> QED BY <2>2, <2>3
<1>1. CandTypeOK'
  BY <1>0 DEF CandInv, CandTypeOK
<1>2. Numbered' /\ RowShape' /\ LateMarks'
  <2>1. Numbered'
    BY <1>0, CandidateNumbers
    DEF CandInv, CandTypeOK, Numbered, EdgeExists, IdleWorker, NoEdge
  <2>2. RowShape' /\ LateMarks'
    BY <1>0 DEF CandInv, RowShape, LateMarks, EdgeExists, IdleWorker, NoEdge
  <2> QED BY <2>1, <2>2
<1>3. Fitting' /\ StillWaits' /\ JobOfWorker' /\ Judgement' /\ PutBack'
  BY <1>0
  DEF CandInv, Fitting, StillWaits, JobOfWorker, Judgement, PutBack, EdgeExists, IsEdgeOf,
         HasJob, JobPhase, NoJob, Retrains, Overwritten, Fresh, IdleWorker, NoEdge
<1>4. HandedOver' /\ Learning' /\ Syncing'
  BY <1>0
  DEF CandInv, HandedOver, Learning, Syncing, EdgeExists, IsEdgeOf, Fresh, HasJob, JobPhase,
         NoJob, Learnt, Excused, Overwritten, Unjudged, IdleWorker, IdleSwap, NoEdge
<1> QED BY <1>1, <1>2, <1>3, <1>4 DEF CandInv

\* A thread other than the worker looks, and what it saw is well formed.
LEMMA ListensKeeps ==
    ASSUME CandInv, drop' \in Drops, judge' \in Looks,
           judge'.step = "write" => judge'.next \in {"comparing", "blocked"},
           tally' \in [Events -> Nat], tally'["asks"] = tally["asks"],
           UNCHANGED <<edge, births, taught, synced, model, job, builder, ask, swap, live, raced>>
    PROVE  CandInv'
<1>1. CandTypeOK'
  BY DEF CandInv, CandTypeOK
<1>2. Numbered' /\ RowShape' /\ LateMarks'
  BY DEF CandInv, Numbered, RowShape, LateMarks, EdgeExists
<1>3. Fitting' /\ StillWaits' /\ JobOfWorker' /\ Judgement' /\ PutBack'
  BY DEF CandInv, Fitting, StillWaits, JobOfWorker, Judgement, PutBack, EdgeExists,
         HasJob, JobPhase, Retrains, Overwritten, Fresh
<1>4. HandedOver' /\ Learning' /\ Syncing'
  BY DEF CandInv, HandedOver, Learning, Syncing, EdgeExists, IsEdgeOf, Fresh, Learnt,
         HasJob, JobPhase, Excused, Overwritten, Unjudged
<1> QED BY <1>1, <1>2, <1>3, <1>4 DEF CandInv

\* A deferred discard strikes out a request that waits.
LEMMA LaterKeeps == ASSUME CandInv, DiscardLater PROVE CandInv'
<1>w. /\ edge' = IF EdgeExists
                THEN [edge EXCEPT !.state = "discarding", !.drop = 1, !.dirty = FALSE]
                ELSE edge
      /\ raced' = IF EdgeExists THEN raced \cup {"drop"} ELSE raced
      /\ UNCHANGED <<births, taught, synced, model, job, builder, ask, judge, swap, live, tally>>
      /\ drop' = [IdleDrop EXCEPT !.step = "again"]
  BY DEF DiscardLater, Write
<1>0. /\ EdgeExists => /\ edge' \in Edge
                       /\ edge'.state = "discarding" /\ edge'.drop = 1 /\ edge'.dirty = FALSE
                       /\ edge'.cand = edge.cand /\ edge'.asked = edge.asked /\ edge'.built = edge.built
                       /\ edge'.verdict = edge.verdict /\ edge'.judged = edge.judged /\ edge'.label = edge.label
      /\ ~EdgeExists => edge' = NoEdge /\ edge' \in Edge
  <2>1. edge \in Edge /\ (~EdgeExists => edge = NoEdge)
    BY DEF CandInv, CandTypeOK, RowShape
  <2>2. CASE EdgeExists
    <3>1. edge' = [edge EXCEPT !.state = "discarding", !.drop = 1, !.dirty = FALSE]
      BY <1>w, <2>2
    <3> DEFINE d == [edge EXCEPT !.drop = 1]
               e == [d EXCEPT !.state = "discarding", !.dirty = FALSE]
    <3>2. /\ d \in Edge /\ d.drop = 1 /\ d.cand = edge.cand
          /\ d.asked = edge.asked /\ d.built = edge.built /\ d.verdict = edge.verdict
          /\ d.judged = edge.judged /\ d.label = edge.label
      BY <2>1 DEF Edge
    <3>3. /\ e \in Edge /\ e.state = "discarding" /\ e.dirty = FALSE /\ e.drop = d.drop
          /\ e.cand = d.cand /\ e.asked = d.asked /\ e.built = d.built
          /\ e.verdict = d.verdict /\ e.judged = d.judged /\ e.label = d.label
      <4> HIDE DEF d
      <4> QED BY <3>2 DEF Edge, EdgeStates
    <3>4. edge' = e
      BY <2>1, <3>1 DEF Edge
    <3> QED BY <2>2, <3>2, <3>3, <3>4
  <2>3. CASE ~EdgeExists
    BY <1>w, <2>1, <2>3, CandBlanks
  <2> QED BY <2>2, <2>3
<1>s. raced' \in SUBSET Windows /\ drop' \in Drops
  BY <1>w, CandidateNumbers DEF CandInv, CandTypeOK, Windows, IdleDrop, Drops
<1>1. CandTypeOK'
  BY <1>0, <1>w, <1>s DEF CandInv, CandTypeOK
<1>2. Numbered' /\ RowShape' /\ LateMarks'
  <2>1. Numbered'
    BY <1>0, CandidateNumbers, <1>w, <1>s
    DEF CandInv, CandTypeOK, Numbered, EdgeExists, IdleWorker, NoEdge
  <2>2. RowShape' /\ LateMarks'
    BY <1>0, <1>w, <1>s DEF CandInv, RowShape, LateMarks, EdgeExists, IdleWorker, NoEdge
  <2> QED BY <2>1, <2>2
<1>3. Fitting' /\ StillWaits' /\ JobOfWorker' /\ Judgement' /\ PutBack'
  BY <1>0, <1>w, <1>s
  DEF CandInv, Fitting, StillWaits, JobOfWorker, Judgement, PutBack, EdgeExists, IsEdgeOf,
         HasJob, JobPhase, NoJob, Retrains, Overwritten, Fresh, IdleWorker, NoEdge
<1>4. HandedOver' /\ Learning' /\ Syncing'
  BY <1>0, <1>w, <1>s
  DEF CandInv, HandedOver, Learning, Syncing, EdgeExists, IsEdgeOf, Fresh, HasJob, JobPhase,
         NoJob, Learnt, Excused, Overwritten, Unjudged, IdleWorker, IdleSwap, NoEdge
<1> QED BY <1>1, <1>2, <1>3, <1>4 DEF CandInv

LEMMA DiscardKeeps == ASSUME CandInv, DiscardMark \/ DiscardStep PROVE CandInv'
<1>d. \A step \in {"look", "defer", "again"} :
        /\ [IdleDrop EXCEPT !.step = step] \in Drops
        /\ [step |-> "delete", cand |-> edge.cand] \in Drops
  BY CandidateNumbers DEF IdleDrop, Drops, CandInv, CandTypeOK, Edge
<1>1. CASE DiscardMark
  <2>1. /\ Write([edge EXCEPT !.drop = 2]) /\ drop' = [IdleDrop EXCEPT !.step = "look"]
        /\ tally' = [tally EXCEPT !["drops"] = @ + 1]
        /\ UNCHANGED <<births, taught, synced, model, job, builder, ask, judge, swap, live, raced>>
    BY <1>1 DEF DiscardMark, Write, Spend
  <2>2. tally' \in [Events -> Nat] /\ tally'["asks"] = tally["asks"]
    BY <2>1 DEF CandInv, CandTypeOK, Events
  <2> QED BY <1>d, <2>1, <2>2, WishKeeps
<1>2. CASE DiscardLook
  <2>0. UNCHANGED <<edge, births, taught, synced, model, builder, ask, judge, swap, live, raced, tally>>
    BY <1>2 DEF DiscardLook
  <2>1. CASE JobPhase(edge.cand) \in {"active", "stopping"}
    <3>1. job' = [job EXCEPT !.phase = "stopping"] /\ drop' = [IdleDrop EXCEPT !.step = "defer"]
      BY <1>2, <2>1 DEF DiscardLook
    <3>2. job' \in OwnJobs /\ job'.cand = job.cand /\ job'.phase = "stopping" /\ job.phase # "none"
      BY <2>1, <3>1 DEF CandInv, CandTypeOK, OwnJobs, JobPhase
    <3> QED BY <1>d, <2>0, <3>1, <3>2, PhaseKeeps
  <2>2. CASE JobPhase(edge.cand) \notin {"active", "stopping"}
    <3>1. UNCHANGED job /\ drop' \in Drops
      BY <1>2, <1>d, <2>2, CandBlanks DEF DiscardLook
    <3> QED BY <2>0, <3>1, ListensKeeps DEF CandInv, CandTypeOK, RowShape
  <2> QED BY <2>1, <2>2
<1>3. CASE DiscardNow
  BY <1>3, DeleteKeeps, CandBlanks DEF DiscardNow
<1>4. CASE DiscardLater
  BY <1>4, LaterKeeps
<1>5. CASE DiscardAgain
  <2>1. /\ Write([edge EXCEPT !.drop = 2]) /\ drop' \in Drops
        /\ UNCHANGED <<births, taught, synced, model, job, builder, ask, judge, swap, live, raced, tally>>
    BY <1>5, CandBlanks DEF DiscardAgain
  <2>2. tally' \in [Events -> Nat] /\ tally'["asks"] = tally["asks"]
    BY <2>1 DEF CandInv, CandTypeOK
  <2> QED BY <2>1, <2>2, WishKeeps
<1> QED BY <1>1, <1>2, <1>3, <1>4, <1>5 DEF DiscardStep

-----------------------------------------------------------------------------
(* Evidence and promotion                                                    *)

LEMMA JudgeLookKeeps == ASSUME CandInv, JudgeLook PROVE CandInv'
<1>1. PICK next \in {"comparing"} \cup (IF edge.verdict = "passed" THEN {} ELSE {edge.state}) :
        judge' = [step |-> "write", cand |-> edge.cand, next |-> next]
  BY DEF JudgeLook
<1>2. next \in {"comparing", "blocked"} /\ judge' \in Looks
  BY <1>1 DEF JudgeLook, CandInv, CandTypeOK, Edge, Looks, EdgeStates
<1>3. tally' \in [Events -> Nat] /\ tally'["asks"] = tally["asks"]
  BY DEF JudgeLook, Spend, CandInv, CandTypeOK, Events
<1> QED BY <1>1, <1>2, <1>3, ListensKeeps DEF JudgeLook, CandInv, CandTypeOK

\* Evidence is written over whatever state the row has by now.
LEMMA JudgeWriteKeeps == ASSUME CandInv, JudgeWrite PROVE CandInv'
<1>w. /\ edge' = IF IsEdgeOf(judge.cand)
                THEN [edge EXCEPT !.state = judge.next, !.evidence = TRUE] ELSE edge
      /\ raced' = IF edge'.state = edge.state \/ edge.state = "blocked" THEN raced ELSE raced \cup {"judge"}
      /\ judge' = IdleJudge /\ judge' \in Looks
      /\ judge.next \in {"comparing", "blocked"}
      /\ UNCHANGED <<births, taught, synced, model, job, builder, ask, drop, swap, live, tally>>
  BY CandBlanks DEF JudgeWrite, CandInv, RowShape
<1>0. /\ edge' \in Edge /\ (EdgeExists => edge'.cand = edge.cand)
      /\ edge'.asked = edge.asked /\ edge'.built = edge.built /\ edge'.dirty = edge.dirty
      /\ edge'.drop = edge.drop /\ edge'.verdict = edge.verdict /\ edge'.judged = edge.judged
      /\ edge'.label = edge.label
      /\ ~EdgeExists => edge' = NoEdge
      /\ edge'.state = edge.state \/ (edge'.state \in {"comparing", "blocked"} /\ EdgeExists)
  <2>1. edge \in Edge /\ (~EdgeExists => edge = NoEdge)
    BY DEF CandInv, CandTypeOK, RowShape
  <2>2. CASE IsEdgeOf(judge.cand)
    BY <1>w, <2>1, <2>2 DEF Edge, EdgeStates, IsEdgeOf, EdgeExists
  <2>3. CASE ~IsEdgeOf(judge.cand)
    BY <1>w, <2>1, <2>3
  <2> QED BY <2>2, <2>3
<1>s. raced' \in SUBSET Windows
  BY <1>w DEF CandInv, CandTypeOK, Windows
<1>j. judge'.step = "idle"
  BY <1>w DEF IdleJudge
<1>1. CandTypeOK'
  BY <1>0, <1>w, <1>s, <1>j DEF CandInv, CandTypeOK
<1>2. Numbered' /\ RowShape' /\ LateMarks'
  <2>1. Numbered'
    BY <1>0, CandidateNumbers, <1>w, <1>s, <1>j
    DEF CandInv, CandTypeOK, Numbered, EdgeExists, IdleWorker, NoEdge
  <2>2. RowShape' /\ LateMarks'
    BY <1>0, <1>w, <1>s, <1>j DEF CandInv, RowShape, LateMarks, EdgeExists, IdleWorker, NoEdge
  <2> QED BY <2>1, <2>2
<1>3. Fitting' /\ StillWaits' /\ JobOfWorker' /\ Judgement' /\ PutBack'
  BY <1>0, <1>w, <1>s, <1>j
  DEF CandInv, Fitting, StillWaits, JobOfWorker, Judgement, PutBack, EdgeExists, IsEdgeOf,
         HasJob, JobPhase, NoJob, Retrains, Overwritten, Fresh, IdleWorker, NoEdge
<1>4. HandedOver' /\ Learning' /\ Syncing'
  BY <1>0, <1>w, <1>s, <1>j
  DEF CandInv, HandedOver, Learning, Syncing, EdgeExists, IsEdgeOf, Fresh, HasJob, JobPhase,
         NoJob, Learnt, Excused, Overwritten, Unjudged, IdleWorker, IdleSwap, NoEdge
<1> QED BY <1>1, <1>2, <1>3, <1>4 DEF CandInv

\* What is promoted is fresh, and nobody is about to put it back.
LEMMA PromoteCheckKeeps == ASSUME CandInv, PromoteCheck PROVE CandInv'
<1>0. /\ swap' = [step |-> "handing", cand |-> edge.cand, learnt |-> model.learnt]
      /\ swap' \in Swaps /\ Fresh(edge) /\ edge.verdict = "passed"
      /\ tally' \in [Events -> Nat] /\ tally'["asks"] = tally["asks"]
      /\ UNCHANGED <<edge, births, taught, synced, model, job, builder, ask, drop, judge, live, raced>>
  BY DEF PromoteCheck, Promotable, Spend, CandInv, CandTypeOK, Swaps, Edge, Models, Events
<1>1. CandTypeOK'
  BY <1>0 DEF CandInv, CandTypeOK
<1>2. Numbered' /\ RowShape' /\ LateMarks'
  <2>1. Numbered'
    BY <1>0, CandidateNumbers
    DEF CandInv, CandTypeOK, Numbered, EdgeExists, IdleWorker, NoEdge
  <2>2. RowShape' /\ LateMarks'
    BY <1>0 DEF CandInv, RowShape, LateMarks, EdgeExists, IdleWorker, NoEdge
  <2> QED BY <2>1, <2>2
<1>3. Fitting' /\ StillWaits' /\ JobOfWorker' /\ Judgement' /\ PutBack'
  BY <1>0
  DEF CandInv, Fitting, StillWaits, JobOfWorker, Judgement, PutBack, EdgeExists, IsEdgeOf,
         HasJob, JobPhase, NoJob, Retrains, Overwritten, Fresh, IdleWorker, NoEdge
<1>4. HandedOver' /\ Learning' /\ Syncing'
  BY <1>0
  DEF CandInv, HandedOver, Learning, Syncing, EdgeExists, IsEdgeOf, Fresh, HasJob, JobPhase,
         NoJob, Learnt, Excused, Overwritten, Unjudged, IdleWorker, IdleSwap, NoEdge, PutBack
<1> QED BY <1>1, <1>2, <1>3, <1>4 DEF CandInv

LEMMA PromoteEndKeeps == ASSUME CandInv, PromoteCommit \/ PromoteFails PROVE CandInv'
<1>1. CASE PromoteCommit
  <2>1. live' \in Nat /\ job \in OwnJobs /\ job.cand <= births /\ drop \in Drops
    BY <1>1 DEF PromoteCommit, CandInv, CandTypeOK, Numbered, Swaps
  <2> QED BY <1>1, <2>1, GoneKeeps DEF PromoteCommit
<1>2. CASE PromoteFails
  <2>0. /\ swap' = IdleSwap /\ swap' \in Swaps
        /\ UNCHANGED <<edge, births, taught, synced, model, job, builder, ask, drop, judge, live,
                       raced, tally>>
    BY <1>2, CandBlanks DEF PromoteFails
  <2>1. CandTypeOK'
    BY <2>0 DEF CandInv, CandTypeOK
  <2>2. Numbered' /\ RowShape' /\ LateMarks'
    <3>1. Numbered'
      BY <2>0, CandidateNumbers
      DEF CandInv, CandTypeOK, Numbered, EdgeExists, IdleWorker, NoEdge, IdleSwap
    <3>2. RowShape' /\ LateMarks'
      BY <2>0 DEF CandInv, RowShape, LateMarks, EdgeExists, IdleWorker, NoEdge
    <3> QED BY <3>1, <3>2
  <2>3. Fitting' /\ StillWaits' /\ JobOfWorker' /\ Judgement' /\ PutBack'
    BY <2>0
    DEF CandInv, Fitting, StillWaits, JobOfWorker, Judgement, PutBack, EdgeExists, IsEdgeOf,
           HasJob, JobPhase, NoJob, Retrains, Overwritten, Fresh, IdleWorker, NoEdge
  <2>4. HandedOver' /\ Learning' /\ Syncing'
    BY <2>0
    DEF CandInv, HandedOver, Learning, Syncing, EdgeExists, IsEdgeOf, Fresh, HasJob, JobPhase,
           NoJob, Learnt, Excused, Overwritten, Unjudged, IdleWorker, IdleSwap, NoEdge
  <2> QED BY <2>1, <2>2, <2>3, <2>4 DEF CandInv
<1> QED BY <1>1, <1>2

-----------------------------------------------------------------------------
(* Restart                                                                   *)

\* What the recoveries make of a row.
LEMMA RecoveredEffect ==
    ASSUME edge \in Edge
    PROVE  /\ RecoveredRow \in Edge
           /\ RecoveredRow.cand = edge.cand /\ RecoveredRow.asked = edge.asked
           /\ RecoveredRow.built = edge.built /\ RecoveredRow.drop = edge.drop
           /\ RecoveredRow.verdict = edge.verdict /\ RecoveredRow.judged = edge.judged
           /\ RecoveredRow.label = edge.label
           /\ \/ RecoveredRow.state = "queued" /\ RecoveredRow.dirty
              \/ edge.drop = 1 /\ RecoveredRow.state = "discarding" /\ ~RecoveredRow.dirty
              \/ /\ RecoveredRow.state = edge.state /\ RecoveredRow.dirty = edge.dirty
                 /\ edge.state \notin {"building", "discarding"}
<1> DEFINE requeued == IF edge.state \in {"building", "discarding"}
                       THEN [edge EXCEPT !.state = "queued", !.dirty = TRUE] ELSE edge
           dropped  == IF requeued.drop = 1
                       THEN [requeued EXCEPT !.state = "discarding", !.dirty = FALSE] ELSE requeued
           final    == IF dropped.state = "comparing" /\ dropped.verdict = "none"
                       THEN [dropped EXCEPT !.state = "queued", !.dirty = TRUE] ELSE dropped
           Same(e)  == /\ e \in Edge
                       /\ e.cand = edge.cand /\ e.asked = edge.asked /\ e.built = edge.built
                       /\ e.drop = edge.drop /\ e.verdict = edge.verdict
                       /\ e.judged = edge.judged /\ e.label = edge.label
<1>1. /\ Same(requeued)
      /\ \/ requeued.state = "queued" /\ requeued.dirty
         \/ requeued = edge /\ edge.state \notin {"building", "discarding"}
  BY DEF Edge, EdgeStates
<1>2. /\ Same(dropped)
      /\ \/ dropped.state = "discarding" /\ ~dropped.dirty /\ edge.drop = 1
         \/ dropped = requeued
  <2> HIDE DEF requeued
  <2> QED BY <1>1 DEF Edge, EdgeStates
<1>3. /\ Same(final)
      /\ final = dropped \/ (final.state = "queued" /\ final.dirty)
  <2> HIDE DEF dropped
  <2> QED BY <1>2 DEF Edge, EdgeStates
<1>4. RecoveredRow = final
  BY DEF RecoveredRow
<1> HIDE DEF final, dropped, requeued
<1> QED BY <1>1, <1>2, <1>3, <1>4

LEMMA RestartKeeps == ASSUME CandInv, BuildRestart PROVE CandInv'
<1>w. /\ edge' = (IF EdgeExists THEN RecoveredRow ELSE edge) /\ job' = NoJob /\ builder' = IdleWorker
      /\ ask' = [a \in Askers |-> IdleAsk]
      /\ drop' = IdleDrop /\ judge' = IdleJudge /\ swap' = IdleSwap
      /\ tally' = [tally EXCEPT !["deaths"] = @ + 1]
      /\ UNCHANGED <<births, taught, synced, model, live, raced>>
  BY DEF BuildRestart, Write, Spend
<1>0. /\ edge' \in Edge /\ edge'.cand = edge.cand /\ edge'.asked = edge.asked
      /\ edge'.built = edge.built /\ edge'.drop = edge.drop /\ edge'.verdict = edge.verdict
      /\ edge'.judged = edge.judged /\ edge'.label = edge.label
      /\ ~EdgeExists => edge' = NoEdge
      /\ \/ edge'.state = "queued" /\ edge'.dirty /\ EdgeExists
         \/ edge.drop = 1 /\ edge'.state = "discarding" /\ ~edge'.dirty /\ EdgeExists
         \/ /\ edge'.state = edge.state /\ edge'.dirty = edge.dirty
            /\ edge.state \notin {"building", "discarding"}
  <2>1. edge \in Edge /\ (~EdgeExists => edge = NoEdge) /\ NoEdge.state = "none"
    BY DEF CandInv, CandTypeOK, RowShape, NoEdge
  <2> QED BY <1>w, <2>1, RecoveredEffect
<1>t. /\ job' \in OwnJobs /\ builder' \in Builders /\ ask' \in [Askers -> Asks] /\ drop' \in Drops
      /\ judge' \in Looks /\ swap' \in Swaps /\ tally' \in [Events -> Nat]
      /\ tally'["asks"] = tally["asks"]
  BY <1>w, CandBlanks DEF CandInv, CandTypeOK, Events
<1>u. UNCHANGED <<births, taught, synced, model, live, raced>>
  BY <1>w
<1>i. /\ \A a \in Askers : ask'[a].label = 0 /\ ask'[a].step = "idle"
      /\ builder'.step = "idle" /\ builder'.row.cand = 0 /\ swap'.cand = 0 /\ swap'.step = "idle"
      /\ judge'.step = "idle" /\ job'.cand = 0 /\ job'.phase = "none"
  BY <1>w DEF IdleAsk, IdleWorker, NoEdge, IdleSwap, IdleJudge, NoJob
<1>1. CandTypeOK'
  BY <1>0, <1>u, <1>t DEF CandInv, CandTypeOK
<1>2. Numbered' /\ RowShape' /\ LateMarks'
  <2>1. Numbered'
    BY <1>0, CandidateNumbers, <1>u, <1>t, <1>i
    DEF CandInv, CandTypeOK, Numbered, EdgeExists, IdleWorker, NoEdge
  <2>2. RowShape' /\ LateMarks'
    BY <1>0, <1>u, <1>i DEF CandInv, RowShape, LateMarks, EdgeExists, IdleWorker, NoEdge
  <2> QED BY <2>1, <2>2
<1>3. Fitting' /\ StillWaits' /\ JobOfWorker' /\ Judgement' /\ PutBack'
  BY <1>0, <1>u, <1>i
  DEF CandInv, Fitting, StillWaits, JobOfWorker, Judgement, PutBack, EdgeExists, IsEdgeOf,
         HasJob, JobPhase, NoJob, Retrains, Overwritten, Fresh, IdleWorker, NoEdge, RowShape
<1>4. HandedOver' /\ Learning' /\ Syncing'
  <2>1. HandedOver' /\ Syncing'
    BY <1>i DEF HandedOver, Syncing
  <2>2. SUFFICES ASSUME EdgeExists PROVE Learning'
    BY <1>0, <2>1 DEF Learning, EdgeExists, NoEdge
  <2>3. ~HasJob' /\ edge.state # "none"
    BY <1>i, <2>2 DEF HasJob, JobPhase, CandInv, RowShape
  <2>4. CASE edge'.dirty \/ "drop" \in raced
    BY <1>u, <1>i, <2>3, <2>4 DEF Learning, Learnt, Excused
  <2>5. CASE ~edge'.dirty /\ "drop" \notin raced
    <3>1. /\ edge'.state = edge.state /\ edge'.dirty = edge.dirty
          /\ edge.state \notin {"building", "discarding", "queued"}
      BY <1>0, <2>5 DEF CandInv, RowShape
    <3>2. edge.state \in {"comparing", "blocked", "failed"}
      BY <2>3, <3>1 DEF CandInv, CandTypeOK, Edge, EdgeStates
    <3>3. Learnt \/ Unjudged
      BY <2>2, <3>2 DEF CandInv, Learning, RowShape, Unjudged
    <3>4. edge.state # "failed" => Learnt
      BY <2>2, <3>2 DEF CandInv, Learning
    <3>5. (Learnt => Learnt') /\ (Unjudged => Unjudged')
      BY <1>0, <1>u, <3>1 DEF Learnt, Excused, Overwritten, Unjudged
    <3> QED BY <1>i, <2>3, <3>1, <3>3, <3>4, <3>5 DEF Learning
  <2> QED BY <2>4, <2>5
<1> QED BY <1>1, <1>2, <1>3, <1>4 DEF CandInv

-----------------------------------------------------------------------------
(* Feedback and requests                                                     *)

LEMMA OneAsks ==
    ASSUME NEW f \in [Askers -> Asks], NEW a \in Askers, NEW q \in Asks,
           NEW g, g = [f EXCEPT ![a] = q]
    PROVE  /\ g \in [Askers -> Asks] /\ g[a] = q
           /\ \A b \in Askers \ {a} : g[b] = f[b]
  OBVIOUS

\* Somebody reads the row, and creates it where there is none.
LEMMA AskLookKeeps ==
    ASSUME CandInv, NEW a \in Askers, NEW kind \in AskKinds, AskLook(a, kind)
    PROVE  CandInv'
<1> DEFINE q == [step |-> "mark", kind |-> kind, saw |-> edge'.state, cand |-> edge'.cand,
                 label |-> taught']
<1>w. /\ taught' \in Nat /\ taught <= taught'
      /\ ask' = [ask EXCEPT ![a] = q]
      /\ tally' = [tally EXCEPT !["asks"] = @ + 1] /\ tally["asks"] < Limits["asks"]
      /\ UNCHANGED <<job, builder, drop, judge, swap, live>>
  BY DEF AskLook, Spend, Below, CandInv, CandTypeOK
<1>q. edge' \in Edge => q \in Asks /\ q.label = taught' /\ q.saw = edge'.state
  BY <1>w DEF Asks, Edge
<1>k. ask \in [Askers -> Asks]
  BY DEF CandInv, CandTypeOK
<1> HIDE DEF q
<1>t. /\ tally' \in [Events -> Nat] /\ tally'["asks"] = tally["asks"] + 1
      /\ tally'["asks"] \in CandIds /\ births \in Nat /\ births + 1 \in CandIds
      /\ births <= tally["asks"] /\ tally'["asks"] <= Limits["asks"] /\ tally["asks"] \in Nat
  BY <1>w, LimitsAssumption DEF CandInv, CandTypeOK, Numbered, CandIds, Events, LimitsAssumption
<1>g. CASE EdgeExists
  <2>u. UNCHANGED <<edge, births, synced, model, raced>>
    BY <1>g DEF AskLook
  <2>a. /\ ask' \in [Askers -> Asks]
        /\ \A b \in Askers : \/ ask'[b] = ask[b]
                             \/ ask'[b].label = taught' /\ ask'[b].saw = edge.state
    <3>1. q \in Asks /\ q.label = taught' /\ q.saw = edge.state
      BY <1>q, <2>u DEF CandInv, CandTypeOK
    <3>2. /\ ask' \in [Askers -> Asks] /\ ask'[a] = q
          /\ \A b \in Askers \ {a} : ask'[b] = ask[b]
      BY <1>w, <1>k, <3>1, OneAsks
    <3> QED BY <3>1, <3>2
  <2>0. /\ UNCHANGED <<edge, births, synced, model, raced, job, builder, drop, judge, swap, live>>
        /\ taught' \in Nat /\ taught <= taught' /\ EdgeExists /\ edge.label \in Nat /\ taught \in Nat
        /\ \A b \in Askers : ask[b].label \in Nat
    BY <1>w, <1>g, <2>u DEF CandInv, CandTypeOK, Edge, Asks
  <2>1. CandTypeOK'
    BY <2>0, <1>t, <2>a DEF CandInv, CandTypeOK
  <2>2. Numbered' /\ RowShape' /\ LateMarks'
    <3>1. Numbered'
      <4>1. \A b \in Askers : ask'[b].label <= taught'
                               /\ (ask'[b].step = "mark" => ask'[b].saw # "none")
        BY <2>0, <2>a DEF CandInv, Numbered, RowShape
      <4>2. edge.label <= taught'
        BY <2>0 DEF CandInv, Numbered
      <4> QED BY <4>1, <4>2, <2>0, <1>t DEF CandInv, Numbered
    <3>2. RowShape' /\ LateMarks'
      BY <2>0, <1>t, <2>a DEF CandInv, RowShape, LateMarks, EdgeExists, IdleWorker, NoEdge
    <3> QED BY <3>1, <3>2
  <2>3. Fitting' /\ StillWaits' /\ JobOfWorker' /\ Judgement' /\ PutBack'
    BY <2>0, <1>t, <2>a
    DEF CandInv, Fitting, StillWaits, JobOfWorker, Judgement, PutBack, EdgeExists, IsEdgeOf,
           HasJob, JobPhase, NoJob, Retrains, Overwritten, Fresh, IdleWorker, NoEdge
  <2>4. HandedOver' /\ Learning' /\ Syncing'
    BY <2>0, <1>t, <2>a
    DEF CandInv, HandedOver, Learning, Syncing, EdgeExists, IsEdgeOf, Fresh, HasJob, JobPhase,
           NoJob, Learnt, Excused, Overwritten, Unjudged, IdleWorker, IdleSwap, NoEdge
  <2> QED BY <2>1, <2>2, <2>3, <2>4 DEF CandInv
<1>h. CASE ~EdgeExists
  <2>u. /\ births' = births + 1 /\ edge' = NewEdge(births + 1) /\ synced' = 0
        /\ model' = [trained |-> 0, learnt |-> live, good |-> TRUE] /\ raced' = OpenWindows
    BY <1>h DEF AskLook
  <2>e. /\ edge' \in Edge /\ edge'.cand = births + 1 /\ edge'.state = "queued" /\ edge'.dirty
        /\ edge'.drop = 0 /\ edge'.verdict = "none" /\ edge'.label = 0
    BY <2>u, <1>t, CandBlanks DEF NewEdge, NoEdge, Edge, EdgeStates
  <2>a. /\ ask' \in [Askers -> Asks]
        /\ \A b \in Askers : \/ ask'[b] = ask[b]
                             \/ ask'[b].label = taught' /\ ask'[b].saw = "queued"
    <3>1. q \in Asks /\ q.label = taught' /\ q.saw = "queued"
      BY <1>q, <2>e
    <3>2. /\ ask' \in [Askers -> Asks] /\ ask'[a] = q
          /\ \A b \in Askers \ {a} : ask'[b] = ask[b]
      BY <1>w, <1>k, <3>1, OneAsks
    <3> QED BY <3>1, <3>2
  <2>r. /\ raced' \in SUBSET Windows /\ model' \in Models
        /\ builder.step \in {"persist", "compare", "gate"} => "verdict" \in raced'
        /\ builder.step \in {"claimJob", "mark"} => "sync" \in raced'
        /\ swap.step # "idle" => "swap" \in raced'
    BY <2>u DEF OpenWindows, Windows, Models, CandInv, CandTypeOK
  <2>0. /\ births' = births + 1 /\ synced' = 0 /\ synced' \in Nat
        /\ UNCHANGED <<job, builder, drop, judge, swap, live>>
        /\ taught' \in Nat /\ taught <= taught' /\ taught \in Nat
        /\ job.cand <= births /\ builder.row.cand <= births /\ swap.cand <= births
        /\ job.cand \in Nat /\ builder.row.cand \in Nat /\ swap.cand \in Nat
        /\ \A b \in Askers : ask[b].label \in Nat
    BY <1>w, <2>u, CandidateNumbers DEF CandInv, CandTypeOK, Numbered, Edge, Asks, OwnJobs, Builders, Swaps
  <2>1. CandTypeOK'
    BY <2>0, <1>t, <2>a, <2>e, <2>r DEF CandInv, CandTypeOK
  <2>2. Numbered' /\ RowShape' /\ LateMarks'
    <3>1. Numbered'
      <4>1. \A b \in Askers : ask'[b].label <= taught'
                               /\ (ask'[b].step = "mark" => ask'[b].saw # "none")
        BY <2>0, <2>a DEF CandInv, Numbered
      <4>2. edge'.label <= taught' /\ edge'.cand <= births' /\ job'.cand <= births'
            /\ builder'.row.cand <= births' /\ swap'.cand <= births' /\ births' <= tally'["asks"]
        BY <2>0, <2>e, <1>t
      <4> QED BY <4>1, <4>2, <1>t DEF Numbered
    <3>2. RowShape' /\ LateMarks'
      BY <2>0, <1>t, <2>a, <2>e, <2>r DEF CandInv, RowShape, LateMarks, EdgeExists, IdleWorker, NoEdge
    <3> QED BY <3>1, <3>2
  <2>3. Fitting' /\ StillWaits' /\ JobOfWorker' /\ Judgement' /\ PutBack'
    BY <2>0, <1>t, <2>a, <2>e, <2>r
    DEF CandInv, Fitting, StillWaits, JobOfWorker, Judgement, PutBack, EdgeExists, IsEdgeOf,
           HasJob, JobPhase, NoJob, Retrains, Overwritten, Fresh, IdleWorker, NoEdge
  <2>4. HandedOver' /\ Learning' /\ Syncing'
    BY <2>0, <1>t, <2>a, <2>e, <2>r
    DEF CandInv, HandedOver, Learning, Syncing, EdgeExists, IsEdgeOf, Fresh, HasJob, JobPhase,
           NoJob, Learnt, Excused, Overwritten, Unjudged, IdleWorker, IdleSwap, NoEdge
  <2> QED BY <2>1, <2>2, <2>3, <2>4 DEF CandInv
<1> QED BY <1>g, <1>h

\* A mark either puts the row back in a state in which the worker builds it, or
\* leaves its state and its mark as they are.
LEMMA MarkedEffect ==
    ASSUME edge \in Edge, NEW q \in Asks, q.saw # "none"
    PROVE  /\ Marked(q) \in Edge /\ Marked(q).cand = edge.cand /\ Marked(q).built = edge.built
           /\ Marked(q).judged = edge.judged
           /\ Marked(q).label = edge.label \/ Marked(q).label = q.label
           /\ Marked(q).verdict = edge.verdict \/ Marked(q).verdict = "none"
           /\ Marked(q).drop = edge.drop \/ Marked(q).drop = 0
           /\ \/ Marked(q).dirty /\ Marked(q).state \in {"queued", "building"}
              \/ /\ Marked(q).dirty = edge.dirty /\ Marked(q).state = edge.state
                 /\ Marked(q).asked = edge.asked /\ Marked(q).verdict = edge.verdict
                 /\ Marked(q).label = edge.label
<1>n. NextState(q.saw) \in {"queued", "building"} /\ {"queued", "building"} \subseteq EdgeStates
  BY DEF NextState, EdgeStates
<1> DEFINE taken == [edge EXCEPT !.asked = @ + 1, !.dirty = TRUE, !.state = NextState(q.saw),
                        !.full = FALSE, !.drop = 0, !.label = q.label, !.evidence = FALSE,
                        !.verdict = IF q.kind = "coalesce" THEN "none" ELSE @]
           configured == [edge EXCEPT !.dirty = TRUE, !.state = NextState(q.saw), !.full = TRUE,
                        !.evidence = FALSE]
           hurried == [edge EXCEPT !.full = FALSE, !.drop = 0]
           again   == [edge EXCEPT !.state = "queued", !.dirty = TRUE, !.full = FALSE, !.drop = 0,
                               !.evidence = FALSE]
<1> DEFINE kept == [edge EXCEPT !.drop = 0]
<1>k. /\ kept \in Edge /\ kept.drop = 0 /\ kept.cand = edge.cand /\ kept.state = edge.state
      /\ kept.asked = edge.asked /\ kept.built = edge.built /\ kept.dirty = edge.dirty
      /\ kept.verdict = edge.verdict /\ kept.judged = edge.judged /\ kept.label = edge.label
  BY DEF Edge
<1>1. CASE q.kind \in {"feedback", "coalesce"}
  <2>1. Marked(q) = taken
    BY <1>1 DEF Marked
  <2> DEFINE counted == [kept EXCEPT !.asked = edge.asked + 1, !.label = q.label]
             written == [counted EXCEPT !.dirty = TRUE, !.state = NextState(q.saw), !.full = FALSE,
                           !.evidence = FALSE,
                           !.verdict = IF q.kind = "coalesce" THEN "none" ELSE edge.verdict]
  <2>2. /\ counted \in Edge /\ counted.drop = 0 /\ counted.cand = edge.cand
        /\ counted.built = edge.built /\ counted.label = q.label
        /\ counted.verdict = edge.verdict /\ counted.judged = edge.judged
    <3>1. q.label \in Nat /\ edge.asked + 1 \in Nat
      BY DEF Edge, Asks
    <3> DEFINE n == edge.asked + 1
    <3> HIDE DEF kept, n
    <3>2. n \in Nat
      BY <3>1 DEF n
    <3>3. counted = [kept EXCEPT !.asked = n, !.label = q.label]
      BY DEF n
    <3> HIDE DEF counted
    <3> QED BY <1>k, <3>1, <3>2, <3>3 DEF Edge
  <2>3. /\ written \in Edge /\ written.cand = edge.cand /\ written.built = edge.built
        /\ written.judged = edge.judged /\ written.label = q.label /\ written.drop = 0
        /\ written.dirty /\ written.state = NextState(q.saw)
        /\ written.verdict = IF q.kind = "coalesce" THEN "none" ELSE edge.verdict
    <3> HIDE DEF counted
    <3> QED BY <1>n, <2>2 DEF Edge, Verdicts
  <2>4. taken = written
    BY DEF Edge
  <2> HIDE DEF taken, written
  <2> QED BY <1>n, <2>1, <2>3, <2>4
<1>2. CASE q.kind = "config"
  <2>1. Marked(q) = configured
    BY <1>2 DEF Marked
  <2>2. /\ configured \in Edge /\ configured.cand = edge.cand /\ configured.built = edge.built
        /\ configured.judged = edge.judged /\ configured.label = edge.label
        /\ configured.drop = edge.drop /\ configured.dirty
        /\ configured.state = NextState(q.saw) /\ configured.verdict = edge.verdict
    BY <1>n DEF Edge
  <2> HIDE DEF configured
  <2> QED BY <1>n, <2>1, <2>2
<1>3. CASE q.kind = "build" /\ q.saw = "building"
  <2>1. Marked(q) = edge
    BY <1>3 DEF Marked
  <2> QED BY <2>1
<1>4. CASE q.kind = "build" /\ q.saw = "queued"
  <2>1. Marked(q) = hurried
    BY <1>4 DEF Marked
  <2>2. /\ hurried \in Edge /\ hurried.cand = edge.cand /\ hurried.built = edge.built
        /\ hurried.judged = edge.judged /\ hurried.label = edge.label
        /\ hurried.drop = 0 /\ hurried.dirty = edge.dirty /\ hurried.asked = edge.asked
        /\ hurried.state = edge.state /\ hurried.verdict = edge.verdict
    <3>1. hurried = [kept EXCEPT !.full = FALSE]
      BY DEF Edge
    <3> HIDE DEF kept, hurried
    <3> QED BY <1>k, <3>1 DEF Edge
  <2> HIDE DEF hurried
  <2> QED BY <2>1, <2>2
<1>5. CASE q.kind = "build" /\ q.saw \notin {"building", "queued"}
  <2>1. Marked(q) = again
    BY <1>5 DEF Marked
  <2>2. /\ again \in Edge /\ again.cand = edge.cand /\ again.built = edge.built
        /\ again.judged = edge.judged /\ again.label = edge.label
        /\ again.drop = 0 /\ again.dirty
        /\ again.state = "queued" /\ again.verdict = edge.verdict
    <3>1. again = [kept EXCEPT !.state = "queued", !.dirty = TRUE, !.full = FALSE, !.evidence = FALSE]
      BY DEF Edge
    <3> HIDE DEF kept, again
    <3> QED BY <1>k, <1>n, <3>1 DEF Edge
  <2> HIDE DEF again
  <2> QED BY <2>1, <2>2
<1>6. q.kind \in {"feedback", "coalesce", "config", "build"}
  BY DEF Asks, AskKinds
<1> QED BY <1>1, <1>2, <1>3, <1>4, <1>5, <1>6

\* The windows after a mark.
LEMMA WindowsAfterMark ==
    ASSUME CandTypeOK, raced' = OpenWindows \cup (raced \ Reopened(edge'))
    PROVE  /\ raced' \in SUBSET Windows
           /\ builder.step \in {"persist", "compare", "gate"} => "verdict" \in raced'
           /\ builder.step \in {"claimJob", "mark"} => "sync" \in raced'
           /\ swap.step = "handing" => "swap" \in raced'
           /\ \A w \in {"sync", "queue", "rebuild", "swap"} : w \in raced => w \in raced'
           /\ \A w \in {"verdict", "judge"} : w \in raced =>
                w \in raced' \/ edge'.state \in {"queued", "building"}
           /\ "drop" \in raced => "drop" \in raced' \/ (edge'.dirty /\ edge'.drop = 0)
  BY DEF CandTypeOK, OpenWindows, Reopened, Windows

LEMMA AskMarkKeeps ==
    ASSUME CandInv, NEW a \in Askers, AskMark(a)
    PROVE  CandInv'
<1>q. ask[a] \in Asks /\ ask[a].saw # "none" /\ ask[a].label <= taught /\ edge \in Edge
  BY DEF AskMark, CandInv, CandTypeOK, Numbered
<1>w. /\ edge' = edge \/ (EdgeExists /\ edge' = Marked(ask[a]))
      /\ raced' = OpenWindows \cup (raced \ Reopened(edge'))
      /\ ask' = [ask EXCEPT ![a] = IdleAsk]
      /\ UNCHANGED <<births, taught, synced, model, job, builder, drop, judge, swap, live, tally>>
  BY DEF AskMark, Write
<1>a. /\ ask' \in [Askers -> Asks] /\ ask'[a] = IdleAsk
      /\ \A b \in Askers \ {a} : ask'[b] = ask[b]
  BY <1>w, CandBlanks DEF CandInv, CandTypeOK
<1>i. IdleAsk.label = 0 /\ IdleAsk.step = "idle"
  BY DEF IdleAsk
<1>r. /\ raced' \in SUBSET Windows
      /\ builder.step \in {"persist", "compare", "gate"} => "verdict" \in raced'
      /\ builder.step \in {"claimJob", "mark"} => "sync" \in raced'
      /\ swap.step = "handing" => "swap" \in raced'
      /\ "sync" \in raced => "sync" \in raced'
      /\ "queue" \in raced => "queue" \in raced'
      /\ "rebuild" \in raced => "rebuild" \in raced'
      /\ "swap" \in raced => "swap" \in raced'
      /\ "verdict" \in raced => "verdict" \in raced' \/ edge'.state \in {"queued", "building"}
      /\ "judge" \in raced => "judge" \in raced' \/ edge'.state \in {"queued", "building"}
      /\ "drop" \in raced => "drop" \in raced' \/ (edge'.dirty /\ edge'.drop = 0)
  BY <1>w, WindowsAfterMark DEF CandInv
<1>0. /\ edge' \in Edge /\ edge'.cand = edge.cand /\ edge'.built = edge.built
      /\ edge'.judged = edge.judged /\ edge'.label <= taught
      /\ edge'.verdict = edge.verdict \/ edge'.verdict = "none"
      /\ edge'.drop = edge.drop \/ edge'.drop = 0
      /\ \/ edge'.dirty /\ edge'.state \in {"queued", "building"} /\ EdgeExists
         \/ /\ edge'.dirty = edge.dirty /\ edge'.state = edge.state
            /\ edge'.asked = edge.asked /\ edge'.verdict = edge.verdict
            /\ edge'.label = edge.label
      /\ ~EdgeExists => edge' = NoEdge
  <2>1. CASE edge' = edge
    BY <1>q, <2>1 DEF CandInv, Numbered, RowShape
  <2>2. CASE EdgeExists /\ edge' = Marked(ask[a])
    <3>1. edge.label <= taught
      BY DEF CandInv, Numbered
    <3> QED BY <1>q, <2>2, <3>1, MarkedEffect
  <2> QED BY <1>w, <2>1, <2>2
<1>u. UNCHANGED <<births, taught, synced, model, job, builder, drop, judge, swap, live, tally>>
  BY <1>w
<1>1. CandTypeOK'
  BY <1>0, <1>u, <1>r, <1>a DEF CandInv, CandTypeOK
<1>2. Numbered' /\ RowShape' /\ LateMarks'
  <2>1. Numbered'
    <3>1. \A b \in Askers : ask'[b].label <= taught /\ (ask'[b].step = "mark" => ask'[b].saw # "none")
      <4>1. 0 <= taught
        BY DEF CandInv, CandTypeOK
      <4> QED BY <1>a, <1>i, <4>1 DEF CandInv, Numbered
    <3> QED BY <1>0, <1>u, <3>1 DEF CandInv, Numbered
  <2>2. RowShape' /\ LateMarks'
    BY <1>0, <1>u, <1>r DEF CandInv, RowShape, LateMarks, EdgeExists, IdleWorker, NoEdge
  <2> QED BY <2>1, <2>2
<1>3. Fitting' /\ StillWaits' /\ JobOfWorker' /\ Judgement' /\ PutBack'
  BY <1>0, <1>u, <1>r
  DEF CandInv, Fitting, StillWaits, JobOfWorker, Judgement, PutBack, EdgeExists, IsEdgeOf,
         HasJob, JobPhase, NoJob, Retrains, Overwritten, Fresh, IdleWorker, NoEdge
<1>4. HandedOver' /\ Learning' /\ Syncing'
  BY <1>0, <1>u, <1>r
  DEF CandInv, HandedOver, Learning, Syncing, EdgeExists, IsEdgeOf, Fresh, HasJob, JobPhase,
         NoJob, Learnt, Excused, Overwritten, Unjudged, IdleWorker, IdleSwap, NoEdge, RowShape
<1> QED BY <1>1, <1>2, <1>3, <1>4 DEF CandInv

-----------------------------------------------------------------------------
(* The invariant and what follows from it                                    *)

LEMMA CandStarts == BuildInit => CandInv
<1> SUFFICES ASSUME BuildInit PROVE CandInv
  OBVIOUS
<1>1. CandTypeOK
  <2>1. births \in CandIds /\ model \in Models /\ tally \in [Events -> Nat] /\ raced \in SUBSET Windows
    BY CandidateNumbers DEF BuildInit, Models
  <2> QED BY <2>1, CandBlanks DEF BuildInit, CandTypeOK
<1>2. edge = NoEdge /\ edge.cand = 0 /\ edge.state = "none" /\ edge.drop = 0 /\ edge.label = 0
      /\ edge.verdict = "none" /\ ~edge.dirty
      /\ builder.step = "idle" /\ builder.row.cand = 0 /\ swap.cand = 0 /\ swap.step = "idle"
      /\ judge.step = "idle" /\ job.cand = 0 /\ births = 0 /\ taught = 0
  BY DEF BuildInit, NoEdge, IdleWorker, IdleSwap, IdleJudge, NoJob
<1>3. Numbered
  <2>1. \A a \in Askers : ask[a].label = 0 /\ ask[a].step = "idle"
    BY DEF BuildInit, IdleAsk
  <2>2. tally["asks"] = 0 /\ Limits["asks"] \in Nat
    BY LimitsAssumption DEF BuildInit, Events, LimitsAssumption
  <2> QED BY <1>2, <2>1, <2>2 DEF Numbered
<1>4. RowShape /\ LateMarks /\ Fitting /\ StillWaits /\ JobOfWorker
  BY <1>2 DEF RowShape, LateMarks, Fitting, StillWaits, JobOfWorker, EdgeExists
<1>5. Judgement /\ PutBack /\ HandedOver /\ Learning /\ Syncing
  BY <1>2 DEF Judgement, PutBack, HandedOver, Learning, Syncing, EdgeExists
<1> QED BY <1>1, <1>3, <1>4, <1>5 DEF CandInv

LEMMA BuilderKeeps == ASSUME CandInv, BuilderStep PROVE CandInv'
<1>1. ASSUME PutOff PROVE CandInv'
  BY <1>1, RestKeeps DEF PutOff, WorkerFrame
<1>2. ASSUME FinishLater PROVE CandInv'
  BY <1>2, RestKeeps DEF FinishLater, WorkerFrame
<1> QED BY <1>1, <1>2, ListKeeps, StartCorrectKeeps, ClaimKeeps, FitKeeps, ReadBackKeeps,
           RequeueKeeps, PersistKeeps, StartFullKeeps, ClaimJobKeeps, MarkFullKeeps,
           FinishKeeps, CompareKeeps, FullGateKeeps DEF BuilderStep

LEMMA CandSteps == CandInv /\ [BuildNext]_buildVars => CandInv'
<1> SUFFICES ASSUME CandInv, [BuildNext]_buildVars PROVE CandInv'
  OBVIOUS
<1>1. ASSUME NEW a \in Askers, \E kind \in AskKinds : AskLook(a, kind) PROVE CandInv'
  BY <1>1, AskLookKeeps
<1>2. ASSUME NEW a \in Askers, AskMark(a) PROVE CandInv'
  BY <1>2, AskMarkKeeps
<1> QED BY <1>1, <1>2, CandStutters, BuilderKeeps, JobStartKeeps, JobEndKeeps, DiscardKeeps,
           JudgeLookKeeps, JudgeWriteKeeps, PromoteCheckKeeps, PromoteEndKeeps, RestartKeeps
        DEF BuildNext

\* The invariant holds in every state, for any askers and any limits.
THEOREM CandidateInvariant == BuildSpec => []CandInv
  BY CandStarts, CandSteps, PTL DEF BuildSpec

\* The variables keep their types.
THEOREM CandidateTyped == BuildSpec => []CandTypeOK
<1>1. CandInv => CandTypeOK
  BY DEF CandInv
<1> QED BY <1>1, CandidateInvariant, PTL

\* A request that waits is where the worker looks, or fell in a window between
\* a decision of the worker or the engine and its write.
THEOREM RequestsAreSeen == BuildSpec => []WaitingIsSeen
<1>1. CandInv => WaitingIsSeen
  BY DEF CandInv, LateMarks, WaitingIsSeen
<1> QED BY <1>1, CandidateInvariant, PTL

\* What may be promoted has learnt the labels that were asked for.
THEOREM PromotedHasLearnt == BuildSpec => []PromotableHasLearnt
<1>1. CandInv => PromotableHasLearnt
  <2> SUFFICES ASSUME CandInv, Promotable, model.learnt < edge.label
               PROVE  "sync" \in raced \/ "judge" \in raced \/ "drop" \in raced
    BY DEF PromotableHasLearnt, CandInv, CandTypeOK, Edge, Models
  <2>1. /\ EdgeExists /\ ~edge.dirty /\ model.good /\ ~HasJob /\ edge.verdict = "passed"
        /\ edge.label \in Nat /\ model.learnt \in Nat
    BY DEF Promotable, Fresh, HasJob, CandInv, CandTypeOK, Edge, Models
  <2>2. ~Unjudged
    BY <2>1 DEF Unjudged
  <2>3. builder.step # "fit"
    BY <2>1 DEF CandInv, Fitting
  <2> QED BY <2>1, <2>2, <2>3 DEF CandInv, Learning, Learnt, Excused, Overwritten
<1> QED BY <1>1, CandidateInvariant, PTL

\* What may be promoted is the model that the offline gate looked at.
THEOREM VerdictFitsModel == BuildSpec => []GateJudgesThisModel
<1>1. CandInv => GateJudgesThisModel
  <2> SUFFICES ASSUME CandInv, Promotable, edge.judged # model.trained
               PROVE  "rebuild" \in raced \/ "queue" \in raced \/ "drop" \in raced
    BY DEF GateJudgesThisModel
  <2> QED BY DEF CandInv, Judgement, Retrains, Promotable, Fresh
<1> QED BY <1>1, CandidateInvariant, PTL

\* A promotion deletes no request but one of those windows.
THEOREM PromotionKeepsRequests == BuildSpec => PromoteKeepsRequests
<1>1. CandInv /\ PromoteCommit /\ edge.dirty => raced \cap {"swap", "drop"} # {}
  BY DEF CandInv, HandedOver, Fresh, PromoteCommit
<1>2. CandInv /\ [BuildNext]_buildVars
        => [PromoteCommit /\ edge.dirty => raced \cap {"swap", "drop"} # {}]_buildVars
  BY <1>1
<1> QED BY <1>2, CandidateInvariant, PTL DEF BuildSpec, PromoteKeepsRequests

-----------------------------------------------------------------------------
(* The two modules together, as MCTraining checks them                       *)

\* Beside each other the training queue and the candidates keep their types: what
\* the one does leaves the state of the other alone.
THEOREM TrainingTyped == QueueAndCandidates => []TrainingTypeOK
<1>1. TrainingInit => Init /\ BuildInit
  BY DEF TrainingInit
<1>2. [TrainingNext]_trainingVars => [Next]_vars /\ [BuildNext]_buildVars
  BY DEF TrainingNext, trainingVars
<1>3. QueueAndCandidates => Spec /\ BuildSpec
  BY <1>1, <1>2, PTL DEF QueueAndCandidates, Spec, BuildSpec
<1>4. TypeOK /\ CandTypeOK => TrainingTypeOK
  BY DEF TrainingTypeOK
<1> QED BY <1>3, <1>4, QueueTypeCorrect, CandidateTyped, PTL
=============================================================================
