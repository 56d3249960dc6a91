------------------------------ MODULE MCTraining -----------------------------
(* Small instances of TrainingQueue and of CandidateBuild, whose full rebuild *)
(* sees the queue as one job of its own.  `half` says which one a behaviour   *)
(* is about; the other stays in its initial state.                            *)
EXTENDS MCTrainingQueue, CandidateBuild

CONSTANT u1

VARIABLE half

trainingVars == <<half, vars, buildVars>>

BuildLimits == [asks |-> 3, drops |-> 1, looks |-> 1, swaps |-> 1, deaths |-> 1]

\* The queue may not come to a stop; the bounds of the candidate may be exhausted.
TrainingNext ==
    /\ UNCHANGED half
    /\ \/ half = "queue" /\ Next /\ UNCHANGED buildVars
       \/ half = "candidate" /\ BuildNext /\ UNCHANGED vars
       \/ half = "candidate" /\ UNCHANGED <<vars, buildVars>>

TrainingInit == half \in {"queue", "candidate"} /\ Init /\ BuildInit

\* Types of the two modules.
TrainingTypeOK == TypeOK /\ CandTypeOK

QueueAndCandidates == TrainingInit /\ [][TrainingNext]_trainingVars
=============================================================================
