-------------------------- MODULE MCWorkflowRequests --------------------------
(* Small instances of the two halves of Correct, which share no state here:   *)
(* the queue of requests (WorkflowRequests) and the candidate they mark       *)
(* (CandidateBuild).  `half` says which one a behaviour is about; the other   *)
(* stays in its initial state.                                                *)
EXTENDS WorkflowRequests, CandidateBuild

CONSTANTS i1, i2, g1, g2, l1, l2, c1, c2, u1

VARIABLE half

correctVars == <<half, vars, buildVars>>

BuildLimits == [asks |-> 2, drops |-> 1, looks |-> 1, swaps |-> 0, deaths |-> 1]

CorrectInit(halves) == half \in halves /\ Init /\ BuildInit

CorrectNext ==
    /\ UNCHANGED half
    /\ \/ half = "requests" /\ Next /\ UNCHANGED buildVars
       \/ half = "candidate" /\ BuildNext /\ UNCHANGED vars
       \/ half = "candidate" /\ UNCHANGED <<vars, buildVars>>   \* the bounds are exhausted

\* The fairness of FairSpec, for the half that moves.
RequestFairness ==
    /\ WF_vars(half = "requests" /\ WorkerStep)
    /\ \A c \in Clients : WF_vars(half = "requests" /\ SetWake(c))

\* The worker and the other threads run, jobs start and end, and a row is not
\* put off for ever: the debounce passes and other heavy jobs end.
CandidateFairness ==
    /\ WF_buildVars(half = "candidate" /\ BuilderStep)
    /\ SF_buildVars(half = "candidate" /\ StartCorrect)
    /\ SF_buildVars(half = "candidate" /\ StartFull)
    /\ WF_buildVars(half = "candidate" /\ CandidateStarts)
    /\ WF_buildVars(half = "candidate" /\ CandidateEnds)
    /\ \A a \in Askers : WF_buildVars(half = "candidate" /\ AskMark(a))
    /\ WF_buildVars(half = "candidate" /\ DiscardStep)
    /\ WF_buildVars(half = "candidate" /\ JudgeWrite)
    /\ WF_buildVars(half = "candidate" /\ (PromoteCommit \/ PromoteFails))

CorrectSpec == CorrectInit({"requests", "candidate"}) /\ [][CorrectNext]_correctVars
               /\ RequestFairness /\ CandidateFairness
CandidateOnly == CorrectInit({"candidate"}) /\ [][CorrectNext]_correctVars
=============================================================================
