SPECIFICATION QueueAndCandidates
CONSTANTS
    a1 = a1
    a2 = a2
    a3 = a3
    t1 = t1
    t2 = t2
    Worker = Worker
    None = None
    c1 = c1
    c2 = c2
    Agents = {a1, a3}
    Targets = {t1, t2}
    TargetOf <- Lineages
    Callers = {c1}
    Requests <- TrainOrTeach
    Operations = {"cancel", "discard", "delete"}
    MaxSlots = 2
    Failures = TRUE
    Pressure = TRUE
    MaxRequests = 2
    MaxOthers = 1
    u1 = u1
    Askers = {u1}
    Limits <- BuildLimits
    MaxTally = 4
INVARIANT TrainingTypeOK
INVARIANT GateCoversTraining
INVARIANT OneJobPerAgent
INVARIANT KeepsStrongest
INVARIANT WaitingIsSeen
INVARIANT PromotableHasLearnt
INVARIANT GateJudgesThisModel
PROPERTY PromoteKeepsRequests
