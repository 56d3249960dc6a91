SPECIFICATION Spec
CONSTANTS
    a1 = a1
    a2 = a2
    a3 = a3
    t1 = t1
    t2 = t2
    Worker = Worker
    None = None
    c1 = c1
    c2 = c2
    Agents = {a1, a3}
    Targets = {t1, t2}
    TargetOf <- Lineages
    Callers = {c1}
    Requests <- TrainOrTeach
    Operations = {}
    MaxSlots = 1
    Failures = FALSE
    Pressure = FALSE
    MaxRequests = 2
    MaxOthers = 0
INVARIANT NoRequestLost
