SPECIFICATION LiveSpec
CONSTANTS
    a1 = a1
    a2 = a2
    a3 = a3
    t1 = t1
    t2 = t2
    Worker = Worker
    None = None
    c1 = c1
    c2 = c2
    Agents = {a1, a3}
    Targets = {t1, t2}
    TargetOf <- Lineages
    Callers = {c1}
    Requests <- TrainOrTeach
    Operations = {"cancel"}
    MaxSlots = 1
    Failures = TRUE
    Pressure = FALSE
    MaxRequests = 2
    MaxOthers = 1
    e1 = e1
    worker = worker
    requester = requester
    b3 = b3
    k1 = k1
    Entities = {e1}
    Pollers = {worker, requester}
    PollWorker = worker
    MaxChanges = 2
    MaxDrops = 1
    LoopTargets = {t1, t2}
    Sources = {t1, t2, b3}
    Deps <- Dependencies
    Workers = 2
    PerTick = 2
    MaxArrivals = 2
    MaxTimers = 1
    MaxFaults = 0
    Kinds = {k1}
    MaxUpdates = 3
    MaxBreaks = 2
    MaxRefusals = 1
    Probers = {t1}
    Host = t1
    MaxSessions = 1
    Budgets <- OneOutcome
    Bounds <- OneSession
INVARIANT SlotsBound
PROPERTY QueueDrains
PROPERTY SlotsFreed
PROPERTY GapsHeal
PROPERTY RetriesAreServed
PROPERTY StormsEnd
PROPERTY RegistryNeverRewinds
PROPERTY RegistryCatchesUp
PROPERTY QueuedChildrenConclude
CHECK_DEADLOCK FALSE
