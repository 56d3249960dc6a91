SPECIFICATION SyncOnly
CONSTANTS
    p1 = p1
    p2 = p2
    w1 = w1
    w2 = w2
    e1 = e1
    e2 = e2
    worker = worker
    requester = requester
    b1 = b1
    b2 = b2
    b3 = b3
    k1 = k1
    Pilots = {p1, p2}
    Resources = {1, 2, 3}
    Hands = {w1, w2}
    Layouts <- BothLayouts
    FirstLayout <- Apart
    Dwell = 1
    HoldFor = 1
    MaxNow = 3
    MaxEvents = 5
    Registry = Registry
    Nobody = Nobody
    Entities = {e1, e2}
    Pollers = {worker, requester}
    PollWorker = worker
    MaxChanges = 3
    MaxDrops = 1
    LoopTargets = {b1, b2}
    Sources = {b1, b2, b3}
    Deps <- Dependencies
    Workers = 2
    PerTick = 2
    MaxArrivals = 2
    MaxTimers = 1
    MaxFaults = 1
    Kinds = {k1}
    MaxUpdates = 3
    MaxBreaks = 2
    MaxRefusals = 1
    Probers = {p1, p2}
    Host = p1
    MaxSessions = 2
    Budgets <- BudgetsOneTwo
    Bounds <- ExploreBounds
INVARIANT GapIsReconciled
CHECK_DEADLOCK FALSE
