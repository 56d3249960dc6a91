SPECIFICATION CandidateOnly
CONSTANTS
    i1 = i1
    i2 = i2
    g1 = g1
    g2 = g2
    l1 = l1
    l2 = l2
    c1 = c1
    c2 = c2
    u1 = u1
    None = None
    Ids = {i1, i2}
    Generations = {g1}
    Labels = {l1}
    Clients = {c1, c2}
    Failures = TRUE
    MaxDeaths = 1
    MaxBorn = 1
    Askers = {u1}
    Limits <- BuildLimits
    MaxTally = 4
PROPERTY DiscardSurvivesRestart
