SPECIFICATION FairSpec
CONSTANTS
    a1 = a1
    a2 = a2
    t1 = t1
    t2 = t2
    x1 = x1
    x2 = x2
    Life = Life
    None = None
    Agents = {a1}
    Targets = {t1}
    Autos = {x1, x2}
    TargetOf <- OneTarget
    Known <- OneKnown
    Failures = TRUE
    Ambiguous = FALSE
    Callers = {"enter", "submit", "leave"}
    Shutdowns = TRUE
    MaxCrashes = 0
PROPERTY LocksReleased
PROPERTY StartupCompletes
