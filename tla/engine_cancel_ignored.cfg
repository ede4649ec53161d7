SPECIFICATION Spec
CONSTANTS
    r1 = r1
    r2 = r2
    t1 = t1
    t2 = t2
    Runs = {r1}
    Tasks = {t1}
    NoRun = NoRun
    Host <- OneReplica
    Threads = 1
    Plan <- DelayPlan
    MaxAttempts = 2
    MaxApprovals = 0
PROPERTIES CancelStopsAtBoundary
CHECK_DEADLOCK FALSE
