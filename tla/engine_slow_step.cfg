SPECIFICATION Spec
CONSTANTS
    r1 = r1
    r2 = r2
    t1 = t1
    t2 = t2
    Runs = {r1}
    Tasks = {t1, t2}
    NoRun = NoRun
    Host <- OneReplica
    Threads = 2
    Plan <- ScriptPlan
    MaxAttempts = 3
    MaxApprovals = 0
SYMMETRY TaskSymmetry
INVARIANTS OneExecutor
CHECK_DEADLOCK FALSE
