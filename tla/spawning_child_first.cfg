SPECIFICATION SpawnSpec
CONSTANTS
    caller = caller
    first = first
    second = second
    item = item
    t1 = t1
    t2 = t2
    Runs = {caller, first}
    Tasks = {t1, t2}
    NoRun = NoRun
    Host <- OneReplica
    Threads = 2
    Plan <- OneCallPlan
    Children <- OneCallChildren
    MaxAttempts = 2
    MaxApprovals = 0
SYMMETRY TaskSymmetry
INVARIANTS SuccessResumesParent
CHECK_DEADLOCK FALSE
