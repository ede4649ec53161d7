SPECIFICATION ApiSpec
CONSTANTS
    r1 = r1
    t1 = t1
    t2 = t2
    h1 = h1
    h2 = h2
    p1 = p1
    Runs = {r1}
    Tasks = {t1}
    NoRun = NoRun
    Host <- OneReplica
    Threads = 1
    Resolvers = {h1, h2}
    Patchers = {}
    Plan <- OneGatePlan
    MaxAttempts = 2
    MaxApprovals = 1
SYMMETRY ApiSymmetry
INVARIANTS GatePassedOnlyIfApproved
CHECK_DEADLOCK FALSE
