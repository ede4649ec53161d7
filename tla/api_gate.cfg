SPECIFICATION OneDeciderSpec
CONSTANTS
    r1 = r1
    t1 = t1
    t2 = t2
    h1 = h1
    h2 = h2
    p1 = p1
    Runs = {r1}
    Tasks = {t1}
    NoRun = NoRun
    Host <- OneReplica
    Threads = 1
    Resolvers = {h1, h2}
    Patchers = {p1}
    Plan <- OneGatePlan
    MaxAttempts = 1
    MaxApprovals = 2
SYMMETRY ApiSymmetry
INVARIANTS ApiTypeOK AttemptsBounded WaitingHasApprovalRow NoStepSkipped GatePassedOnlyIfApproved
CHECK_DEADLOCK FALSE
