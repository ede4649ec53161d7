SPECIFICATION FairSpec
CONSTANTS
    r1 = r1
    r2 = r2
    t1 = t1
    t2 = t2
    Runs = {r1, r2}
    Tasks = {t1, t2}
    NoRun = NoRun
    Host <- OneReplica
    Threads = 1
    Plan <- TwoRunsPlan
    MaxAttempts = 2
    MaxApprovals = 1
INVARIANTS TypeOK ProgressRecorded AttemptsBounded OneExecutorIfShort NullLeaseOnlyLegacy
PROPERTIES TerminalIsFinal FlagStopsExecution Lifecycle Settles
CHECK_DEADLOCK FALSE
