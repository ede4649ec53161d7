SPECIFICATION SpawnSpec
CONSTANTS
    caller = caller
    first = first
    second = second
    item = item
    t1 = t1
    t2 = t2
    Runs = {caller, first, second, item}
    Tasks = {t1, t2}
    NoRun = NoRun
    Host <- OneReplica
    Threads = 2
    Plan <- CallsPlan
    Children <- CallsChildren
    MaxAttempts = 1
    MaxApprovals = 0
SYMMETRY TaskSymmetry
INVARIANTS SpawnTypeOK AttemptsBounded PassedOnlyIfSpawned ResumesItsCall OutputsKept OneExecutorOfLeaves
CHECK_DEADLOCK FALSE
