SPECIFICATION FairStoreSpec
CONSTANTS
    w1 = w1
    d1 = d1
    d2 = d2
    a = a
    b = b
    h = h
    key = key
    Workflows = {w1}
    Definitions = {d1, d2}
    Requests = {a, b, h}
    Keys = {key}
    KeyOf <- SharedKey
    WorkflowOf <- OneWorkflow
    Hooks = {h}
    NoSnapshot = NoSnapshot
    MaxEdits = 2
    MaxFailures = 1
INVARIANTS StoreTypeOK ExecutesTheRecordedVersion
PROPERTIES Idempotent RetryAnswered
CHECK_DEADLOCK FALSE
