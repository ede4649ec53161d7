SPECIFICATION AlignedSpec
CONSTANTS
    s1 = s1
    s2 = s2
    a = a
    b = b
    Schedules = {s1, s2}
    Replicas = {a, b}
    Expression <- TwoSchedules
    TimeOf <- Midnight
    LastMinute = 3
    MaxFailures = 1
    MaxEdits = 1
SYMMETRY ReplicaSymmetry
INVARIANTS TypeOK OncePerReplica
PROPERTIES LastRunAdvances ListedIsFired
