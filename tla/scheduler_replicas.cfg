SPECIFICATION Spec
CONSTANTS
    s1 = s1
    s2 = s2
    a = a
    b = b
    Schedules = {s1}
    Replicas = {a, b}
    Expression <- OneSchedule
    TimeOf <- Midnight
    LastMinute = 2
    MaxFailures = 0
    MaxEdits = 0
INVARIANTS OncePerMinute
