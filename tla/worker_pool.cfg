SPECIFICATION FairSpec
CONSTANTS
    MaxConcurrent = 3
    Threads = 2
    MaxArrivals = 4
    MaxErrors = 2
    MaxHung = 2
INVARIANTS TypeOK PermitsConserved NoLostWakeup
PROPERTIES Drained
CHECK_DEADLOCK FALSE
