\* The database may fail: the attempt should still return, so that it is retried.
CONSTANTS
    w1 = w1
    w2 = w2
    Workers <- MCWorkers
    N = 3
    BatchSize = 1
    Faults <- DBFaults
SPECIFICATION FairSpec
PROPERTY AttemptReturns
CHECK_DEADLOCK FALSE
