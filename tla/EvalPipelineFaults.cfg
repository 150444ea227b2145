\* Every fault: dataset read, embedding, database, job cancelled.
\* An attempt may stop for good (Wedged), hence no deadlock check.
CONSTANTS
    w1 = w1
    w2 = w2
    Workers <- MCWorkers
    N = 3
    BatchSize = 2
    Faults <- AllFaults
SPECIFICATION FairSpec
INVARIANTS
    SuccessIsComplete
PROPERTIES
    RefinesAttempt
    ReturnsOrWedges
CHECK_DEADLOCK FALSE
