\* Three documents in a pool of two, so that one waits for another; two full
\* batches and a partial one; a retry; everything may fail.
CONSTANTS
    N = 5
    BatchSize = 2
    DocTimeouts = {0, 1}
    Faults <- AllFaults
    d1 = d1
    d2 = d2
    d3 = d3
    Focus = d1
    Others <- OtherDocs
    Concurrency = 2
    MaxAttempts = 2
    JobFaults <- AllJobFaults
SPECIFICATION JobFairSpec
INVARIANTS
    PartialOnlyBetweenBatches
    CompletedIsExplained
PROPERTY IndexJobEnds
