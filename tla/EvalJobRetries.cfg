\* A batch size that divides the dataset, and one that leaves a rest; any attempt
\* may fault.
CONSTANTS
    NumQuestions = 4
    BatchSizes = {1, 2, 3}
    MaxAttempts = 3
    MaxFaults = 3
SPECIFICATION FairSpec
INVARIANTS
    CompletedRunIsSuffix
    CheckpointedRunIsCleaned
    WhyDiscarded
PROPERTY JobEnds
