\* Two jobs of one tag, upstream adds a file and removes it, one deletion.
CONSTANTS
    j1 = j1
    j2 = j2
    f1 = f1
    f2 = f2
    root = root
    d1 = d1
    d2 = d2
    NoJob = NoJob
    Jobs <- TwoJobs
    Files <- TwoFiles
    Dirs <- ThreeDirs
    Under <- UnderThreeDirs
    IncludeDirs <- OneOfEach
    LastVersion = 3
    Content <- GrowAndShrink
    Rejected <- CutNoticed
    SrcSize <- Sizes
    DstSize <- OutputSizes
    MaxAttempts = 2
    MaxFaults = 1
    MaxDeletes = 1
SPECIFICATION FairSpec
PROPERTIES
    CompletedIsOfTheClone
    WhyDiscarded
    JobsEnd
