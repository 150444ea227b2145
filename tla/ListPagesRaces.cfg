SPECIFICATION Spec
CONSTANTS
    a = a
    b = b
    Names = {a, b}
    PageSize = 1
    NoKey = NoKey
    NoName = NoName
    NoData = NoData
    Idle = Idle
    Sent = Sent
    Resources <- AllResources
    TableUsers <- OnlyDatasets
    JobNames = {a}
    MaxJobs = 1
    MaxCalls <- Calls
    MaxFaults <- Faults
    ChipTexts = {"src"}
    ClickedKeys = {"name"}
INVARIANTS
    TypeOK
    FreshShowsOwnChanges
    EmptyPageMeansShrunk
    RefusedOnlyForTheSource
PROPERTY
    PendingRowsFollowTheirJob
