SPECIFICATION Spec
CONSTANTS
    a = a
    b = b
    Names = {a}
    PageSize = 1
    NoKey = NoKey
    NoName = NoName
    NoData = NoData
    Idle = Idle
    Sent = Sent
    Resources <- OnlyIndexes
    TableUsers = {}
    JobNames = {a}
    MaxJobs = 1
    MaxCalls <- Calls
    MaxFaults <- NoFaults
    ChipTexts = {"src"}
    ClickedKeys = {"name"}
PROPERTY
    FinishedIsShown
