SPECIFICATION Spec
CONSTANTS
    NoData = NoData
    Idle = Idle
    Sent = Sent
    Refused = Refused
    NoRun = NoRun
    MaxRuns = 3
    MaxRows = 3
    MaxCompare = 1
    ListLimit = 3
    PageSize = 2
    MaxCategories = 1
    MetricsOf <- Metrics3
    TagOf <- Tags3
    Questions <- Questions3
    Scenes <- AllScenes
INVARIANTS
    TypeOK
    OverLimitOnlyByFormerBase
    PagingNeverCrashes
    EveryQuestionIsCounted
    ComparisonIsCoherent
    RefusedOnlyForTheSelects
PROPERTY
    PagesSettle
    DashboardGoesIdle
