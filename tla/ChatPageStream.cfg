SPECIFICATION Spec
CONSTANTS
    Tags <- OneTag
    Chosen <- LMStudio
    Bounds <- TalkOrTune
    MaxDocs = 1
    MaxTokens = 1
    MaxFaults = 2
INVARIANTS
    TypeOK
    AnswersFollowTheirQuestion
    PromptIsTheConversation
    RefusedOnlyForWhatWasTyped
    BubblesTellTheTruth
PROPERTY
    WaitingEnds
