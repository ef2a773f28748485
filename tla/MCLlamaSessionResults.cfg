CONSTANTS
    Models <- GemmaOnly
    Systems <- NoSystem
    ToolLists <- ReadOnly
    Configured <- NoFormat
    UserMessages <- Hello
    Plans <- SomePlans
    Options <- Plainly
    ResultLists <- Two
    TextLists <- NoTexts
    Poolings <- AnyPooling
    OneShotCtx = 8
    EmbedMax = 3
    MaxSends = 2
    MaxCalling = 2
    MaxSevered = 1
SPECIFICATION Spec
CHECK_DEADLOCK FALSE
INVARIANT ResultsArriveAsResults
