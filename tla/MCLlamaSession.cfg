CONSTANTS
    Models <- AllModels
    Systems <- NoneOrSystem
    ToolLists <- NoneOrRead
    Configured <- Json
    UserMessages <- Hello
    Plans <- SomePlans
    Options <- Asks
    ResultLists <- Two
    TextLists <- Lists
    Poolings <- AnyPooling
    OneShotCtx = 8
    EmbedMax = 3
    MaxSends = 2
    MaxCalling = 2
    MaxSevered = 1
SPECIFICATION Spec
CHECK_DEADLOCK FALSE
INVARIANT TypeOK
INVARIANT ContextIsTheTemplates
INVARIANT SystemToldOnce
INVARIANT ParsedAsWritten
INVARIANT SeveredIsReported
INVARIANT AnswerIsInContext
INVARIANT EmbeddedAlone
