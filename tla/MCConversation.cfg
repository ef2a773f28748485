CONSTANTS
    None = None
    NCtx = 7
    OpeningLen = 2
    Chunk = 2
    PromptSizes <- Sizes
    Budgets = {2}
    Faults <- AllFaults
    MaxSends = 3
SPECIFICATION FairSpec
INVARIANT TypeOK
INVARIANT LedgerMatchesCache
INVARIANT TurnsTile
INVARIANT OpeningProtected
INVARIANT ReplyHasItsBudget
PROPERTY EverySendEnds
