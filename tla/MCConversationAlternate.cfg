CONSTANTS
    None = None
    NCtx = 9
    OpeningLen = 2
    Chunk = 512
    PromptSizes <- Sizes
    Budgets = {2}
    Faults <- BadGrammar
    MaxSends = 3
SPECIFICATION Spec
INVARIANT TurnsAlternate
