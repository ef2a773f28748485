CONSTANTS
    None = None
    NCtx = 9
    OpeningLen = 2
    Chunk = 512
    PromptSizes <- Sizes
    Budgets = {2}
    Faults <- NoFaults
    MaxSends = 4
SPECIFICATION Spec
INVARIANT OpeningDecodedOnce
