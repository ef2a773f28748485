CONSTANTS
    c1 = c1
    c2 = c2
    small = small
    large = large
    None = None
    Conn <- TwoConn
    Path <- MCPath
    Size <- MCSize
    HostFree <- SometimesShort
    GpuTotal = 5
    Context = 1
    Num = 4
    Den = 5
    Kinds <- AllKinds
    MaxTurns = 2
SPECIFICATION FairSpec
INVARIANT TypeOK
INVARIANT DecodeIsAlone
INVARIANT SnapshottedMeansFreed
INVARIANT NoContextLeaks
INVARIANT CountedBeforeReply
INVARIANT ModelsWithinTotal
INVARIANT EvictionNeverRefused
INVARIANT ConversationKeepsModel
INVARIANT ArcsCountConversations
INVARIANT SessionsAreResident
PROPERTY EveryRequestEnds
