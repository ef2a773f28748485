CONSTANTS
    c1 = c1
    c2 = c2
    None = None
    Client <- TwoClients
    ScriptLen = 2
    MaxSends = 2
SPECIFICATION FairSpec
INVARIANT TypeOK
INVARIANT RepliesFit
INVARIANT TranscriptComplete
INVARIANT TurnsReachTheirAsker
INVARIANT ScriptPlayedOnce
INVARIANT OneLateConnection
PROPERTY DropReturns
PROPERTY EveryCallReturns
