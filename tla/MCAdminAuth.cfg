SPECIFICATION Spec
CONSTANTS
    r1 = r1
    admin = admin
    old = old
    new = new
    None = None
    Requests <- MCRequests
    StaticTokens <- MCStaticTokens
    Secrets <- MCSecrets
    TTLSettings <- MCTTLSettings
    DefaultSession = 3
    MaxSession = 3
    TicksPerSecond = 2
    MaxNow = 5
    MaxTokens = 1
INVARIANTS
    TypeOK
    NeverOutlives
    NotCutShort
