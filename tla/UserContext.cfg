SPECIFICATION Spec
CONSTANTS
    MaxContext = 12
    FixedTokens = 2
    InputTokens = 1
    ReplySizes <- MCReplySizes
    InitialPrefix = 8
    Increment = 1
    Jitter <- MCJitter
    MaxTurns = 5
INVARIANTS NeverTrapped HistoryIsRecent
PROPERTIES CompactionForgets
