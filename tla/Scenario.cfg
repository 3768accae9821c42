SPECIFICATION FairSpec
CONSTANTS
    MaxContext = 8
    FixedTokens = 2
    InputTokens = 1
    ReplySizes = {1}
    InitialPrefix = 4
    Increment = 0
    Jitter <- MCJitter
    NumUsers = 2
    MaxTurns = 2
    MaxConsecutiveFailures = 2
    PreflightAttempts = 2
    Paced = TRUE
    Sampling = TRUE
    Faults = {"console", "disk"}
    MaxSigints = 2
    GatherNeedsLiveLoop = TRUE
INVARIANTS CountersMatchRecords TurnsRecordedOnce AbortAtThreshold ResultsComplete ExitTellsResults NoOrphans
PROPERTIES QuietAfterShutdown UsersAreIndependent ShutdownTerminates Terminates
