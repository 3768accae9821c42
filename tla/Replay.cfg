SPECIFICATION FairSpec
CONSTANTS
    Agents = {a1, a2}
    MaxTurns = 2
    MaxEntries = 3
    MaxFaults = 1
    Concurrency = 1
    Absent = absent
    Null = null
    MaxFailures = 1
    Traces <- MCTraces
    ActiveUsers = 2
INVARIANTS SessionsKeepOrder AnsweredIsReplayed
PROPERTIES ReplayEnds
