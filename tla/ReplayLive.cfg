SPECIFICATION Spec
CONSTANTS
    Agents = {a1}
    MaxTurns = 2
    MaxEntries = 2
    MaxFaults = 0
    Concurrency = 1
    Absent = absent
    Null = null
    MaxFailures = 0
    Traces = {}
    ActiveUsers = 1
INVARIANTS LivePrefixKept
