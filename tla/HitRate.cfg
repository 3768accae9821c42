SPECIFICATION FairSpec
CONSTANTS
    NumRequests = 2
    PrefixNum = 1
    Concurrency = 1
    PrefixTokens = 2
    SuffixTokens = 1
    MaxConsecutiveFailures = 1
    Engines = {1, 2}
    Deployments <- MCDeployments
    MaxFailures = 2
    MaxRestarts = 1
    MaxSigints = 1
INVARIANTS DeltaIsMeasured TargetIsRealized ReportIsComplete
PROPERTIES Terminates
