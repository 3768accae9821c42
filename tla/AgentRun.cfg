SPECIFICATION FairSpec
CONSTANTS
    NumTasks = 2
    MaxSteps = 2
    Configs <- MCConfigs
    Replies <- MCReplies
    OtherDirs = {10}
    SdkRetries = 2
INVARIANTS RequestsAreWellFormed CallsAreWhole FilesStayInReach ReportMatchesRuns
PROPERTIES Terminates
