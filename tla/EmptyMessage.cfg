SPECIFICATION SessionSpec
CONSTANTS
    Replies <- MCReplies
    MaxAnswers = 3
    MaxFaults = 0
    Caps = {0}
INVARIANTS EveryMessageHasRole
