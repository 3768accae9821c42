SPECIFICATION SessionSpec
CONSTANTS
    Replies <- MCReplies
    MaxAnswers = 3
    MaxFaults = 1
    Caps = {0, 1, 2}
INVARIANTS AnswersSurvive NothingIsLost TraceIsTheRecording
