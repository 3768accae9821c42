SPECIFICATION FairSpec
CONSTANTS
    MinUsers = 3
    MaxUsers = 6
    Geometric = TRUE
    WarmupTurns = 1
    StepTurns = 1
    ErrorPercent = 30
    Constrained = TRUE
    TaskFaults = TRUE
    Interrupts = TRUE
INVARIANTS KneeIsSharp TestedOnce StepsDoNotOverlap
PROPERTIES SweepEnds PassedOnFullSample
