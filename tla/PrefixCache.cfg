SPECIFICATION Spec
CONSTANTS
    Requests <- MCRequests
    BlockSize = 2
    Levels = {3, 4, 5, 7, 9}
    MaxRequests = 7
INVARIANTS ResidentsAreMostRecent CeilingIsMaximal
PROPERTIES HitsGrowWithBudget
