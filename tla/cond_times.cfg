SPECIFICATION FairSpec
CONSTANTS
    RetrySteps = 2
    Budget = 3
PROPERTY TimeMovesWithStatus
