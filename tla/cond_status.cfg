SPECIFICATION FairSpec
CONSTANTS
    RetrySteps = 2
    Budget = 3
INVARIANTS TypeOK CacheTellsTheTruth
PROPERTIES UpdatesStop StatusConverges TimesFollowFlips
