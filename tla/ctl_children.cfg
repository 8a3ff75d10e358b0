SPECIFICATION FairSpec
CONSTANTS
    Images = {"v1"}
    None = None
    MaxGroups = 2
    Specs <- TwoByOne
    InitialSpecs <- TwoByOne
    RetrySteps = 2
    Disturbances = {"fault", "crash", "loseService", "loseSet"}
    Budget = 1
INVARIANTS ReadyIsEarned
PROPERTIES ChildrenConverge
