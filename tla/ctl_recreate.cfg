SPECIFICATION FairSpec
CONSTANTS
    Images = {"v1"}
    None = None
    MaxGroups = 1
    Specs <- OneByOne
    InitialSpecs <- OneByOne
    RetrySteps = 2
    Disturbances = {"delete", "create", "crash"}
    Budget = 2
PROPERTIES ChildrenConverge ReadyConverges KeepsContract
CHECK_DEADLOCK FALSE
