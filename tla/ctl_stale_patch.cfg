SPECIFICATION FairSpec
CONSTANTS
    Images = {"v1", "v2"}
    None = None
    MaxGroups = 1
    Specs <- UpgradedAndBack
    InitialSpecs <- OneByOne
    RetrySteps = 2
    Disturbances = {"edit"}
    Budget = 2
INVARIANTS RestIsConverged
