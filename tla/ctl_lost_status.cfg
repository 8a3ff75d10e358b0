SPECIFICATION FairSpec
CONSTANTS
    Images = {"v1"}
    None = None
    MaxGroups = 1
    Specs <- OneByOne
    InitialSpecs <- OneByOne
    RetrySteps = 2
    Disturbances = {"fault"}
    Budget = 1
PROPERTIES ReadyConverges
