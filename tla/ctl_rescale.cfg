SPECIFICATION FairSpec
CONSTANTS
    Images = {"v1", "v2"}
    None = None
    MaxGroups = 2
    Specs <- Rescaled
    InitialSpecs <- OneByTwo
    RetrySteps = 1
    Disturbances = {"edit", "unready"}
    Budget = 1
INVARIANTS RestIsConverged
PROPERTIES ReadyConverges TemplatesConverge KeepsContract
