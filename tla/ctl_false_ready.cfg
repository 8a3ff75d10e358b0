SPECIFICATION Spec
CONSTANTS
    Images = {"v1", "v2"}
    None = None
    MaxGroups = 2
    Specs <- Rescaled
    InitialSpecs <- Rescaled
    RetrySteps = 2
    Disturbances = {"edit"}
    Budget = 1
INVARIANTS ReadyIsEarned
