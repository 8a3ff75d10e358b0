SPECIFICATION Spec
CONSTANTS
    Images = {"v1"}
    None = None
    MaxGroups = 1
    Specs <- OneGroup
    InitialSpecs <- OneGroup
    RetrySteps = 2
    Disturbances = {"edit", "delete", "create", "fault", "crash", "relist", "foreign"}
    Budget = 2
INVARIANTS TypeOK NoLostWakeup
PROPERTIES NoLostEdit
CHECK_DEADLOCK FALSE
