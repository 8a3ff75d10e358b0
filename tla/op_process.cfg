SPECIFICATION FairSpec
CONSTANTS
    NamespaceAll = all
    Namespaces = {ns}
    Periods <- SomePeriods
    DefaultPeriod = 3
    Unset = Unset
    Absent = Absent
    Invalid = Invalid
    MaxSignals = 2
INVARIANTS TypeOK ResyncUnlessTurnedOff WorkersReadFullCaches SuccessAfterShutdown
PROPERTIES ComesUp OneSignalEnds LivesAsControllerRun
CHECK_DEADLOCK FALSE
