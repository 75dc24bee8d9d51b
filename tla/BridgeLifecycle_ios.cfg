SPECIFICATION Spec
CONSTANTS
    Ports = {p1, p2, p3}
    BadPort = bad
    NoPort = NoPort
    Platform = "ios"
    MaxRetries = 3
    MaxCycle = 3
INVARIANTS
    TypeOK
    FailedIsStopped
    RetriesFreshAndBounded
PROPERTIES
    StaleNeverPublishes
    StartingEnds
    ReadinessKept
CHECK_DEADLOCK FALSE
