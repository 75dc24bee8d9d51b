SPECIFICATION PSpec
CONSTANTS
    Ports = {p1, p2, p3}
    BadPort = bad
    NoPort = NoPort
    Platform = "android"
    MaxRetries = 3
    MaxCycle = 5
    DevModes = {TRUE, FALSE}
    MaxPending = 2
INVARIANTS
    ProviderTypeOK
    ReleaseReadyIsServed
    BackgroundIsStopped
PROPERTIES
    ForegroundIsServed
CHECK_DEADLOCK FALSE
