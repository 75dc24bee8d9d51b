SPECIFICATION Spec
CONSTANTS
    Ports = {p1, p2, p3}
    BadPort = bad
    NoPort = NoPort
    Platform = "android"
    MaxRetries = 3
    MaxCycle = 3
INVARIANT ReadyIsServed
CHECK_DEADLOCK FALSE
