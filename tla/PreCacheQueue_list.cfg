SPECIFICATION Spec
CONSTANTS
    m1 = m1
    m2 = m2
    s1 = s1
    x1 = x1
    Media = {m1, m2}
    Streams = {s1}
    Malformed = {x1}
    Encoded = {}
    FileOf <- SignedPaths
    Lists <- ListedPages
    NoFile = NoFile
    MaxOps = 3
    MaxTasks = 2
INVARIANTS TypeOK FinalIsWhole GuardKeepsSerial
PROPERTIES TempsAreCleared ListIsWorkedOff
CHECK_DEADLOCK FALSE
