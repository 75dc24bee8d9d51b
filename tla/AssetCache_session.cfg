SPECIFICATION Spec
CONSTANTS
    Keys = {k1}
    Segs = {s1}
    None = None
    Old = Old
    Left = {k1}
    MaxJobs = 3
    MaxAtOnce = 2
    MaxOps = 1
INVARIANTS TypeOK VerifiedOnDisk BytesCounted
PROPERTIES EveryRequestAnswered NoOrphan
CHECK_DEADLOCK FALSE
