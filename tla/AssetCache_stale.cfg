SPECIFICATION Spec
CONSTANTS
    Keys = {k1}
    Segs = {s1}
    None = None
    Old = Old
    Left = {k1}
    MaxJobs = 2
    MaxAtOnce = 2
    MaxOps = 1
PROPERTIES StaleNeverLands
CHECK_DEADLOCK FALSE
