SPECIFICATION Spec
CONSTANTS
    Keys = {k1}
    Document = Document
    MaxOps = 3
    MaxCalls = 2
PROPERTY SweepSparesLive
CHECK_DEADLOCK FALSE
