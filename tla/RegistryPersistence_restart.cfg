SPECIFICATION Spec
CONSTANTS
    Keys = {k1, k2}
    Document = Document
    MaxOps = 4
    MaxCalls = 2
INVARIANTS TypeOK SavedSurvives
PROPERTIES LiveKept
CHECK_DEADLOCK FALSE
