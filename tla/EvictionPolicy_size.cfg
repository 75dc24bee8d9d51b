SPECIFICATION Spec
CONSTANTS
    Keys = {k1, k2, k3}
    Policies = {"LFUSize", "LFU", "Free"}
    Capacity = 1
    MinEntries = 1
    MaxCandidates = 2
    MaxBytes = 1
    MaxFreq = 1
    MaxOps = 3
    None = None
INVARIANTS TypeOK GetKeepsItsEntry
PROPERTIES EndsFittingOrGivenUp EvictionEnds
CHECK_DEADLOCK FALSE
